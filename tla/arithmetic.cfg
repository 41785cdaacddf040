SPECIFICATION TickSpec
CONSTANTS
    Limit = 32
    Periods <- AllTimes
    Delays <- AllTimes
    Ticks = 31
INVARIANTS
    MissExact
PROPERTIES
    SleepsFully
