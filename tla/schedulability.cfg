SPECIFICATION Spec
CONSTANTS
    Tasks <- ThreeTasks
    NoTask = NoTask
    Never = Never
    Mutexes = {}
    Semaphores = {}
    Queues = {}
    Values = {}
    Texts = {}
    PIN_COUNT = 0
    Setups <- AnalysedSetups
    Horizon = 52
INVARIANTS
    AnalysisExact
    ResponseExact
    ScheduleRepeats
    BoundSufficient
