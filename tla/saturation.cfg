SPECIFICATION HistorySpec
CONSTANTS
    Tasks <- OneTask
    NoTask = NoTask
    Never = Never
    Mutexes = {}
    Semaphores = {"s"}
    Queues = {"q"}
    Values = {1, 2, 3}
    Texts = {"a", "b"}
    PIN_COUNT = 2
    Setups <- SaturatingSetups
    Horizon = 4
INVARIANTS
    SignalsNeverLost
