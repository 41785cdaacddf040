SPECIFICATION FairHistorySpec
CONSTANTS
    Tasks <- FourTasks
    NoTask = NoTask
    Never = Never
    Mutexes <- MCMutexes
    Semaphores = {}
    Queues = {}
    Values = {}
    Texts = {}
    PIN_COUNT = 0
    Setups <- InversionSetups
    Horizon = 30
INVARIANTS
    InversionBounded
    BlockingBounded
PROPERTIES
    LockGranted
