SPECIFICATION Spec
CONSTANTS
    Tasks <- OneTask
    NoTask = NoTask
    Never = Never
    Mutexes <- MCMutexes
    Semaphores = {}
    Queues = {}
    Values = {}
    Texts = {}
    PIN_COUNT = 0
    Setups <- TrailingSetups
    Horizon = 8
INVARIANTS
    JobEndsWithItsBudget
