SPECIFICATION Spec
CONSTANTS
    Tasks <- ThreeTasks
    NoTask = NoTask
    Never = Never
    Mutexes = {}
    Semaphores = {}
    Queues = {}
    Values = {}
    Texts = {}
    PIN_COUNT = 0
    Setups <- TiedSetups
    Horizon = 12
INVARIANTS
    AnalysisExact
