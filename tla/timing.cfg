SPECIFICATION Spec
CONSTANTS
    Tasks <- MCTasks
    NoTask = NoTask
    Never = Never
    Mutexes = {}
    Semaphores = {}
    Queues = {}
    Values = {}
    Texts = {"a"}
    PIN_COUNT = 1
    Setups <- TimingSetups
    Horizon = 12
INVARIANTS
    JobLifecycle
    ReleasesKeepPhase
    TimerExact
    TickServicesAll
    JobCost
    OneUnitPerTick
PROPERTIES
    ImplementsProcessor
