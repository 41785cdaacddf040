SPECIFICATION FairHistorySpec
CONSTANTS
    Tasks <- ScenarioTasks
    NoTask = NoTask
    Never = Never
    Mutexes = {1, 5}
    Semaphores = {0, 1, 2, 3}
    Queues = {0, 1, 2, 3}
    Values = {1, 2, 3, 4, 5}
    Texts = {"blink", "sample"}
    PIN_COUNT = 8
    Setups <- ScenarioSetups
    Schedulable <- SchedulableSetups
    Horizon = 230
INVARIANTS
    MeetsDeadlines
    BossBlockingBounded
PROPERTIES
    EveryTaskProgresses
