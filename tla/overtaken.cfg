SPECIFICATION HistorySpec
CONSTANTS
    Tasks <- MCTasks
    NoTask = NoTask
    Never = Never
    Mutexes = {}
    Semaphores = {"s"}
    Queues = {"q"}
    Values = {1, 2, 3}
    Texts = {"a", "b"}
    PIN_COUNT = 2
    Setups <- OvertakenSetups
    Horizon = 6
PROPERTIES
    WokenPartnerProgresses
