SPECIFICATION HistorySpec
CONSTANTS
    Tasks <- MCTasks
    NoTask = NoTask
    Never = Never
    Mutexes = {}
    Semaphores = {"s"}
    Queues = {"q"}
    Values = {1, 2, 3}
    Texts = {"a", "b"}
    PIN_COUNT = 2
    Setups <- TransferSetups
    Horizon = 9
INVARIANTS
    TypeOK
    WaitListsConsistent
    BlockedAtItsOperation
    NoStrandedUnit
    QueueConserves
    NoLostWakeup
    EffectsExactlyOnce
    FifoDelivery
    UnitsConserved
