SPECIFICATION Spec
CONSTANTS
    Tasks <- MCTasks
    NoTask = NoTask
    Never = Never
    Mutexes <- MCMutexes
    Semaphores = {}
    Queues = {}
    Values = {}
    Texts = {}
    PIN_COUNT = 0
    Setups <- LockSetups
    Horizon = 14
INVARIANTS
    SingleRunner
    MutexConsistent
    BlockedAtItsOperation
    InheritanceExact
    MutualExclusion
    OrderedLocksNeverDeadlock
PROPERTIES
    RisesOnlyWhenBlocking
    MutexHandedToWaiter
    NoInversion
    CycleContained
    BoostIsTheWalk
    ImplementsLockService
