--------------------------- MODULE KernelHistory ---------------------------
(***************************************************************************)
(* The kernel with history variables: what the tests of the repository     *)
(* reconstruct from the event log, for properties that relate a state to   *)
(* what happened on the way to it.  History never influences a step.       *)
(***************************************************************************)
EXTENDS KernelProperties

VARIABLES
    accepted,       \* values accepted by each queue, in order
    delivered,      \* values received from each queue, in order
    signals,        \* SemSignal operations performed, per semaphore
    takes,          \* units taken by SemWait operations, per semaphore
    woken,          \* tasks a queue woke that have not run since
    blocked_at,     \* tick of the BlockOnMutex a task waits since, or Never
    blocking,       \* the most ticks from a BlockOnMutex to the Lock that ended it
    inverted        \* ticks less urgent tasks ran while it was blocked on a mutex

historyVars ==
    <<accepted, delivered, signals, takes, woken, blocked_at, blocking, inverted>>

HistoryInit ==
    /\ accepted = [q \in Queues |-> <<>>]
    /\ delivered = [q \in Queues |-> <<>>]
    /\ signals = [s \in Semaphores |-> 0]
    /\ takes = [s \in Semaphores |-> 0]
    /\ woken = {}
    /\ blocked_at = [t \in Tasks |-> Never]
    /\ blocking = [t \in Tasks |-> 0]
    /\ inverted = [t \in Tasks |-> 0]

\* The operation a step of a quantum performs.
Performing(op) == /\ mode = "quantum"
                  /\ ~AtEnd(running)
                  /\ current_op(running) = op

Passes(t, op) == /\ ~AtEnd(t)
                 /\ current_op(t) = op
                 /\ pc'[t] = pc[t] + 1

OnMutex(t) == \E m \in Mutexes : blocked_on[t] = <<"Mutex", m>>
OnQueue(t) == \E q \in Queues : blocked_on[t] \in {<<"QueueSend", q>>, <<"QueueRecv", q>>}

\* What a step adds to the history.
RecordQueues ==
    /\ accepted' = [q \in Queues |->
          IF sent'[q] > sent[q] THEN Append(accepted[q], current_op(running)[3])
                                ELSE accepted[q]]
    /\ delivered' = [q \in Queues |->
          IF received'[q] > received[q] THEN Append(delivered[q], Head(buf[q]))
                                        ELSE delivered[q]]
    /\ woken' = {t \in Tasks : \/ OnQueue(t) /\ blocked_on'[t] = None
                               \/ t \in woken /\ pc'[t] = pc[t] /\ blocked_on'[t] = None}

RecordUnits ==
    /\ signals' = [s \in Semaphores |->
          IF Performing(<<"SemSignal", s>>) THEN signals[s] + 1 ELSE signals[s]]
    /\ takes' = [s \in Semaphores |->
          takes[s] + Cardinality({t \in Tasks : Passes(t, <<"SemWait", s>>)})]

\* A wait runs from the BlockOnMutex to the Lock, here a hand-over, that ends it.
RecordBlocking ==
    /\ blocked_at' = [t \in Tasks |->
          IF OnMutex(t) = OnMutex(t)' THEN blocked_at[t]
          ELSE IF OnMutex(t) THEN Never
          ELSE now]
    /\ blocking' = [t \in Tasks |->
          IF OnMutex(t) /\ ~OnMutex(t)' THEN AtLeast(blocking[t], now - blocked_at[t])
                                       ELSE blocking[t]]

RecordInversion ==
    inverted' = [t \in Tasks |->
        IF /\ mode = "dispatch" /\ mode' = "quantum"
           /\ OnMutex(t)
           /\ base_priority(running') < base_priority(t)
        THEN inverted[t] + 1
        ELSE inverted[t]]

Record == RecordQueues /\ RecordUnits /\ RecordBlocking /\ RecordInversion

HistoryNext == Next /\ Record

HistorySpec ==
    /\ Init /\ HistoryInit
    /\ [][HistoryNext]_<<vars, historyVars>>

\* The run loop always goes on to its next step.
FairHistorySpec == HistorySpec /\ WF_<<vars, historyVars>>(HistoryNext)

-----------------------------------------------------------------------------
\* A queue delivers what it accepted, in order, each value once; what was
\* accepted and not yet delivered is what it holds.
FifoDelivery == \A q \in Queues : accepted[q] = delivered[q] \o buf[q]

\* Units of a semaphore are neither made nor lost, except that a signal at the
\* maximum adds nothing: as many are taken or left as were there at the start
\* or signalled.
UnitsConserved ==
    \A s \in Semaphores :
        LET initial == AtMost(setup.sem_initial[s], sem_max(s))
        IN  /\ count[s] + takes[s] <= initial + signals[s]
            /\ initial + signals[s] <= sem_max(s) =>
                 count[s] + takes[s] = initial + signals[s]

\* The quanta each operation of a program needs to get out of the sections: the
\* work under a mutex, and one more for each Lock, at which a task may be parked
\* and handed the mutex late.
SectionWork(prog) ==
    [i \in DOMAIN prog |->
        IF prog[i][1] = "Lock" THEN 1
        ELSE IF \E m \in Mutexes : InsideAt(prog, i - 1, m) THEN Works(prog)[i]
        ELSE 0]

\* The most that the sections of the jobs released so far have cost.
SectionCosts == [t \in Tasks |-> jobs_released[t] * SumFunction(SectionWork(program(t)))]

\* Every task takes mutexes in one order, and inside a section it waits for
\* nothing but another mutex.
SectionsContained ==
    \A t \in Tasks :
        /\ LocksInOrder(program(t))
        /\ \A i \in 1..Len(program(t)), m \in Mutexes :
              InsideAt(program(t), i - 1, m) =>
                  program(t)[i][1] \notin {"Delay", "SemWait", "QueueSend", "QueueRecv"}

\* Bounded priority inversion.  With inheritance and contained sections, less
\* urgent tasks run for at most the sections of their jobs while a task is blocked
\* on a mutex; work outside the sections, however long, never adds to it.
InversionBounded ==
    setup.priority_inheritance /\ SectionsContained =>
        \A t \in Tasks :
            inverted[t] <= SumFunctionOnSet(SectionCosts,
                {l \in Tasks : base_priority(l) < base_priority(t)})

\* The longest t has been blocked on a mutex, a wait that goes on included as
\* far as it has gone (BlockingTracker notes that there is one).
WorstBlocking(t) ==
    IF blocked_at[t] = Never THEN blocking[t]
    ELSE AtLeast(blocking[t], now - blocked_at[t])

\* The most urgent task is never blocked longer than the sections of the others,
\* measured as BlockingTracker does.
BlockingBounded ==
    setup.priority_inheritance /\ SectionsContained =>
        \A t \in Tasks :
            (\A u \in Tasks \ {t} : base_priority(u) < base_priority(t))
            => WorstBlocking(t) <= SumFunctionOnSet(SectionCosts, Tasks \ {t})

\* What the documentation says of the primitives.

\* Every signal satisfies a waiter or increments the count: no unit is lost.
SignalsNeverLost ==
    \A s \in Semaphores :
        count[s] + takes[s] = AtMost(setup.sem_initial[s], sem_max(s)) + signals[s]

\* A partner a queue woke makes progress when it next runs: it does not block
\* again on the operation it was woken for.
WokenPartnerProgresses ==
    [][\A t \in woken : blocked_on'[t] = None]_<<vars, historyVars>>
=============================================================================
