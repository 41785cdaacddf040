---------------------------- MODULE HistoryProofs ----------------------------
(***************************************************************************)
(* Theorems about the kernel and its history, for every value of the       *)
(* constants: no wake-up is lost, values arrive in order, units are        *)
(* conserved, and priority inversion and blocking are bounded.             *)
(***************************************************************************)
EXTENDS LockProofs, TimeProofs, KernelScenarios, SequenceTheorems

-----------------------------------------------------------------------------
(***************************************************************************)
(* Who goes on to attempt an operation.                                    *)
(***************************************************************************)

\* A schedulable task has a job, waits for nothing and is on no wait list.
LEMMA RunnableFacts ==
    ASSUME TypeOK, Agreement, NEW x \in Runnable
    PROVE  /\ x \in Tasks /\ job_active[x] /\ blocked_on[x] = None
           /\ \A m \in Mutexes : x \notin waiters[m]
           /\ \A s \in Semaphores : x \notin sem_waiters[s]
           /\ \A q \in Queues : x \notin recv_waiters[q] /\ x \notin send_waiters[q]
<1>1. x \in Tasks /\ state[x] \in {"Ready", "Running"}
  BY DEF Runnable
<1>2. blocked_on[x] = None
  BY <1>1 DEF Agreement, SingleRunner
<1>3. job_active[x]
  BY <1>1, <1>2 DEF Agreement, ActivityAgrees, None, WaitPeriod
<1>4. \A kind, y : <<kind, y>> # None
  BY DEF None
<1>5. \A m \in Mutexes : x \notin waiters[m]
  BY <1>1, <1>2, <1>4 DEF Agreement, MutexConsistent
<1>6. /\ \A s \in Semaphores : x \notin sem_waiters[s]
      /\ \A q \in Queues : x \notin recv_waiters[q] /\ x \notin send_waiters[q]
  BY <1>1, <1>2, <1>4 DEF Agreement, WaitListsConsistent
<1> QED
  BY <1>1, <1>2, <1>3, <1>5, <1>6

\* Nobody but the task itself, when it executes, takes a schedulable task off
\* its operation or out of the schedule.
LEMMA Undisturbed ==
    ASSUME TypeOK, Agreement, [Next]_vars, NEW x \in Runnable,
           ~(mode = "quantum" /\ running = x)
    PROVE  x \in Runnable' /\ pc'[x] = pc[x]
<1>1. /\ x \in Tasks /\ job_active[x] /\ blocked_on[x] = None
      /\ \A m \in Mutexes : x \notin waiters[m]
      /\ \A s \in Semaphores : x \notin sem_waiters[s]
      /\ \A q \in Queues : x \notin recv_waiters[q] /\ x \notin send_waiters[q]
  BY RunnableFacts
<1>2. /\ pc \in [Tasks -> Nat] /\ state \in [Tasks -> TaskState]
      /\ state[x] \in {"Ready", "Running"}
  BY DEF TypeOK, TaskTypeOK, Runnable
<1> SUFFICES state'[x] \in {"Ready", "Running"} /\ pc'[x] = pc[x]
  BY <1>1 DEF Runnable
<1>3. CASE UNCHANGED vars \/ Tick \/ Idle \/ Finished
  BY <1>2, <1>3 DEF Tick, Idle, Finished, vars, schedVars
<1>4. CASE \E t \in Tasks : Dispatch(t)
  BY <1>1, <1>2, <1>4 DEF Dispatch
<1>5. CASE ServiceInterrupts
  <2>1. CASE "Timer" \notin pending
    BY <1>2, <1>5, <2>1 DEF ServiceInterrupts
  <2>2. CASE "Timer" \in pending
    <3>1. /\ state'[x] = IF x \in Due \union Awake THEN "Ready" ELSE state[x]
          /\ pc'[x] = IF x \in Due THEN 0 ELSE pc[x]
      BY <1>1, <1>5, <2>2 DEF ServiceInterrupts, on_tick
    <3>2. x \notin Due
      BY <1>1 DEF Due
    <3> QED
      BY <1>2, <3>1, <3>2
  <2> QED
    BY <2>1, <2>2
<1>6. ASSUME NEW u \in Tasks, RunQuantum(u) PROVE u # x
  BY <1>6 DEF RunQuantum, EndOfProgram, Compute, Delay, Peripheral, Lock, BlockOnMutex,
     Unlock, SemWait, SemSignal, QueueSend, QueueRecv, Executing
<1>7. ASSUME NEW u \in Tasks, u # x,
             EndOfProgram(u) \/ Compute(u) \/ Delay(u) \/ Peripheral(u)
      PROVE  state'[x] \in {"Ready", "Running"} /\ pc'[x] = pc[x]
  <2>1. pc'[x] = pc[x]
    BY <1>1, <1>2, <1>7 DEF EndOfProgram, Compute, Delay, Peripheral, complete_job, Advance
  <2>2. state'[x] = state[x]
    BY <1>1, <1>2, <1>7 DEF EndOfProgram, Compute, Delay, Peripheral, complete_job, Block,
       Continue, EndQuantum, schedVars
  <2> QED
    BY <1>2, <2>1, <2>2
<1>8. ASSUME NEW w \in Tasks \union {NoTask}, Wake(w) PROVE state'[x] \in {"Ready", "Running"}
  BY <1>1, <1>2, <1>8 DEF Wake
<1>9. ASSUME NEW u \in Tasks, u # x, NEW m \in Mutexes,
             Lock(u, m) \/ BlockOnMutex(u, m) \/ Unlock(u, m)
      PROVE  state'[x] \in {"Ready", "Running"} /\ pc'[x] = pc[x]
  <2>1. CASE Lock(u, m) \/ BlockOnMutex(u, m)
    BY <1>1, <1>2, <1>9, <2>1 DEF Lock, BlockOnMutex, Continue, schedVars, Advance, Block
  <2>2. CASE Unlock(u, m)
    <3>1. PICK next \in Tasks \union {NoTask} :
             release(m, u, eff_priority, next) /\ Wake(next) /\ AdvanceBoth(u, next)
      BY <2>2 DEF Unlock
    <3>2. next # x
      BY <1>1, <3>1, BestSubset, TasksAssumption DEF release
    <3>3. pc'[x] = pc[x]
      BY <1>1, <1>9, <3>1, <3>2 DEF AdvanceBoth
    <3> QED
      BY <1>8, <3>1, <3>3
  <2> QED
    BY <1>9, <2>1, <2>2
<1>10. ASSUME NEW u \in Tasks, u # x, NEW s \in Semaphores, SemWait(u, s) \/ SemSignal(u, s)
       PROVE  state'[x] \in {"Ready", "Running"} /\ pc'[x] = pc[x]
  <2>1. CASE SemWait(u, s)
    BY <1>1, <1>2, <1>10, <2>1 DEF SemWait, Continue, schedVars, Advance, Block
  <2>2. CASE SemSignal(u, s)
    <3>1. PICK next \in Tasks \union {NoTask} :
             signal(s, eff_priority, next) /\ Wake(next) /\ AdvanceBoth(u, next)
      BY <2>2 DEF SemSignal
    <3>2. next # x
      BY <1>1, <3>1, BestSubset, TasksAssumption DEF signal
    <3>3. pc'[x] = pc[x]
      BY <1>1, <1>10, <3>1, <3>2 DEF AdvanceBoth
    <3> QED
      BY <1>8, <3>1, <3>3
  <2> QED
    BY <1>10, <2>1, <2>2
<1>11. ASSUME NEW u \in Tasks, u # x, NEW q \in Queues, QueueSend(u, q) \/ QueueRecv(u, q)
       PROVE  state'[x] \in {"Ready", "Running"} /\ pc'[x] = pc[x]
  <2>1. pc'[x] = pc[x]
    BY <1>1, <1>2, <1>11 DEF QueueSend, QueueRecv, Advance
  <2>2. ASSUME NEW kind, Block(u, <<kind, q>>) PROVE state'[x] = state[x]
    BY <1>1, <1>2, <1>11, <2>2 DEF Block
  <2> QED
    BY <1>2, <1>8, <1>11, <2>1, <2>2 DEF QueueSend, QueueRecv
<1> QED
  BY <1>3, <1>4, <1>5, <1>6, <1>7, <1>9, <1>10, <1>11 DEF Next, RunQuantum

\* The tasks that attempt op on q go on doing so until they execute it.
LEMMA AttemptersStay ==
    ASSUME TypeOK, Agreement, [Next]_vars,
           NEW op \in {"QueueSend", "QueueRecv"}, NEW q \in Queues,
           NEW x \in Attempting(op, q), ~QueueSend(x, q), ~QueueRecv(x, q)
    PROVE  x \in Attempting(op, q)'
<1>1. /\ x \in Runnable /\ x \in Tasks /\ ~AtEnd(x)
      /\ current_op(x)[1] = op /\ current_op(x)[2] = q
  BY DEF Attempting, Runnable
<1>2. setup' = setup
  BY McuFrame
<1>3. CASE ~(mode = "quantum" /\ running = x)
  <2>1. x \in Runnable' /\ pc'[x] = pc[x]
    BY <1>1, <1>3, Undisturbed
  <2> QED
    BY <1>1, <1>2, <2>1 DEF Attempting, AtEnd, current_op, program
<1>4. CASE mode = "quantum" /\ running = x
  <2>1. CASE UNCHANGED vars
    BY <1>1, <1>2, <2>1 DEF vars, schedVars, Attempting, Runnable, AtEnd, current_op, program
  <2>2. CASE RunQuantum(x)
    <3>1. ~EndOfProgram(x)
      BY <1>1 DEF EndOfProgram
    <3>2. ~Compute(x) /\ ~Delay(x) /\ ~Peripheral(x)
      BY <1>1 DEF Compute, Delay, Peripheral
    <3>3. \A m \in Mutexes : ~Lock(x, m) /\ ~BlockOnMutex(x, m) /\ ~Unlock(x, m)
      <4> SUFFICES ASSUME NEW m \in Mutexes,
                          current_op(x) \in {<<"Lock", m>>, <<"Unlock", m>>}
                   PROVE  FALSE
        BY DEF Lock, BlockOnMutex, Unlock
      <4> QED
        BY <1>1
    <3>4. \A s \in Semaphores : ~SemWait(x, s) /\ ~SemSignal(x, s)
      <4> SUFFICES ASSUME NEW s \in Semaphores,
                          current_op(x) \in {<<"SemWait", s>>, <<"SemSignal", s>>}
                   PROVE  FALSE
        BY DEF SemWait, SemSignal
      <4> QED
        BY <1>1
    <3>5. ASSUME NEW r \in Queues, QueueSend(x, r) \/ QueueRecv(x, r) PROVE r = q
      <4>1. QueueSend(x, r) => current_op(x)[2] = r
        BY DEF QueueSend
      <4>2. QueueRecv(x, r) => current_op(x)[2] = r
        BY DEF QueueRecv
      <4> QED
        BY <1>1, <3>5, <4>1, <4>2
    <3> QED
      BY <2>2, <3>1, <3>2, <3>3, <3>4, <3>5 DEF RunQuantum
  <2>3. UNCHANGED vars \/ \E t \in Tasks : RunQuantum(t)
    BY <1>4 DEF Next, Tick, ServiceInterrupts, Idle, Dispatch, Finished
  <2>4. ASSUME NEW t \in Tasks, RunQuantum(t) PROVE t = x
    BY <1>4, <2>4 DEF RunQuantum, EndOfProgram, Compute, Delay, Peripheral, Lock, BlockOnMutex,
       Unlock, SemWait, SemSignal, QueueSend, QueueRecv, Executing
  <2> QED
    BY <2>1, <2>2, <2>3, <2>4
<1> QED
  BY <1>3, <1>4

\* A task a queue wakes goes on to attempt what it was waiting for.
LEMMA WokenAttempts ==
    ASSUME TypeOK, Agreement, BlockedAtItsOperation, [Next]_vars,
           NEW op \in {"QueueSend", "QueueRecv"}, NEW q \in Queues,
           NEW w \in Tasks, blocked_on[w] = <<op, q>>, Wake(w), pc'[w] = pc[w]
    PROVE  w \notin Attempting(op, q) /\ w \in Attempting(op, q)'
<1>1. BlocksFor(w, blocked_on[w])
  <2>1. blocked_on[w] \notin {None, Sleep, WaitPeriod}
    BY DEF None, Sleep, WaitPeriod
  <2> QED
    BY <2>1 DEF BlockedAtItsOperation, BlocksFor
<1>2. ~AtEnd(w) /\ current_op(w)[1] = op /\ current_op(w)[2] = q
  BY <1>1 DEF BlocksFor
<1>3. state[w] = "Blocked" /\ state'[w] = "Ready"
  BY ReasonsDiffer DEF Agreement, SingleRunner, Wake
<1>4. setup' = setup
  BY McuFrame
<1> QED
  BY <1>2, <1>3, <1>4 DEF Attempting, Runnable, AtEnd, current_op, program

-----------------------------------------------------------------------------
(***************************************************************************)
(* No wake-up is lost.                                                     *)
(***************************************************************************)
LEMMA AttemptersFinite ==
    ASSUME NEW op, NEW q
    PROVE  /\ IsFiniteSet(Attempting(op, q)) /\ IsFiniteSet(Attempting(op, q)')
           /\ Cardinality(Attempting(op, q)) \in Nat
           /\ Cardinality(Attempting(op, q)') \in Nat
<1>1. Attempting(op, q) \subseteq Tasks /\ Attempting(op, q)' \subseteq Tasks
  BY DEF Attempting, Runnable
<1>2. IsFiniteSet(Attempting(op, q)) /\ IsFiniteSet(Attempting(op, q)')
  BY <1>1, TasksAssumption, FS_Subset
<1> QED
  BY <1>2, FS_CardinalityType

\* How the attempts change in number: none is lost unless its task executes,
\* and a woken task adds one.
LEMMA AttemptersCount ==
    ASSUME NEW op, NEW q
    PROVE  /\ Attempting(op, q) \subseteq Attempting(op, q)'
                => Cardinality(Attempting(op, q)) <= Cardinality(Attempting(op, q)')
           /\ \A t : Attempting(op, q) \ {t} \subseteq Attempting(op, q)'
                => Cardinality(Attempting(op, q)) - 1 <= Cardinality(Attempting(op, q)')
           /\ \A w : w \notin Attempting(op, q)
                     /\ Attempting(op, q) \union {w} \subseteq Attempting(op, q)'
                => Cardinality(Attempting(op, q)) + 1 <= Cardinality(Attempting(op, q)')
<1> DEFINE A == Attempting(op, q)
           B == Attempting(op, q)'
<1>1. IsFiniteSet(A) /\ IsFiniteSet(B) /\ Cardinality(A) \in Nat /\ Cardinality(B) \in Nat
  BY AttemptersFinite
<1> HIDE DEF A, B
<1>2. A \subseteq B => Cardinality(A) <= Cardinality(B)
  BY <1>1, FS_Subset
<1>3. ASSUME NEW t, A \ {t} \subseteq B PROVE Cardinality(A) - 1 <= Cardinality(B)
  <2>1. IsFiniteSet(A \ {t}) /\ Cardinality(A \ {t}) = IF t \in A THEN Cardinality(A) - 1
                                                                   ELSE Cardinality(A)
    BY <1>1, FS_RemoveElement
  <2>2. Cardinality(A \ {t}) <= Cardinality(B)
    BY <1>1, <1>3, FS_Subset
  <2> QED
    BY <1>1, <2>1, <2>2
<1>4. ASSUME NEW w, w \notin A, A \union {w} \subseteq B
      PROVE  Cardinality(A) + 1 <= Cardinality(B)
  <2>1. Cardinality(A \union {w}) = Cardinality(A) + 1
    BY <1>1, <1>4, FS_AddElement
  <2>2. Cardinality(A \union {w}) <= Cardinality(B)
    BY <1>1, <1>4, FS_Subset
  <2> QED
    BY <2>1, <2>2
<1> QED
  BY <1>2, <1>3, <1>4 DEF A, B

\* A queue, seen from the tasks that sleep for want of a value or of room.
ReceiversServed(q) ==
    recv_waiters[q] # {} => Len(buf[q]) <= Cardinality(Attempting("QueueRecv", q))

SendersServed(q) ==
    send_waiters[q] # {} =>
        capacity(q) - Len(buf[q]) <= Cardinality(Attempting("QueueSend", q))

LEMMA QueueNumbers ==
    ASSUME TypeOK, [Next]_vars, NEW q \in Queues
    PROVE  /\ capacity(q)' = capacity(q) /\ capacity(q) \in Nat
           /\ Len(buf[q]) \in Nat /\ Len(buf'[q]) \in Nat
<1>1. TypeOK'
  BY TypeStep
<1>2. buf \in [Queues -> Seq(Values)] /\ buf' \in [Queues -> Seq(Values)]
  BY <1>1 DEF TypeOK, QueueTypeOK
<1>3. setup' = setup /\ setup.capacity[q] \in Nat
  BY McuFrame DEF TypeOK, Setup
<1> QED
  BY <1>2, <1>3 DEF capacity, AtLeast

\* A step that is not about q changes nothing but the number of attempts.
LEMMA ServedElsewhere ==
    ASSUME TypeOK, Agreement, [Next]_vars, NEW q \in Queues,
           ReceiversServed(q), SendersServed(q),
           \A t \in Tasks : ~QueueSend(t, q) /\ ~QueueRecv(t, q)
    PROVE  ReceiversServed(q)' /\ SendersServed(q)'
<1>1. /\ buf'[q] = buf[q] /\ recv_waiters'[q] = recv_waiters[q]
      /\ send_waiters'[q] = send_waiters[q]
  <2>1. ASSUME NEW t \in Tasks, NEW r \in Queues, QueueSend(t, r) \/ QueueRecv(t, r)
        PROVE  /\ buf'[q] = buf[q] /\ recv_waiters'[q] = recv_waiters[q]
               /\ send_waiters'[q] = send_waiters[q]
    <3>1. r # q
      BY <2>1
    <3>2. /\ buf \in [Queues -> Seq(Values)]
          /\ recv_waiters \in [Queues -> SUBSET Tasks]
          /\ send_waiters \in [Queues -> SUBSET Tasks]
      BY DEF TypeOK, QueueTypeOK
    <3> QED
      BY <2>1, <3>1, <3>2 DEF QueueSend, QueueRecv, try_send, try_recv, wake_receiver, wake_sender
  <2> QED
    BY <2>1, QueueFrame DEF queueVars
<1>2. \A op \in {"QueueSend", "QueueRecv"} :
        Cardinality(Attempting(op, q)) <= Cardinality(Attempting(op, q)')
  <2> SUFFICES ASSUME NEW op \in {"QueueSend", "QueueRecv"}
               PROVE  Attempting(op, q) \subseteq Attempting(op, q)'
    BY AttemptersCount
  <2> QED
    BY AttemptersStay DEF Attempting, Runnable
<1>3. /\ Cardinality(Attempting("QueueRecv", q)) \in Nat
      /\ Cardinality(Attempting("QueueRecv", q)') \in Nat
      /\ Cardinality(Attempting("QueueSend", q)) \in Nat
      /\ Cardinality(Attempting("QueueSend", q)') \in Nat
  BY AttemptersFinite
<1>4. /\ capacity(q)' = capacity(q) /\ capacity(q) \in Nat
      /\ Len(buf[q]) \in Nat
  BY QueueNumbers
<1> QED
  BY <1>1, <1>2, <1>3, <1>4 DEF ReceiversServed, SendersServed

\* op is executed on q by t, or t goes to sleep on it; other is the operation
\* of the tasks at the other end.
LEMMA AttemptsAtEnds ==
    ASSUME TypeOK, Agreement, [Next]_vars, NEW t \in Tasks, NEW q \in Queues,
           NEW op \in {"QueueSend", "QueueRecv"},
           NEW other \in {"QueueSend", "QueueRecv"}, other # op,
           op = "QueueSend" => QueueSend(t, q), op = "QueueRecv" => QueueRecv(t, q)
    PROVE  /\ Attempting(op, q) \ {t} \subseteq Attempting(op, q)'
           /\ Attempting(other, q) \subseteq Attempting(other, q)'
<1>1. mode = "quantum" /\ running = t /\ current_op(t)[1] = op
  <2>1. QueueRecv(t, q) => current_op(t)[1] = "QueueRecv"
    BY DEF QueueRecv
  <2> QED
    BY <2>1 DEF QueueSend, QueueRecv, Executing
<1>2. \A x \in Tasks \ {t} : ~QueueSend(x, q) /\ ~QueueRecv(x, q)
  BY <1>1 DEF QueueSend, QueueRecv, Executing
<1>3. t \notin Attempting(other, q)
  BY <1>1 DEF Attempting
<1>4. Attempting(op, q) \subseteq Tasks /\ Attempting(other, q) \subseteq Tasks
  BY DEF Attempting, Runnable
<1>5. \A x \in Attempting(op, q) \ {t} : x \in Attempting(op, q)'
  BY <1>2, <1>4, AttemptersStay
<1>6. \A x \in Attempting(other, q) : x \in Attempting(other, q)'
  BY <1>2, <1>3, <1>4, AttemptersStay
<1> QED
  BY <1>5, <1>6

LEMMA ServedBySend ==
    ASSUME TypeOK, Agreement, BlockedAtItsOperation, [Next]_vars,
           NEW t \in Tasks, NEW q \in Queues, QueueSend(t, q),
           ReceiversServed(q), SendersServed(q)
    PROVE  ReceiversServed(q)' /\ SendersServed(q)'
<1>1. /\ Attempting("QueueSend", q) \ {t} \subseteq Attempting("QueueSend", q)'
      /\ Attempting("QueueRecv", q) \subseteq Attempting("QueueRecv", q)'
  BY AttemptsAtEnds
<1>2. /\ Cardinality(Attempting("QueueRecv", q)) \in Nat
      /\ Cardinality(Attempting("QueueRecv", q)') \in Nat
      /\ Cardinality(Attempting("QueueSend", q)) \in Nat
      /\ Cardinality(Attempting("QueueSend", q)') \in Nat
  BY AttemptersFinite
<1>3. /\ Cardinality(Attempting("QueueRecv", q)) <= Cardinality(Attempting("QueueRecv", q)')
      /\ Cardinality(Attempting("QueueSend", q)) - 1 <= Cardinality(Attempting("QueueSend", q)')
  BY <1>1, AttemptersCount
<1>4. /\ capacity(q)' = capacity(q) /\ capacity(q) \in Nat
      /\ Len(buf[q]) \in Nat /\ Len(buf'[q]) \in Nat
  BY QueueNumbers
<1>5. /\ buf \in [Queues -> Seq(Values)] /\ pc \in [Tasks -> Nat]
      /\ recv_waiters \in [Queues -> SUBSET Tasks]
      /\ send_waiters \in [Queues -> SUBSET Tasks]
  BY DEF TypeOK, QueueTypeOK, TaskTypeOK
<1>6. CASE is_full(q) /\ send_waiters' = [send_waiters EXCEPT ![q] = @ \union {t}]
           /\ UNCHANGED <<pc, buf, recv_waiters, sent, received>>
  <2>1. capacity(q)' - Len(buf'[q]) <= 0
    BY <1>4, <1>6 DEF is_full
  <2>2. SendersServed(q)'
    BY <1>2, <1>4, <2>1 DEF SendersServed
  <2>3. ReceiversServed(q)'
    BY <1>2, <1>3, <1>4, <1>6 DEF ReceiversServed
  <2> QED
    BY <2>2, <2>3
<1>7. ASSUME NEW v, NEW r \in Tasks \union {NoTask}, try_send(q, v),
             wake_receiver(q, eff_priority, r), Wake(r), Advance(t)
      PROVE  ReceiversServed(q)' /\ SendersServed(q)'
  <2>1. buf' = [buf EXCEPT ![q] = Append(@, v)] /\ send_waiters' = send_waiters
    BY <1>7 DEF try_send, wake_receiver
  <2>2. Len(buf'[q]) = Len(buf[q]) + 1
    BY <1>5, <2>1
  <2>3. SendersServed(q)'
    BY <1>2, <1>3, <1>4, <2>1, <2>2 DEF SendersServed
  <2>4. CASE recv_waiters[q] = {}
    <3>1. recv_waiters'[q] = {}
      BY <1>5, <1>7, <2>4 DEF wake_receiver
    <3> QED
      BY <2>3, <3>1 DEF ReceiversServed
  <2>5. CASE recv_waiters[q] # {}
    <3>1. r \in recv_waiters[q] /\ r \in Tasks
      BY <1>5, <1>7, <2>5, BestSubset DEF wake_receiver, pop_best
    <3>2. blocked_on[r] = <<"QueueRecv", q>>
      BY <3>1 DEF Agreement, WaitListsConsistent
    <3>3. r # t
      BY <3>2 DEF QueueSend, Executing, Agreement, SingleRunner, None
    <3>4. pc'[r] = pc[r]
      BY <1>5, <1>7, <3>1, <3>3 DEF Advance
    <3>5. r \notin Attempting("QueueRecv", q) /\ r \in Attempting("QueueRecv", q)'
      BY <1>7, <3>1, <3>2, <3>4, WokenAttempts
    <3>6. Cardinality(Attempting("QueueRecv", q)) + 1 <= Cardinality(Attempting("QueueRecv", q)')
      BY <1>1, <3>5, AttemptersCount
    <3>7. ReceiversServed(q)'
      BY <1>2, <1>4, <2>2, <2>5, <3>6 DEF ReceiversServed
    <3> QED
      BY <2>3, <3>7
  <2> QED
    BY <2>4, <2>5
<1> QED
  BY <1>6, <1>7 DEF QueueSend

LEMMA ServedByRecv ==
    ASSUME TypeOK, Agreement, BlockedAtItsOperation, [Next]_vars,
           NEW t \in Tasks, NEW q \in Queues, QueueRecv(t, q),
           ReceiversServed(q), SendersServed(q)
    PROVE  ReceiversServed(q)' /\ SendersServed(q)'
<1>1. /\ Attempting("QueueRecv", q) \ {t} \subseteq Attempting("QueueRecv", q)'
      /\ Attempting("QueueSend", q) \subseteq Attempting("QueueSend", q)'
  BY AttemptsAtEnds
<1>2. /\ Cardinality(Attempting("QueueRecv", q)) \in Nat
      /\ Cardinality(Attempting("QueueRecv", q)') \in Nat
      /\ Cardinality(Attempting("QueueSend", q)) \in Nat
      /\ Cardinality(Attempting("QueueSend", q)') \in Nat
  BY AttemptersFinite
<1>3. /\ Cardinality(Attempting("QueueRecv", q)) - 1 <= Cardinality(Attempting("QueueRecv", q)')
      /\ Cardinality(Attempting("QueueSend", q)) <= Cardinality(Attempting("QueueSend", q)')
  BY <1>1, AttemptersCount
<1>4. /\ capacity(q)' = capacity(q) /\ capacity(q) \in Nat
      /\ Len(buf[q]) \in Nat /\ Len(buf'[q]) \in Nat
  BY QueueNumbers
<1>5. /\ buf \in [Queues -> Seq(Values)] /\ pc \in [Tasks -> Nat]
      /\ recv_waiters \in [Queues -> SUBSET Tasks]
      /\ send_waiters \in [Queues -> SUBSET Tasks]
  BY DEF TypeOK, QueueTypeOK, TaskTypeOK
<1>6. CASE is_empty(q) /\ recv_waiters' = [recv_waiters EXCEPT ![q] = @ \union {t}]
           /\ UNCHANGED <<pc, buf, send_waiters, sent, received>>
  <2>1. Len(buf'[q]) = 0
    BY <1>6 DEF is_empty
  <2>2. ReceiversServed(q)'
    BY <1>2, <2>1 DEF ReceiversServed
  <2>3. SendersServed(q)'
    BY <1>2, <1>3, <1>4, <1>6 DEF SendersServed
  <2> QED
    BY <2>2, <2>3
<1>7. ASSUME NEW w \in Tasks \union {NoTask}, try_recv(q),
             wake_sender(q, eff_priority, w), Wake(w), Advance(t)
      PROVE  ReceiversServed(q)' /\ SendersServed(q)'
  <2>1. buf[q] # <<>> /\ buf' = [buf EXCEPT ![q] = Tail(@)] /\ recv_waiters' = recv_waiters
    BY <1>7 DEF try_recv, is_empty, wake_sender
  <2>2. Len(buf'[q]) = Len(buf[q]) - 1
    BY <1>5, <2>1, HeadTailProperties
  <2>3. ReceiversServed(q)'
    BY <1>2, <1>3, <1>4, <2>1, <2>2 DEF ReceiversServed
  <2>4. CASE send_waiters[q] = {}
    <3>1. send_waiters'[q] = {}
      BY <1>5, <1>7, <2>4 DEF wake_sender
    <3> QED
      BY <2>3, <3>1 DEF SendersServed
  <2>5. CASE send_waiters[q] # {}
    <3>1. w \in send_waiters[q] /\ w \in Tasks
      BY <1>5, <1>7, <2>5, BestSubset DEF wake_sender, pop_best
    <3>2. blocked_on[w] = <<"QueueSend", q>>
      BY <3>1 DEF Agreement, WaitListsConsistent
    <3>3. w # t
      BY <3>2 DEF QueueRecv, Executing, Agreement, SingleRunner, None
    <3>4. pc'[w] = pc[w]
      BY <1>5, <1>7, <3>1, <3>3 DEF Advance
    <3>5. w \notin Attempting("QueueSend", q) /\ w \in Attempting("QueueSend", q)'
      BY <1>7, <3>1, <3>2, <3>4, WokenAttempts
    <3>6. Cardinality(Attempting("QueueSend", q)) + 1 <= Cardinality(Attempting("QueueSend", q)')
      BY <1>1, <3>5, AttemptersCount
    <3>7. SendersServed(q)'
      BY <1>2, <1>4, <2>2, <2>5, <3>6 DEF SendersServed
    <3> QED
      BY <2>3, <3>7
  <2> QED
    BY <2>4, <2>5
<1> QED
  BY <1>6, <1>7 DEF QueueRecv

\* While a receiver sleeps on a queue every value in it has a schedulable task
\* about to take one, and while a sender sleeps every free slot has one about
\* to fill it: for any number of tasks and queues, although the kernel wakes
\* one task per operation and lets others overtake it.
THEOREM NoWakeupIsLost == Spec => []NoLostWakeup
<1>1. Init => NoLostWakeup
  BY DEF Init, QueueInit, NoLostWakeup
<1>2. ASSUME TypeOK, Agreement, BlockedAtItsOperation, NoLostWakeup, [Next]_vars
      PROVE  NoLostWakeup'
  <2>1. ASSUME NEW q \in Queues PROVE ReceiversServed(q)' /\ SendersServed(q)'
    <3>1. ReceiversServed(q) /\ SendersServed(q)
      BY <1>2 DEF NoLostWakeup, ReceiversServed, SendersServed
    <3> QED
      BY <1>2, <3>1, ServedElsewhere, ServedBySend, ServedByRecv
  <2> QED
    BY <2>1 DEF NoLostWakeup, ReceiversServed, SendersServed
<1>3. TypeOK /\ Agreement /\ BlockedAtItsOperation /\ NoLostWakeup /\ [Next]_vars
        => NoLostWakeup'
  BY <1>2
<1> QED
  BY <1>1, <1>3, TypeCorrect, AgreementCorrect, BlockedInPlace, PTL DEF Spec

-----------------------------------------------------------------------------
(***************************************************************************)
(* Order.                                                                  *)
(***************************************************************************)

\* The history follows the kernel.
LEMMA HistoryFollows == HistorySpec => Spec
<1>1. [HistoryNext]_<<vars, historyVars>> => [Next]_vars
  BY DEF HistoryNext
<1> QED
  BY <1>1, PTL DEF HistorySpec, Spec

LogsTyped ==
    /\ accepted \in [Queues -> Seq(Values)]
    /\ delivered \in [Queues -> Seq(Values)]

\* What a step does to the buffer of q: it stays, or a value the running task
\* sends goes to its end, or the value at its head leaves.
LEMMA BufferStep ==
    ASSUME TypeOK, [Next]_vars, NEW q \in Queues
    PROVE  \/ buf'[q] = buf[q] /\ ~(sent'[q] > sent[q]) /\ ~(received'[q] > received[q])
           \/ /\ sent'[q] > sent[q] /\ ~(received'[q] > received[q])
              /\ current_op(running)[3] \in Values
              /\ buf'[q] = Append(buf[q], current_op(running)[3])
           \/ /\ received'[q] > received[q] /\ ~(sent'[q] > sent[q])
              /\ buf[q] # <<>> /\ buf'[q] = Tail(buf[q])
<1>1. /\ buf \in [Queues -> Seq(Values)]
      /\ sent \in [Queues -> Nat] /\ received \in [Queues -> Nat]
  BY DEF TypeOK, QueueTypeOK
<1>2. CASE buf' = buf /\ sent' = sent /\ received' = received
  BY <1>1, <1>2
<1>3. ASSUME NEW t \in Tasks, NEW r \in Queues, QueueSend(t, r),
             try_send(r, current_op(t)[3])
      PROVE  \/ buf'[q] = buf[q] /\ ~(sent'[q] > sent[q]) /\ ~(received'[q] > received[q])
             \/ /\ sent'[q] > sent[q] /\ ~(received'[q] > received[q])
                /\ current_op(running)[3] \in Values
                /\ buf'[q] = Append(buf[q], current_op(running)[3])
  <2>1. running = t /\ ~AtEnd(t) /\ current_op(t)[1] = "QueueSend"
    BY <1>3 DEF QueueSend, Executing
  <2>2. current_op(t)[3] \in Values
    <3>1. current_op(t) \in Op
      BY <2>1, CurrentOpTyped DEF TypeOK, TaskTypeOK
    <3> QED
      BY <2>1, <3>1, ArgumentsTyped
  <2> QED
    BY <1>1, <1>3, <2>1, <2>2 DEF try_send
<1>4. ASSUME NEW r \in Queues, try_recv(r)
      PROVE  \/ buf'[q] = buf[q] /\ ~(sent'[q] > sent[q]) /\ ~(received'[q] > received[q])
             \/ /\ received'[q] > received[q] /\ ~(sent'[q] > sent[q])
                /\ buf[q] # <<>> /\ buf'[q] = Tail(buf[q])
  BY <1>1, <1>4 DEF try_recv, is_empty
<1> QED
  BY <1>2, <1>3, <1>4, QueueFrame DEF queueVars, QueueSend, QueueRecv

LEMMA FifoStep ==
    ASSUME TypeOK, LogsTyped, FifoDelivery, [HistoryNext]_<<vars, historyVars>>
    PROVE  LogsTyped' /\ FifoDelivery'
<1>1. [Next]_vars /\ (UNCHANGED <<vars, historyVars>> \/ RecordQueues)
  BY DEF HistoryNext, Record
<1>2. CASE UNCHANGED <<vars, historyVars>>
  BY <1>2 DEF vars, queueVars, historyVars, LogsTyped, FifoDelivery
<1>3. CASE RecordQueues
  <2>1. ASSUME NEW q \in Queues
        PROVE  /\ accepted'[q] \in Seq(Values) /\ delivered'[q] \in Seq(Values)
               /\ accepted'[q] = delivered'[q] \o buf'[q]
    <3> DEFINE a == accepted[q]
               d == delivered[q]
               b == buf[q]
               v == current_op(running)[3]
    <3>1. a \in Seq(Values) /\ d \in Seq(Values) /\ b \in Seq(Values) /\ a = d \o b
      BY DEF LogsTyped, FifoDelivery, TypeOK, QueueTypeOK
    <3>2. /\ accepted'[q] = IF sent'[q] > sent[q] THEN Append(a, v) ELSE a
          /\ delivered'[q] = IF received'[q] > received[q] THEN Append(d, Head(b)) ELSE d
      BY <1>3 DEF RecordQueues
    <3>3. \/ buf'[q] = b /\ ~(sent'[q] > sent[q]) /\ ~(received'[q] > received[q])
          \/ /\ sent'[q] > sent[q] /\ ~(received'[q] > received[q])
             /\ v \in Values /\ buf'[q] = Append(b, v)
          \/ /\ received'[q] > received[q] /\ ~(sent'[q] > sent[q])
             /\ b # <<>> /\ buf'[q] = Tail(b)
      BY <1>1, BufferStep
    <3> HIDE DEF a, d, b, v
    <3>4. ASSUME v \in Values PROVE Append(d \o b, v) = d \o Append(b, v)
      <4>1. <<v>> \in Seq(Values)
        BY <3>4
      <4>2. d \o b \in Seq(Values)
        BY <3>1, ConcatProperties
      <4>3. Append(d \o b, v) = (d \o b) \o <<v>> /\ Append(b, v) = b \o <<v>>
        BY <3>1, <3>4, <4>2, AppendIsConcat
      <4>4. (d \o b) \o <<v>> = d \o (b \o <<v>>)
        BY <3>1, <4>1, ConcatAssociative
      <4> QED
        BY <4>3, <4>4
    <3>5. ASSUME b # <<>> PROVE Append(d, Head(b)) \o Tail(b) = d \o b
      BY <3>1, <3>5
    <3>6. ASSUME b # <<>> PROVE Append(d, Head(b)) \in Seq(Values)
      BY <3>1, <3>6, HeadTailProperties
    <3>7. CASE buf'[q] = b /\ ~(sent'[q] > sent[q]) /\ ~(received'[q] > received[q])
      BY <3>1, <3>2, <3>7
    <3>8. CASE /\ sent'[q] > sent[q] /\ ~(received'[q] > received[q])
               /\ v \in Values /\ buf'[q] = Append(b, v)
      <4>1. accepted'[q] = Append(a, v) /\ delivered'[q] = d /\ Append(a, v) \in Seq(Values)
        BY <3>1, <3>2, <3>8
      <4> QED
        BY <3>1, <3>4, <3>8, <4>1
    <3>9. CASE /\ received'[q] > received[q] /\ ~(sent'[q] > sent[q])
               /\ b # <<>> /\ buf'[q] = Tail(b)
      BY <3>1, <3>2, <3>5, <3>6, <3>9
    <3> QED
      BY <3>3, <3>7, <3>8, <3>9
  <2>2. /\ accepted' = [q \in Queues |-> accepted'[q]]
        /\ delivered' = [q \in Queues |-> delivered'[q]]
    BY <1>3 DEF RecordQueues
  <2> QED
    BY <2>1, <2>2 DEF LogsTyped, FifoDelivery
<1> QED
  BY <1>1, <1>2, <1>3

\* A queue delivers what it accepted, in order and each value once, for any
\* number of senders and receivers.
THEOREM FifoHolds == HistorySpec => []FifoDelivery
<1>1. Init /\ HistoryInit => LogsTyped /\ FifoDelivery
  BY DEF Init, QueueInit, HistoryInit, LogsTyped, FifoDelivery
<1>2. TypeOK /\ LogsTyped /\ FifoDelivery /\ [HistoryNext]_<<vars, historyVars>>
        => LogsTyped' /\ FifoDelivery'
  BY FifoStep
<1>3. HistorySpec => []TypeOK
  BY HistoryFollows, TypeCorrect, PTL
<1> QED
  BY <1>1, <1>2, <1>3, PTL DEF HistorySpec

-----------------------------------------------------------------------------
(***************************************************************************)
(* Units.                                                                  *)
(***************************************************************************)

\* The running task executes the operation it stands at.
LEMMA RunnerActs ==
    ASSUME Next, mode = "quantum", NEW s \in Semaphores, ~AtEnd(running)
    PROVE  /\ current_op(running) = <<"SemWait", s>> => SemWait(running, s)
           /\ current_op(running) = <<"SemSignal", s>> => SemSignal(running, s)
<1>1. PICK t \in Tasks : RunQuantum(t)
  BY DEF Next, Tick, ServiceInterrupts, Idle, Dispatch, Finished
<1>2. t = running
  BY <1>1 DEF RunQuantum, EndOfProgram, Compute, Delay, Peripheral, Lock, BlockOnMutex,
     Unlock, SemWait, SemSignal, QueueSend, QueueRecv, Executing
<1> SUFFICES ASSUME NEW kind \in {"SemWait", "SemSignal"}, current_op(t) = <<kind, s>>
             PROVE  IF kind = "SemWait" THEN SemWait(t, s) ELSE SemSignal(t, s)
  BY <1>2
<1>3. ~(EndOfProgram(t) \/ Compute(t) \/ Delay(t) \/ Peripheral(t))
  BY <1>2 DEF EndOfProgram, Compute, Delay, Peripheral
<1>4. \A m \in Mutexes : ~(Lock(t, m) \/ BlockOnMutex(t, m) \/ Unlock(t, m))
  BY DEF Lock, BlockOnMutex, Unlock
<1>5. \A q \in Queues : ~(QueueSend(t, q) \/ QueueRecv(t, q))
  BY DEF QueueSend, QueueRecv
<1>6. PICK r \in Semaphores : SemWait(t, r) \/ SemSignal(t, r)
  BY <1>1, <1>3, <1>4, <1>5 DEF RunQuantum
<1>7. r = s /\ (SemWait(t, r) => kind = "SemWait") /\ (SemSignal(t, r) => kind = "SemSignal")
  BY <1>6 DEF SemWait, SemSignal
<1> QED
  BY <1>6, <1>7

Passing(s) == {u \in Tasks : Passes(u, <<"SemWait", s>>)}

\* A task passes a SemWait because it takes a unit or is handed one.
LEMMA WhoPasses ==
    ASSUME TypeOK, Agreement, BlockedAtItsOperation, Next,
           NEW s \in Semaphores, NEW u \in Passing(s)
    PROVE  \/ SemWait(u, s) /\ count[s] > 0
           \/ u # running /\ \E t \in Tasks : SemSignal(t, s)
<1>1. /\ u \in Tasks /\ ~AtEnd(u) /\ current_op(u) = <<"SemWait", s>>
      /\ pc'[u] = pc[u] + 1 /\ pc[u] \in Nat
  BY DEF Passing, Passes, TypeOK, TaskTypeOK
<1>2. CASE mode = "quantum" /\ running = u
  <2>1. SemWait(u, s)
    BY <1>1, <1>2, RunnerActs
  <2> QED
    BY <1>1, <2>1 DEF SemWait, try_wait
<1>3. ASSUME NEW m \in Mutexes, blocked_on[u] = <<"Mutex", m>> PROVE FALSE
  <2>1. blocked_on[u] \notin {None, Sleep, WaitPeriod}
    BY <1>3, ReasonsDiffer
  <2>2. BlocksFor(u, blocked_on[u])
    BY <1>1, <2>1 DEF BlockedAtItsOperation, BlocksFor
  <2> QED
    BY <1>1, <1>3, <2>2 DEF BlocksFor
<1>4. ASSUME NEW t \in Tasks, NEW r \in Semaphores, SemSignal(t, r),
             blocked_on[u] = <<"Semaphore", r>>
      PROVE  u # running /\ SemSignal(t, s)
  <2>1. blocked_on[u] \notin {None, Sleep, WaitPeriod}
    BY <1>4, ReasonsDiffer
  <2>2. BlocksFor(u, blocked_on[u])
    BY <1>1, <2>1 DEF BlockedAtItsOperation, BlocksFor
  <2>3. r = s
    BY <1>1, <1>4, <2>2 DEF BlocksFor
  <2>4. u # running
    BY <1>1, <1>4 DEF SemSignal, Executing
  <2> QED
    BY <1>4, <2>3, <2>4
<1> QED
  BY <1>1, <1>2, <1>3, <1>4, WhoGoesOn

\* What a step does to the units of s: a task takes one; a signal counts one,
\* drops one at the maximum, or gives one to a waiter; or nothing.
LEMMA UnitMoves ==
    ASSUME TypeOK, Agreement, BlockedAtItsOperation, Next, NEW s \in Semaphores
    PROVE  \/ /\ ~Performing(<<"SemSignal", s>>) /\ Cardinality(Passing(s)) = 1
              /\ count'[s] = count[s] - 1
           \/ /\ Performing(<<"SemSignal", s>>) /\ Cardinality(Passing(s)) = 0
              /\ count'[s] = IF count[s] < sem_max(s) THEN count[s] + 1 ELSE count[s]
           \/ /\ Performing(<<"SemSignal", s>>) /\ Cardinality(Passing(s)) = 1
              /\ count'[s] = count[s]
           \/ /\ ~Performing(<<"SemSignal", s>>) /\ Cardinality(Passing(s)) = 0
              /\ count'[s] = count[s]
<1>1. count \in [Semaphores -> Nat] /\ pc \in [Tasks -> Nat]
  BY DEF TypeOK, SemTypeOK, TaskTypeOK
<1>2. ASSUME NEW t \in Tasks, SemWait(t, s), try_wait(s), Advance(t)
      PROVE  /\ ~Performing(<<"SemSignal", s>>) /\ Cardinality(Passing(s)) = 1
             /\ count'[s] = count[s] - 1
  <2>1. running = t /\ ~AtEnd(t) /\ current_op(t) = <<"SemWait", s>>
    BY <1>2 DEF SemWait, Executing
  <2>2. t \in Passing(s)
    BY <1>1, <1>2, <2>1 DEF Passing, Passes, Advance
  <2>3. ASSUME NEW u \in Passing(s) PROVE u = t
    <3>1. \A x \in Tasks : ~SemSignal(x, s)
      BY <2>1 DEF SemSignal, Executing
    <3>2. SemWait(u, s)
      BY <3>1, WhoPasses
    <3> QED
      BY <2>1, <3>2 DEF SemWait, Executing
  <2>4. Passing(s) = {t}
    BY <2>2, <2>3
  <2>5. ~Performing(<<"SemSignal", s>>)
    BY <2>1 DEF Performing
  <2> QED
    BY <1>1, <1>2, <2>4, <2>5, FS_Singleton DEF try_wait
<1>3. ASSUME NEW t \in Tasks, SemWait(t, s), count[s] = 0, count' = count
      PROVE  /\ ~Performing(<<"SemSignal", s>>) /\ Cardinality(Passing(s)) = 0
             /\ count'[s] = count[s]
  <2>1. running = t /\ current_op(t) = <<"SemWait", s>>
    BY <1>3 DEF SemWait, Executing
  <2>2. \A x \in Tasks : ~SemSignal(x, s)
    BY <2>1 DEF SemSignal, Executing
  <2>3. \A u \in Passing(s) : FALSE
    BY <1>3, <2>2, WhoPasses
  <2>4. Passing(s) = {}
    BY <2>3
  <2> QED
    BY <1>3, <2>1, <2>4, FS_EmptySet DEF Performing
<1>4. ASSUME NEW t \in Tasks, SemSignal(t, s)
      PROVE  /\ Performing(<<"SemSignal", s>>)
             /\ \/ /\ Cardinality(Passing(s)) = 0
                   /\ count'[s] = IF count[s] < sem_max(s) THEN count[s] + 1 ELSE count[s]
                \/ /\ Cardinality(Passing(s)) = 1
                   /\ count'[s] = count[s]
  <2>1. PICK taker \in Tasks \union {NoTask} :
           signal(s, eff_priority, taker) /\ AdvanceBoth(t, taker)
    BY <1>4 DEF SemSignal
  <2>2. running = t /\ current_op(t) = <<"SemSignal", s>> /\ Performing(<<"SemSignal", s>>)
    BY <1>4 DEF SemSignal, Executing, Performing
  <2>3. ASSUME NEW u \in Passing(s) PROVE u = taker
    <3>1. u \in Tasks /\ pc'[u] = pc[u] + 1 /\ current_op(u) = <<"SemWait", s>>
      BY DEF Passing, Passes
    <3>2. u # t
      BY <2>2, <3>1
    <3>3. pc'[u] # pc[u]
      BY <1>1, <3>1
    <3> QED
      BY <2>1, <3>1, <3>2, <3>3 DEF AdvanceBoth
  <2>4. CASE taker = NoTask
    <3>1. \A u \in Passing(s) : FALSE
      BY <2>3, <2>4, TasksAssumption DEF Passing
    <3>2. Passing(s) = {}
      BY <3>1
    <3>3. count' = [count EXCEPT ![s] = IF @ < sem_max(s) THEN @ + 1 ELSE @]
      <4>1. \/ count' = [count EXCEPT ![s] = IF @ < sem_max(s) THEN @ + 1 ELSE @]
            \/ taker \in sem_waiters[s]
        BY <2>1, BestSubset DEF signal
      <4> QED
        BY <2>4, <4>1, TasksAssumption DEF TypeOK, SemTypeOK
    <3> QED
      BY <1>1, <2>2, <3>2, <3>3, FS_EmptySet
  <2>5. CASE taker \in Tasks
    <3>1. taker \in sem_waiters[s] /\ count' = count
      BY <2>1, <2>5, BestSubset, TasksAssumption DEF signal
    <3>2. blocked_on[taker] = <<"Semaphore", s>>
      BY <2>5, <3>1 DEF Agreement, WaitListsConsistent
    <3>3. blocked_on[taker] \notin {None, Sleep, WaitPeriod}
      BY <3>2, ReasonsDiffer
    <3>4. ~AtEnd(taker) /\ current_op(taker)[1] = "SemWait" /\ current_op(taker)[2] = s
      <4>1. BlocksFor(taker, blocked_on[taker])
        BY <2>5, <3>3 DEF BlockedAtItsOperation, BlocksFor
      <4> QED
        BY <3>2, <4>1 DEF BlocksFor
    <3>5. current_op(taker) = <<"SemWait", s>>
      <4>1. current_op(taker) \in Op
        BY <1>1, <2>5, <3>4, CurrentOpTyped DEF TypeOK
      <4> QED
        BY <3>4, <4>1 DEF Op
    <3>6. taker \in Passing(s)
      BY <2>1, <2>5, <3>4, <3>5 DEF Passing, Passes, AdvanceBoth
    <3>7. Passing(s) = {taker}
      BY <2>3, <3>6
    <3> QED
      BY <2>2, <3>1, <3>7, FS_Singleton
  <2> QED
    BY <2>4, <2>5
<1>5. CASE \A t \in Tasks : ~SemWait(t, s) /\ ~SemSignal(t, s)
  <2>1. \A u \in Passing(s) : FALSE
    BY <1>5, WhoPasses DEF Passing
  <2>2. Passing(s) = {}
    BY <2>1
  <2>3. ~Performing(<<"SemSignal", s>>)
    <3> SUFFICES ASSUME Performing(<<"SemSignal", s>>) PROVE FALSE
      OBVIOUS
    <3>1. SemSignal(running, s)
      BY RunnerActs DEF Performing
    <3>2. running \in Tasks
      BY DEF Performing, Agreement, SingleRunner
    <3> QED
      BY <1>5, <3>1, <3>2
  <2>4. count'[s] = count[s]
    <3>1. ASSUME NEW t \in Tasks, NEW r \in Semaphores, SemWait(t, r) \/ SemSignal(t, r), r # s
          PROVE  count'[s] = count[s]
      BY <1>1, <3>1 DEF SemWait, SemSignal, try_wait, sem_add_waiter, signal
    <3> QED
      BY <1>5, <3>1, SemFrame DEF semVars
  <2> QED
    BY <2>2, <2>3, <2>4, FS_EmptySet
<1>6. ASSUME NEW t \in Tasks, SemWait(t, s)
      PROVE  \/ try_wait(s) /\ Advance(t)
             \/ count[s] = 0 /\ count' = count
  BY <1>6 DEF SemWait, sem_add_waiter
<1> QED
  BY <1>2, <1>3, <1>4, <1>5, <1>6

TalliesTyped ==
    /\ signals \in [Semaphores -> Nat]
    /\ takes \in [Semaphores -> Nat]

LEMMA TallyInit == Init /\ HistoryInit => TalliesTyped /\ UnitsConserved
<1> SUFFICES ASSUME Init, HistoryInit PROVE TalliesTyped /\ UnitsConserved
  OBVIOUS
<1>1. setup \in Setup
  BY SetupsAssumption DEF Init
<1>2. \A s \in Semaphores : setup.sem_initial[s] \in Nat /\ sem_max(s) \in Nat
  BY <1>1 DEF Setup, sem_max
<1>3. \A s \in Semaphores : /\ count[s] = AtMost(setup.sem_initial[s], sem_max(s))
                            /\ signals[s] = 0 /\ takes[s] = 0
  BY DEF Init, SemInit, HistoryInit
<1> QED
  BY <1>2, <1>3 DEF HistoryInit, TalliesTyped, UnitsConserved, AtMost

LEMMA TallyStep ==
    ASSUME TypeOK, Agreement, BlockedAtItsOperation, NoStrandedUnit, TalliesTyped,
           UnitsConserved, [HistoryNext]_<<vars, historyVars>>
    PROVE  TalliesTyped' /\ UnitsConserved'
<1>1. CASE UNCHANGED <<vars, historyVars>>
  BY <1>1 DEF vars, semVars, syncVars, historyVars, TalliesTyped, UnitsConserved, sem_max
<1>2. CASE HistoryNext
  <2>1. Next /\ RecordUnits
    BY <1>2 DEF HistoryNext, Record
  <2>2. setup' = setup
    BY <2>1, McuFrame
  <2>3. ASSUME NEW s \in Semaphores
        PROVE  /\ signals'[s] \in Nat /\ takes'[s] \in Nat
               /\ LET initial == AtMost(setup.sem_initial[s], sem_max(s))
                  IN  /\ count'[s] + takes'[s] <= initial + signals'[s]
                      /\ initial + signals'[s] <= sem_max(s) =>
                           count'[s] + takes'[s] = initial + signals'[s]
    <3> DEFINE initial == AtMost(setup.sem_initial[s], sem_max(s))
               P == Performing(<<"SemSignal", s>>)
               n == Cardinality(Passing(s))
    <3>1. /\ signals'[s] = IF P THEN signals[s] + 1 ELSE signals[s]
          /\ takes'[s] = takes[s] + n
      BY <2>1 DEF RecordUnits, Passing
    <3>2. /\ count[s] \in Nat /\ signals[s] \in Nat /\ takes[s] \in Nat
          /\ sem_max(s) \in Nat /\ initial \in Nat
      BY DEF TypeOK, SemTypeOK, TalliesTyped, Setup, sem_max, AtMost
    <3>3. /\ count[s] <= sem_max(s)
          /\ count[s] + takes[s] <= initial + signals[s]
          /\ initial + signals[s] <= sem_max(s) =>
               count[s] + takes[s] = initial + signals[s]
      BY DEF NoStrandedUnit, UnitsConserved
    <3>4. \/ ~P /\ n = 1 /\ count'[s] = count[s] - 1
          \/ P /\ n = 0 /\ count'[s] = IF count[s] < sem_max(s) THEN count[s] + 1 ELSE count[s]
          \/ P /\ n = 1 /\ count'[s] = count[s]
          \/ ~P /\ n = 0 /\ count'[s] = count[s]
      BY <2>1, UnitMoves
    <3> HIDE DEF initial, P, n
    <3>5. signals'[s] \in Nat /\ takes'[s] \in Nat
      BY <3>1, <3>2, <3>4
    <3>6. CASE ~P
      BY <3>1, <3>2, <3>3, <3>4, <3>6 DEF initial
    <3>7. CASE P
      BY <3>1, <3>2, <3>3, <3>4, <3>7 DEF initial
    <3> QED
      BY <3>5, <3>6, <3>7
  <2>4. /\ signals' = [s \in Semaphores |-> signals'[s]]
        /\ takes' = [s \in Semaphores |-> takes'[s]]
    BY <2>1 DEF RecordUnits
  <2>5. TalliesTyped'
    BY <2>3, <2>4 DEF TalliesTyped
  <2>6. UnitsConserved'
    BY <2>2, <2>3 DEF UnitsConserved, sem_max
  <2> QED
    BY <2>5, <2>6
<1> QED
  BY <1>1, <1>2

\* Units of a semaphore are neither made nor lost below its maximum, however
\* many tasks take, signal and are handed them.
THEOREM UnitsBalance == HistorySpec => []UnitsConserved
<1>1. TypeOK /\ Agreement /\ BlockedAtItsOperation /\ NoStrandedUnit /\ TalliesTyped
        /\ UnitsConserved /\ [HistoryNext]_<<vars, historyVars>>
        => TalliesTyped' /\ UnitsConserved'
  BY TallyStep
<1>2. HistorySpec => [](TypeOK /\ Agreement /\ BlockedAtItsOperation /\ NoStrandedUnit)
  BY HistoryFollows, TypeCorrect, AgreementCorrect, BlockedInPlace, UnitsNeverStranded, PTL
<1> QED
  BY <1>1, <1>2, TallyInit, PTL DEF HistorySpec

-----------------------------------------------------------------------------
(***************************************************************************)
(* Sections, and the quanta they need.                                     *)
(***************************************************************************)
Grounds ==
    /\ TypeOK /\ Agreement /\ BlockedAtItsOperation
    /\ Sections /\ Standing /\ JobLifecycle

Contained == setup.priority_inheritance /\ SectionsContained

InSection(u) == \E m \in Mutexes : Inside(u, m)

section_work(u) == SectionWork(program(u))

\* The quanta for what lies behind u: its jobs so far, and part of the current one.
quanta_behind(u) == Contribution(section_work(u), jobs_completed[u], pc[u])

\* Where the task at hand stands, and what it may do in a section.
LEMMA Placement ==
    ASSUME Grounds, NEW u \in Tasks
    PROVE  /\ program(u) \in Seq(Op) /\ Len(program(u)) \in Nat
           /\ pc[u] \in Nat /\ pc[u] <= Len(program(u))
           /\ jobs_completed[u] \in Nat
           /\ ~AtEnd(u) => pc[u] < Len(program(u))
<1>1. /\ program(u) \in Seq(Op) /\ Len(program(u)) \in Nat
      /\ pc \in [Tasks -> Nat] /\ jobs_completed \in [Tasks -> Nat]
  BY ProgramTyped, TaskFieldsTyped DEF Grounds
<1>2. pc[u] <= Len(program(u))
  BY DEF Grounds, Sections, StandsWell
<1> QED
  BY <1>1, <1>2 DEF AtEnd

LEMMA NotInSectionAtStart ==
    ASSUME NEW u, pc[u] = 0
    PROVE  ~InSection(u)
BY DEF InSection, Inside, InsideAt

LEMMA SetupStays ==
    ASSUME [Next]_vars
    PROVE  /\ Contained' <=> Contained
           /\ \A u \in Tasks :
                 /\ base_priority(u)' = base_priority(u)
                 /\ program(u)' = program(u)
                 /\ section_work(u)' = section_work(u)
<1>1. setup' = setup
  BY McuFrame
<1>2. ASSUME NEW u \in Tasks
      PROVE  /\ base_priority(u)' = base_priority(u)
             /\ program(u)' = program(u)
             /\ LocksInOrder(program(u))' <=> LocksInOrder(program(u))
             /\ section_work(u)' = section_work(u)
  BY <1>1 DEF base_priority, program, LocksInOrder, section_work, SectionWork, Works, InsideAt
<1>4. ASSUME NEW u \in Tasks, NEW i \in 1..Len(program(u)), NEW m \in Mutexes
      PROVE  InsideAt(program(u), i - 1, m)' <=> InsideAt(program(u), i - 1, m)
  BY <1>1 DEF program, InsideAt
<1>5. SectionsContained' <=> SectionsContained
  BY <1>2, <1>4 DEF SectionsContained
<1> QED
  BY <1>1, <1>2, <1>5 DEF Contained

\* What a step makes of a section: nothing for a task that stays; for one that
\* passes an operation only Lock leads in and only Unlock leads out.
LEMMA SectionOfStay ==
    ASSUME [Next]_vars, NEW u \in Tasks, pc'[u] = pc[u]
    PROVE  InSection(u)' <=> InSection(u)
<1>1. program(u)' = program(u)
  BY ProgramStays
<1> QED
  BY <1>1 DEF InSection, Inside, InsideAt

LEMMA SectionOfPass ==
    ASSUME Grounds, [Next]_vars, NEW u \in Tasks, pc'[u] = pc[u] + 1
    PROVE  /\ current_op(u)[1] # "Lock" => (InSection(u)' => InSection(u))
           /\ current_op(u)[1] # "Unlock" => (InSection(u) => InSection(u)')
<1>1. program(u)' = program(u)
  BY ProgramStays
<1>2. ASSUME NEW m \in Mutexes
      PROVE  InsideAt(program(u), pc[u] + 1, m) <=>
               \/ current_op(u) = <<"Lock", m>>
               \/ InsideAt(program(u), pc[u], m) /\ current_op(u) # <<"Unlock", m>>
  <2>1. pc[u] \in Nat
    BY Placement
  <2> QED
    BY <2>1, InsideNext DEF current_op
<1>3. ASSUME NEW m \in Mutexes
      PROVE  /\ Inside(u, m) <=> InsideAt(program(u), pc[u], m)
             /\ Inside(u, m)' <=> InsideAt(program(u), pc[u] + 1, m)
  BY <1>1 DEF Inside, InsideAt
<1> QED
  BY <1>2, <1>3 DEF InSection

LEMMA SectionWorkTyped ==
    ASSUME NEW prog \in Seq(Op)
    PROVE  SectionWork(prog) \in [1..Len(prog) -> Nat]
<1>1. Works(prog) \in [1..Len(prog) -> Nat]
  BY WorksTyped
<1>2. DOMAIN prog = 1..Len(prog)
  OBVIOUS
<1> QED
  BY <1>1, <1>2 DEF SectionWork

LEMMA SectionWorkAt ==
    ASSUME Grounds, NEW u \in Tasks, ~AtEnd(u)
    PROVE  /\ section_work(u)[pc[u] + 1] \in Nat
           /\ current_op(u)[1] = "Lock" => section_work(u)[pc[u] + 1] = 1
           /\ current_op(u)[1] # "Lock" /\ ~InSection(u) => section_work(u)[pc[u] + 1] = 0
           /\ current_op(u)[1] = "Compute" /\ InSection(u) =>
                section_work(u)[pc[u] + 1] = current_op(u)[2]
<1>1. /\ program(u) \in Seq(Op) /\ Len(program(u)) \in Nat
      /\ pc[u] \in Nat /\ pc[u] < Len(program(u))
  BY Placement
<1>2. pc[u] + 1 \in DOMAIN program(u) /\ (pc[u] + 1) - 1 = pc[u]
  BY <1>1
<1>3. section_work(u)[pc[u] + 1] =
        IF current_op(u)[1] = "Lock" THEN 1
        ELSE IF InSection(u) THEN Works(program(u))[pc[u] + 1]
        ELSE 0
  BY <1>2 DEF section_work, SectionWork, InSection, Inside, current_op
<1>4. Works(program(u))[pc[u] + 1] =
        IF current_op(u)[1] = "Compute" THEN current_op(u)[2] ELSE 0
  BY <1>2 DEF Works, current_op
<1>5. section_work(u)[pc[u] + 1] \in Nat
  BY <1>1, SectionWorkTyped DEF section_work
<1> QED
  BY <1>3, <1>4, <1>5

\* What lies behind a task and what it stands at are part of the whole.
LEMMA QuantaBehind ==
    ASSUME Grounds, NEW u \in Tasks
    PROVE  /\ quanta_behind(u) \in Nat /\ SectionCosts[u] \in Nat
           /\ quanta_behind(u) <= SectionCosts[u]
           /\ ~AtEnd(u) /\ job_active[u] =>
                quanta_behind(u) + section_work(u)[pc[u] + 1] <= SectionCosts[u]
<1> DEFINE len == Len(program(u))
           c == section_work(u)
           p == pc[u]
           n == jobs_completed[u]
           total == SumFunction(c)
<1>1. len \in Nat /\ p \in Nat /\ p <= len /\ n \in Nat /\ c \in [1..len -> Nat]
  BY Placement, SectionWorkTyped DEF section_work
<1>2. /\ ~job_active[u] => p = 0
      /\ jobs_released[u] = n + (IF job_active[u] THEN 1 ELSE 0)
      /\ SectionCosts[u] = jobs_released[u] * total
      /\ ~AtEnd(u) => p + 1 <= len
  BY <1>1, Placement DEF Grounds, Sections, StandsWell, JobLifecycle, SectionCosts, section_work
<1>3. quanta_behind(u) = n * total + SumFunctionOnSet(c, 1..p)
  BY DEF quanta_behind, Contribution
<1>4. total = SumFunctionOnSet(c, 1..len)
  <2>1. DOMAIN c = 1..len
    BY <1>1
  <2> QED
    BY <2>1 DEF SumFunction
<1> HIDE DEF len, c, p, n, total
<1>5. /\ SumFunctionOnSet(c, 1..p) \in Nat /\ total \in Nat
      /\ SumFunctionOnSet(c, 1..p) <= total
  BY <1>1, <1>4, PrefixSums
<1>6. ASSUME p + 1 <= len
      PROVE  SumFunctionOnSet(c, 1..p) + c[p+1] <= total /\ c[p+1] \in Nat
  <2>1. p + 1 \in Nat /\ \A i \in 1..(p+1) : c[i] \in Int
    BY <1>1, <1>6
  <2>2. c[p+1] \in Nat
    BY <1>1, <1>6
  <2>3. SumFunctionOnSet(c, 1..p+1) = SumFunctionOnSet(c, 1..p) + c[p+1]
    BY <1>1, <2>1, SumUpTo
  <2>4. SumFunctionOnSet(c, 1..(p+1)) <= total
    BY <1>1, <1>4, <1>6, <2>1, PrefixSums
  <2> QED
    BY <2>2, <2>3, <2>4
<1>7. SumFunctionOnSet(c, 1..0) = 0
  <2>1. 1..0 = {}
    OBVIOUS
  <2> QED
    BY <2>1, SumEmpty
<1>8. n * total \in Nat /\ (n + 1) * total = n * total + total
  BY <1>1, <1>5
<1>9. CASE job_active[u]
  <2>1. SectionCosts[u] = n * total + total
    BY <1>2, <1>8, <1>9
  <2>2. ~AtEnd(u) => SumFunctionOnSet(c, 1..p) + c[p+1] <= total /\ c[p+1] \in Nat
    BY <1>2, <1>6
  <2> QED
    BY <1>3, <1>5, <1>8, <2>1, <2>2 DEF c, p
<1>10. CASE ~job_active[u]
  <2>1. SectionCosts[u] = n * total
    BY <1>1, <1>2, <1>10
  <2>2. quanta_behind(u) = n * total
    BY <1>2, <1>3, <1>7, <1>8, <1>10
  <2> QED
    BY <1>8, <1>10, <2>1, <2>2
<1> QED
  BY <1>9, <1>10

-----------------------------------------------------------------------------
(***************************************************************************)
(* How quanta and waits end.                                               *)
(***************************************************************************)
InQuantum(u) == mode = "quantum" /\ running = u

Waiting == {"Delay", "SemWait", "QueueSend", "QueueRecv"}

\* The quantum of a task ends with its job, with a unit of work, or because it
\* blocks.
LEMMA WhyQuantumEnds ==
    ASSUME TypeOK, Agreement, Next, NEW u \in Tasks, InQuantum(u), ~InQuantum(u)'
    PROVE  \/ jobs_completed'[u] = jobs_completed[u] + 1
           \/ DoesWork(u)
           \/ OnMutex(u)'
           \/ ~AtEnd(u) /\ current_op(u)[1] \in Waiting
<1>1. mode = "quantum" /\ running = u /\ ~(mode' = "quantum" /\ running' = u)
  BY DEF InQuantum
<1>2. PICK t \in Tasks : RunQuantum(t)
  BY <1>1 DEF Next, Tick, ServiceInterrupts, Idle, Dispatch, Finished
<1>3. t = u
  BY <1>1, <1>2 DEF RunQuantum, EndOfProgram, Compute, Delay, Peripheral, Lock, BlockOnMutex,
     Unlock, SemWait, SemSignal, QueueSend, QueueRecv, Executing
<1>4. jobs_completed \in [Tasks -> Nat] /\ cpu_ticks \in [Tasks -> Nat]
  BY TaskFieldsTyped
<1>5. CASE EndOfProgram(u)
  BY <1>4, <1>5 DEF EndOfProgram, complete_job
<1>6. CASE Compute(u)
  <2>1. CASE cpu_ticks' = [cpu_ticks EXCEPT ![u] = @ + 1]
    <3>1. cpu_ticks'[u] = cpu_ticks[u] + 1 /\ cpu_ticks[u] \in Nat
      BY <1>4, <2>1
    <3>2. GoesOn(u)
      BY <1>6, GoesOnByCompute
    <3> QED
      BY <3>1, <3>2 DEF GoesOn, Rests, Begins, EndsIdly, GoesPast
  <2>2. CASE Continue
    BY <1>1, <2>2 DEF Continue, schedVars
  <2> QED
    BY <1>6, <2>1, <2>2 DEF Compute
<1>7. CASE Delay(u) \/ \E s \in Semaphores : SemWait(u, s)
  <2>1. Delay(u) => ~AtEnd(u) /\ current_op(u)[1] = "Delay"
    BY DEF Delay, Executing
  <2>2. \A s \in Semaphores : SemWait(u, s) => ~AtEnd(u) /\ current_op(u)[1] = "SemWait"
    BY DEF SemWait, Executing
  <2> QED
    BY <1>7, <2>1, <2>2 DEF Waiting
<1>8. CASE \E q \in Queues : QueueSend(u, q) \/ QueueRecv(u, q)
  <2>1. PICK q \in Queues : QueueSend(u, q) \/ QueueRecv(u, q)
    BY <1>8
  <2>2. QueueSend(u, q) => ~AtEnd(u) /\ current_op(u)[1] = "QueueSend"
    BY DEF QueueSend, Executing
  <2>3. QueueRecv(u, q) => ~AtEnd(u) /\ current_op(u)[1] = "QueueRecv"
    BY DEF QueueRecv, Executing
  <2> QED
    BY <2>1, <2>2, <2>3 DEF Waiting
<1>9. CASE Peripheral(u) \/ \E m \in Mutexes : Lock(u, m)
  BY <1>1, <1>9 DEF Peripheral, Lock, Continue, schedVars
<1>10. ASSUME NEW m \in Mutexes, BlockOnMutex(u, m) PROVE OnMutex(u)'
  <2>1. blocked_on'[u] = <<"Mutex", m>>
    BY <1>10 DEF BlockOnMutex, Block, TypeOK, TaskTypeOK
  <2> QED
    BY <2>1 DEF OnMutex
<1>11. CASE \E m \in Mutexes : Unlock(u, m)
  BY <1>1, <1>11 DEF Unlock, Wake
<1>12. CASE \E s \in Semaphores : SemSignal(u, s)
  BY <1>1, <1>12 DEF SemSignal, Wake
<1> QED
  BY <1>2, <1>3, <1>5, <1>6, <1>7, <1>8, <1>9, <1>10, <1>11, <1>12 DEF RunQuantum

\* A wait for a mutex ends only when it is handed over, and begins only with an
\* attempt to take it, both in a quantum.
LEMMA WaitChanges ==
    ASSUME TypeOK, Agreement, [Next]_vars, NEW u \in Tasks, ~(OnMutex(u)' <=> OnMutex(u))
    PROVE  /\ mode = "quantum" /\ mode' \in {"quantum", "tick"} /\ now' = now
           /\ OnMutex(u) => pc'[u] = pc[u] + 1
<1>1. MutexConsistent /\ MutexConsistent'
  BY AgreementStep DEF Agreement
<1>2. /\ OnMutex(u) <=> \E m \in Mutexes : u \in waiters[m]
      /\ OnMutex(u)' <=> \E m \in Mutexes : u \in waiters'[m]
  BY <1>1 DEF MutexConsistent, OnMutex
<1>3. waiters # waiters'
  BY <1>2
<1>4. waiters \in [Mutexes -> SUBSET Tasks] /\ pc \in [Tasks -> Nat]
  BY DEF TypeOK, MutexTypeOK, TaskTypeOK
<1>5. ASSUME NEW t \in Tasks, NEW m \in Mutexes, Lock(t, m) PROVE FALSE
  BY <1>3, <1>5 DEF Lock, try_acquire
<1>6. ASSUME NEW t \in Tasks, NEW m \in Mutexes, BlockOnMutex(t, m)
      PROVE  /\ mode = "quantum" /\ mode' \in {"quantum", "tick"} /\ now' = now
             /\ ~OnMutex(u)
  <2>1. waiters' = [waiters EXCEPT ![m] = @ \union {t}]
    BY <1>6 DEF BlockOnMutex, add_waiter
  <2>2. \A n \in Mutexes : waiters[n] \subseteq waiters'[n]
    BY <1>4, <2>1
  <2>3. ~OnMutex(u)
    BY <1>2, <2>2
  <2> QED
    BY <1>6, <2>3 DEF BlockOnMutex, Executing, Block, quantumFrame, clockVars
<1>7. ASSUME NEW t \in Tasks, NEW m \in Mutexes, Unlock(t, m)
      PROVE  /\ mode = "quantum" /\ mode' \in {"quantum", "tick"} /\ now' = now
             /\ OnMutex(u) => pc'[u] = pc[u] + 1
  <2>1. PICK next \in Tasks \union {NoTask} :
           release(m, t, eff_priority, next) /\ Wake(next) /\ AdvanceBoth(t, next)
    BY <1>7 DEF Unlock
  <2>2. mode = "quantum" /\ mode' = "quantum" /\ now' = now
    BY <1>7, <2>1 DEF Unlock, Executing, Wake, quantumFrame, clockVars
  <2>3. \A n \in Mutexes : waiters'[n] = waiters[n] \/ waiters'[n] = waiters[n] \ {next}
    BY <1>4, <2>1 DEF release, mutexVars
  <2>4. OnMutex(u) => u = next
    BY <1>2, <2>3
  <2> QED
    BY <2>1, <2>2, <2>4 DEF AdvanceBoth
<1> QED
  BY <1>3, <1>5, <1>6, <1>7, MutexFrame DEF mutexVars

\* Only Delay puts a task to sleep.
LEMMA WhoFallsAsleep ==
    ASSUME TypeOK, Agreement, [Next]_vars, NEW u \in Tasks,
           blocked_on[u] # Sleep, blocked_on'[u] = Sleep
    PROVE  Delay(u)
<1>1. blocked_on \in [Tasks -> BlockReason] /\ None # Sleep /\ WaitPeriod # Sleep
  BY ReasonsDiffer DEF TypeOK, TaskTypeOK
<1>2. \A x, y : y \in {"Mutex", "Semaphore", "QueueSend", "QueueRecv"} => <<y, x>> # Sleep
  BY ReasonsDiffer
<1>3. ASSUME NEW t \in Tasks, NEW reason, Block(t, reason), reason # Sleep PROVE FALSE
  BY <1>1, <1>3 DEF Block
<1>4. ASSUME NEW w, Wake(w) PROVE FALSE
  BY <1>1, <1>4 DEF Wake
<1>5. blocked_on' # blocked_on
  BY <1>1
<1>6. CASE UNCHANGED vars \/ Tick \/ Idle \/ Finished \/ \E t \in Tasks : Dispatch(t)
  BY <1>5, <1>6 DEF Tick, Idle, Finished, Dispatch, vars, schedVars
<1>7. CASE ServiceInterrupts
  BY <1>1, <1>7 DEF ServiceInterrupts, on_tick
<1>8. ASSUME NEW t \in Tasks, complete_job(t) PROVE FALSE
  BY <1>1, <1>3, <1>5, <1>8 DEF complete_job
<1>9. ASSUME NEW t \in Tasks, RunQuantum(t) PROVE Delay(u)
  <2>1. CASE EndOfProgram(t) \/ Compute(t)
    BY <1>5, <1>8, <2>1 DEF EndOfProgram, Compute, Continue, schedVars, EndQuantum
  <2>2. CASE Delay(t)
    BY <1>1, <1>5, <2>2 DEF Delay, Continue, schedVars, Block
  <2>3. CASE Peripheral(t) \/ \E m \in Mutexes : Lock(t, m)
    BY <1>5, <2>3 DEF Peripheral, Lock, Continue, schedVars
  <2>4. CASE \E m \in Mutexes : BlockOnMutex(t, m)
    BY <1>2, <1>3, <2>4 DEF BlockOnMutex
  <2>5. CASE \E m \in Mutexes : Unlock(t, m)
    BY <1>4, <2>5 DEF Unlock
  <2>6. CASE \E s \in Semaphores : SemWait(t, s)
    BY <1>2, <1>3, <1>5, <2>6 DEF SemWait, Continue, schedVars
  <2>7. CASE \E s \in Semaphores : SemSignal(t, s)
    BY <1>4, <2>7 DEF SemSignal
  <2>8. CASE \E q \in Queues : QueueSend(t, q)
    BY <1>2, <1>3, <1>4, <2>8 DEF QueueSend
  <2>9. CASE \E q \in Queues : QueueRecv(t, q)
    BY <1>2, <1>3, <1>4, <2>9 DEF QueueRecv
  <2> QED
    BY <1>9, <2>1, <2>2, <2>3, <2>4, <2>5, <2>6, <2>7, <2>8, <2>9 DEF RunQuantum
<1> QED
  BY <1>6, <1>7, <1>9 DEF Next

-----------------------------------------------------------------------------
(***************************************************************************)
(* Contained sections.                                                     *)
(***************************************************************************)
LEMMA NoWaitInSection ==
    ASSUME Grounds, Contained, NEW u \in Tasks, InSection(u), ~AtEnd(u)
    PROVE  current_op(u)[1] \notin Waiting
<1>1. /\ Len(program(u)) \in Nat /\ pc[u] \in Nat /\ pc[u] < Len(program(u))
  BY Placement
<1>2. pc[u] + 1 \in 1..Len(program(u)) /\ (pc[u] + 1) - 1 = pc[u]
  BY <1>1
<1>3. PICK m \in Mutexes : InsideAt(program(u), pc[u], m)
  BY DEF InSection, Inside
<1>4. \A i \in 1..Len(program(u)) : InsideAt(program(u), i - 1, m) =>
         program(u)[i][1] \notin {"Delay", "SemWait", "QueueSend", "QueueRecv"}
  BY DEF Contained, SectionsContained
<1> QED
  BY <1>2, <1>3, <1>4 DEF current_op, Waiting

\* With programs that take mutexes in order, a task is in a section exactly
\* when it owns a mutex.
LEMMA InSectionOwns ==
    ASSUME Grounds, Contained, NEW u \in Tasks
    PROVE  InSection(u) <=> \E m \in Mutexes : owner[m] = u
<1>1. LockOrder
  BY DEF LockOrder, Contained, SectionsContained
<1>2. \A m \in Mutexes : OwnsWell(u, m)
  BY DEF Grounds, Sections
<1> QED
  BY <1>1, <1>2 DEF OwnsWell, InSection, Inside

\* A task in a section has a job.
LEMMA SectionOfJob ==
    ASSUME Grounds, NEW u \in Tasks, InSection(u)
    PROVE  job_active[u]
BY NotInSectionAtStart DEF Grounds, Sections, StandsWell

\* No task sleeps inside a section.
SleepsOutside ==
    Contained => \A u \in Tasks : blocked_on[u] = Sleep => ~InSection(u)

LEMMA SleepInit == Init => SleepsOutside
BY DEF Init, SleepsOutside, None, Sleep

LEMMA SleepStep ==
    Grounds /\ SleepsOutside /\ [Next]_vars => SleepsOutside'
<1> SUFFICES ASSUME Grounds, SleepsOutside, [Next]_vars, Contained',
                    NEW u \in Tasks, blocked_on'[u] = Sleep
             PROVE  ~InSection(u)'
  BY DEF SleepsOutside
<1>2. Contained
  BY SetupStays
<1>3. CASE blocked_on[u] = Sleep
  <2>1. ~InSection(u) /\ job_active[u]
    BY <1>2, <1>3, ActiveTasks, ReasonsDiffer DEF SleepsOutside, Grounds
  <2>2. CASE Unmoved(u)
    BY <2>1, <2>2, SectionOfStay DEF Unmoved
  <2>3. CASE Restarted(u)
    BY <2>1, <2>3 DEF Restarted
  <2>4. CASE Ended(u)
    BY <2>4 DEF Ended, InSection, Inside, InsideAt
  <2>5. CASE Moved(u)
    <3>1. pc'[u] = pc[u] + 1 /\ pc[u] \in Nat
      BY <2>5, Placement DEF Moved
    <3>2. Next
      BY <3>1 DEF vars
    <3>3. \/ mode = "quantum" /\ running = u
          \/ \E m \in Mutexes : blocked_on[u] = <<"Mutex", m>>
          \/ \E s \in Semaphores : blocked_on[u] = <<"Semaphore", s>>
      BY <3>1, <3>2, WhoGoesOn DEF Grounds
    <3> QED
      BY <1>3, <3>3, ReasonsDiffer DEF Grounds, Agreement, SingleRunner
  <2> QED
    BY <2>2, <2>3, <2>4, <2>5, MovedStep DEF MovedWell, Grounds
<1>4. CASE blocked_on[u] # Sleep
  <2>1. Delay(u)
    BY <1>4, WhoFallsAsleep DEF Grounds
  <2>2. ~AtEnd(u) /\ current_op(u)[1] = "Delay" /\ pc'[u] = pc[u] + 1
    BY <2>1 DEF Delay, Executing, Advance, Grounds, TypeOK, TaskTypeOK
  <2>3. ~InSection(u)
    BY <1>2, <2>2, NoWaitInSection DEF Waiting
  <2> QED
    BY <2>2, <2>3, SectionOfPass
<1> QED
  BY <1>3, <1>4

\* So a task in a section is schedulable or waits for another mutex.
LEMMA SectionGoesOn ==
    ASSUME Grounds, SleepsOutside, Contained, NEW u \in Tasks, InSection(u), ~OnMutex(u)
    PROVE  u \in Runnable
<1>1. job_active[u]
  BY SectionOfJob
<1>2. state[u] # "Suspended" /\ blocked_on[u] # WaitPeriod
  BY <1>1 DEF Grounds, Agreement, ActivityAgrees
<1>3. blocked_on[u] # Sleep
  BY DEF SleepsOutside
<1>4. blocked_on[u] = None
  <2> SUFFICES ASSUME blocked_on[u] # None PROVE FALSE
    OBVIOUS
  <2>1. BlocksFor(u, blocked_on[u])
    BY <1>2, <1>3 DEF Grounds, BlockedAtItsOperation, BlocksFor
  <2>2. ~AtEnd(u) /\ current_op(u)[1] \notin Waiting
    BY <2>1, NoWaitInSection DEF BlocksFor
  <2>3. current_op(u)[1] = "Lock" /\ blocked_on[u] = <<"Mutex", current_op(u)[2]>>
    BY <2>1, <2>2 DEF BlocksFor, Waiting
  <2>4. current_op(u) \in Op
    BY <2>2, CurrentOpTyped DEF Grounds, TypeOK, TaskTypeOK
  <2>5. current_op(u)[2] \in Mutexes
    BY <2>3, <2>4 DEF Op
  <2> QED
    BY <2>3, <2>5 DEF OnMutex
<1>5. state[u] # "Blocked"
  BY <1>4 DEF Grounds, Agreement, SingleRunner
<1>6. state[u] \in TaskState
  BY DEF Grounds, TypeOK, TaskTypeOK
<1> QED
  BY <1>2, <1>5, <1>6 DEF TaskState, Runnable

-----------------------------------------------------------------------------
(***************************************************************************)
(* The account of a task: the quanta it has had to get out of its          *)
(* sections.  No step lowers an account, every quantum that counts as      *)
(* inversion raises one, and none exceeds the sections' cost.              *)
(***************************************************************************)
\* A task that could run in its section has a quantum to come for it.
Reserved(u) == InSection(u) /\ ~OnMutex(u) /\ ~InQuantum(u)

\* The quanta u has had, or is having, to get out of its sections.
account(u) ==
    quanta_behind(u) + (IF InSection(u) THEN under_way(u) ELSE 0)
                     - (IF Reserved(u) THEN 1 ELSE 0)

LEMMA UnderWay ==
    ASSUME Grounds, NEW u \in Tasks
    PROVE  /\ under_way(u) \in Nat
           /\ under_way(u) # 0 => /\ ~AtEnd(u) /\ current_op(u)[1] = "Compute"
                                  /\ current_op(u)[2] \in Nat
                                  /\ under_way(u) < current_op(u)[2]
           /\ compute_remaining[u] = 0 => under_way(u) = 0
<1>1. compute_remaining[u] \in Nat
  BY TaskFieldsTyped DEF Grounds
<1>2. compute_remaining[u] # 0 => /\ ~AtEnd(u)
                                  /\ current_op(u)[1] = "Compute"
                                  /\ compute_remaining[u] < current_op(u)[2]
  BY DEF Grounds, Standing, StandsAt
<1>3. compute_remaining[u] # 0 => current_op(u)[2] \in Nat
  BY <1>2, DurationOfCurrent DEF Grounds
<1> QED
  BY <1>1, <1>2, <1>3 DEF under_way

\* No task is credited with more than its sections cost, and one that could run
\* in its section still has a quantum to come.
LEMMA AccountBelow ==
    ASSUME Grounds, NEW u \in Tasks
    PROVE  /\ account(u) \in Int /\ SectionCosts[u] \in Nat
           /\ account(u) <= SectionCosts[u]
           /\ Reserved(u) => account(u) + 1 <= SectionCosts[u]
<1>1. /\ quanta_behind(u) \in Nat /\ SectionCosts[u] \in Nat
      /\ quanta_behind(u) <= SectionCosts[u]
      /\ ~AtEnd(u) /\ job_active[u] =>
           quanta_behind(u) + section_work(u)[pc[u] + 1] <= SectionCosts[u]
  BY QuantaBehind
<1>2. /\ under_way(u) \in Nat
      /\ under_way(u) # 0 => /\ ~AtEnd(u) /\ current_op(u)[1] = "Compute"
                             /\ current_op(u)[2] \in Nat
                             /\ under_way(u) < current_op(u)[2]
  BY UnderWay
<1>3. ~AtEnd(u) /\ current_op(u)[1] = "Compute" /\ InSection(u) =>
        section_work(u)[pc[u] + 1] = current_op(u)[2]
  BY SectionWorkAt
<1>4. InSection(u) => quanta_behind(u) + under_way(u) <= SectionCosts[u]
  BY <1>1, <1>2, <1>3, SectionOfJob
<1>5. Reserved(u) => InSection(u)
  BY DEF Reserved
<1> QED
  BY <1>1, <1>2, <1>4, <1>5 DEF account

\* A task whose program counter stays put and that does no work keeps its
\* reservation.
LEMMA ReservationKept ==
    ASSUME Grounds, Contained, [Next]_vars, NEW u \in Tasks,
           pc'[u] = pc[u] \/ (pc'[u] = pc[u] + 1 /\ ~AtEnd(u) /\ current_op(u)[1] # "Lock"),
           jobs_completed'[u] = jobs_completed[u], cpu_ticks'[u] = cpu_ticks[u],
           Reserved(u)'
    PROVE  Reserved(u)
<1>1. InSection(u)' /\ ~OnMutex(u)' /\ ~InQuantum(u)'
  BY DEF Reserved
<1>2. pc[u] \in Nat /\ jobs_completed[u] \in Nat /\ cpu_ticks[u] \in Nat
  BY TaskFieldsTyped DEF Grounds
<1>3. InSection(u)
  BY <1>1, SectionOfStay, SectionOfPass
<1>4. ~OnMutex(u)
  <2> SUFFICES ASSUME OnMutex(u) PROVE FALSE
    OBVIOUS
  <2>1. pc'[u] = pc[u] + 1
    BY <1>1, WaitChanges DEF Grounds
  <2>2. current_op(u)[1] # "Lock"
    BY <1>2, <2>1
  <2>3. BlocksFor(u, blocked_on[u])
    BY ReasonsDiffer DEF Grounds, BlockedAtItsOperation, BlocksFor, OnMutex
  <2> QED
    BY <2>2, <2>3, ReasonsDiffer DEF BlocksFor, OnMutex
<1>5. ~InQuantum(u)
  <2> SUFFICES ASSUME InQuantum(u) PROVE FALSE
    OBVIOUS
  <2>1. Next
    BY <1>1 DEF InQuantum, vars, schedVars
  <2>2. \/ jobs_completed'[u] = jobs_completed[u] + 1
        \/ DoesWork(u)
        \/ OnMutex(u)'
        \/ ~AtEnd(u) /\ current_op(u)[1] \in Waiting
    BY <1>1, <2>1, WhyQuantumEnds DEF Grounds
  <2>3. ~DoesWork(u)
    BY <1>2 DEF DoesWork
  <2> QED
    BY <1>1, <1>2, <1>3, <2>2, <2>3, NoWaitInSection
<1> QED
  BY <1>3, <1>4, <1>5 DEF Reserved

\* No step lowers an account.
LEMMA AccountStep ==
    ASSUME Grounds, Contained, [Next]_vars, NEW u \in Tasks
    PROVE  account(u) \in Int /\ account(u)' \in Int /\ account(u) <= account(u)'
<1> DEFINE before == quanta_behind(u)
           after == quanta_behind(u)'
           w == section_work(u)[pc[u] + 1]
<1>1. /\ before \in Nat
      /\ Rests(u) \/ Begins(u) \/ EndsIdly(u) => after = before
      /\ GoesPast(u) => after = before + w
      /\ DoesWork(u) /\ WorksOn(u) => after = before
      /\ DoesWork(u) /\ WorksOff(u) => after = before + w
  <2>1. section_work(u) \in [1..Len(program(u)) -> Nat]
    BY Placement, SectionWorkTyped DEF section_work
  <2>2. after = Contribution(section_work(u), jobs_completed'[u], pc'[u])
    BY SetupStays DEF quanta_behind
  <2>3. before = Contribution(section_work(u), jobs_completed[u], pc[u])
    BY DEF quanta_behind
  <2> HIDE DEF before, after
  <2> QED
    BY <2>1, <2>2, <2>3, ExecutedStep DEF Grounds
<1>2. /\ pc[u] \in Nat /\ compute_remaining[u] \in Nat /\ under_way(u) \in Nat
      /\ ~AtEnd(u) => w \in Nat
  BY TaskFieldsTyped, UnderWay, SectionWorkAt DEF Grounds
<1>3. /\ account(u) = before + (IF InSection(u) THEN under_way(u) ELSE 0)
                             - (IF Reserved(u) THEN 1 ELSE 0)
      /\ account(u)' = after + (IF InSection(u)' THEN under_way(u)' ELSE 0)
                             - (IF Reserved(u)' THEN 1 ELSE 0)
  BY DEF account
<1>4. /\ Reserved(u) => InSection(u)
      /\ Reserved(u)' => InSection(u)'
      /\ InQuantum(u) => ~Reserved(u)
  BY DEF Reserved
<1>5. /\ compute_remaining'[u] = 0 => under_way(u)' = 0
      /\ pc'[u] = pc[u] /\ compute_remaining'[u] # 0 =>
           under_way(u)' = current_op(u)[2] - compute_remaining'[u]
      /\ pc'[u] = pc[u] /\ compute_remaining'[u] = compute_remaining[u] =>
           under_way(u)' = under_way(u)
  BY ProgramStays DEF under_way
<1>6. pc'[u] = 0 => ~InSection(u)'
  BY DEF InSection, Inside, InsideAt
<1> HIDE DEF before, after, w
<1>7. CASE Rests(u)
  <2>1. /\ pc'[u] = pc[u] /\ compute_remaining'[u] = compute_remaining[u]
        /\ cpu_ticks'[u] = cpu_ticks[u] /\ jobs_completed'[u] = jobs_completed[u]
    BY <1>7 DEF Rests
  <2>2. /\ InSection(u)' <=> InSection(u)
        /\ Reserved(u)' => Reserved(u)
    BY <2>1, SectionOfStay, ReservationKept
  <2> QED
    BY <1>1, <1>2, <1>3, <1>5, <1>7, <2>1, <2>2
<1>8. CASE Begins(u)
  <2>1. ~job_active[u] /\ pc'[u] = 0
    BY <1>8 DEF Begins
  <2>2. ~InSection(u) /\ ~InSection(u)'
    BY <1>6, <2>1, SectionOfJob
  <2> QED
    BY <1>1, <1>3, <1>4, <1>8, <2>2
<1>9. CASE EndsIdly(u)
  <2>1. AtEnd(u) /\ pc'[u] = 0
    BY <1>9 DEF EndsIdly
  <2>2. under_way(u) = 0 /\ ~InSection(u)'
    BY <1>6, <2>1, UnderWay
  <2> QED
    BY <1>1, <1>3, <1>4, <1>9, <2>2
<1>10. CASE GoesPast(u)
  <2>1. /\ ~AtEnd(u) /\ pc'[u] = pc[u] + 1
        /\ compute_remaining'[u] = compute_remaining[u]
        /\ cpu_ticks'[u] = cpu_ticks[u] /\ jobs_completed'[u] = jobs_completed[u]
        /\ current_op(u)[1] = "Compute" => current_op(u)[2] = 0
    BY <1>10 DEF GoesPast
  <2>2. compute_remaining[u] = 0 /\ under_way(u) = 0
    <3>1. compute_remaining[u] # 0 => /\ current_op(u)[1] = "Compute"
                                      /\ compute_remaining[u] < current_op(u)[2]
      BY DEF Grounds, Standing, StandsAt
    <3> QED
      BY <1>2, <2>1, <3>1, UnderWay
  <2>3. under_way(u)' = 0
    BY <1>5, <2>1, <2>2
  <2>4. current_op(u)[1] = "Lock" => w = 1
    BY <2>1, SectionWorkAt DEF w
  <2>5. current_op(u)[1] # "Lock" => (Reserved(u)' => Reserved(u))
    BY <2>1, ReservationKept
  <2>6. /\ account(u) = before - (IF Reserved(u) THEN 1 ELSE 0)
        /\ account(u)' = before + w - (IF Reserved(u)' THEN 1 ELSE 0)
        /\ w \in Nat
    BY <1>1, <1>2, <1>3, <1>10, <2>1, <2>2, <2>3
  <2> QED
    BY <1>1, <2>4, <2>5, <2>6
<1>11. CASE DoesWork(u)
  <2>1. /\ InQuantum(u) /\ ~AtEnd(u) /\ current_op(u)[1] = "Compute"
        /\ WorksOn(u) \/ WorksOff(u)
    BY <1>11 DEF DoesWork, InQuantum
  <2>2. current_op(u)[2] \in Nat
    BY <2>1, DurationOfCurrent DEF Grounds
  <2>3. under_way(u) = current_op(u)[2] - rest(u) /\ rest(u) \in Nat
    BY <1>2, <2>2 DEF under_way, rest
  <2>4. account(u) = before + (IF InSection(u) THEN under_way(u) ELSE 0)
    BY <1>1, <1>2, <1>3, <1>4, <2>1
  <2>5. CASE WorksOn(u)
    <3>1. pc'[u] = pc[u] /\ rest(u) > 1 /\ compute_remaining'[u] = rest(u) - 1
      BY <2>5 DEF WorksOn
    <3>2. InSection(u)' <=> InSection(u)
      BY <3>1, SectionOfStay
    <3>3. under_way(u)' = under_way(u) + 1
      BY <1>5, <2>2, <2>3, <3>1
    <3> QED
      BY <1>1, <1>2, <1>3, <1>4, <1>11, <2>4, <2>5, <3>2, <3>3
  <2>6. CASE WorksOff(u)
    <3>1. /\ rest(u) = 1 /\ compute_remaining'[u] = 0
          /\ pc'[u] = pc[u] + 1 \/ pc'[u] = 0
      BY <2>6 DEF WorksOff
    <3>2. InSection(u)' => InSection(u)
      BY <1>6, <2>1, <3>1, SectionOfPass
    <3>3. under_way(u)' = 0
      BY <1>5, <3>1
    <3>4. /\ InSection(u) => w = under_way(u) + 1
          /\ w \in Nat /\ after = before + w
      BY <1>1, <1>11, <2>1, <2>2, <2>3, <2>6, <3>1, SectionWorkAt DEF w
    <3> QED
      BY <1>1, <1>2, <1>3, <1>4, <2>4, <3>2, <3>3, <3>4
  <2> QED
    BY <2>1, <2>5, <2>6
<1>12. GoesOn(u)
  BY GoesOnStep DEF Grounds
<1> QED
  BY <1>7, <1>8, <1>9, <1>10, <1>11, <1>12 DEF GoesOn

-----------------------------------------------------------------------------
(***************************************************************************)
(* What a blocked task waits for.                                          *)
(***************************************************************************)
LEMMA ChainGrows ==
    ASSUME NEW x, NEW o \in Owners, WaitsOn(x, o)
    PROVE  o \in ChainFrom(x) /\ ChainFrom(o) \subseteq ChainFrom(x)
<1>1. ASSUME NEW S \in SUBSET Owners,
             \A y \in S \union {x}, z \in Owners : WaitsOn(y, z) => z \in S
      PROVE  o \in S
  BY <1>1
<1>2. ASSUME NEW v \in ChainFrom(o), NEW S \in SUBSET Owners,
             \A y \in S \union {x}, z \in Owners : WaitsOn(y, z) => z \in S
      PROVE  v \in S
  <2>1. o \in S
    BY <1>2
  <2>2. \A y \in S \union {o}, z \in Owners : WaitsOn(y, z) => z \in S
    BY <1>2, <2>1
  <2> QED
    BY <2>2 DEF ChainFrom
<1>3. \A v \in ChainFrom(o) : v \in Owners
  BY DEF ChainFrom
<1> QED
  BY <1>1, <1>2, <1>3 DEF ChainFrom

LEMMA BlockedBehind ==
    ASSUME Grounds, NEW x \in Tasks, OnMutex(x)
    PROVE  \E o \in Owners : WaitsOn(x, o)
<1>1. PICK m \in Mutexes : blocked_on[x] = <<"Mutex", m>>
  BY DEF OnMutex
<1>2. ~is_free(m)
  BY <1>1 DEF Grounds, Agreement, MutexConsistent
<1>3. owner[m] \in Tasks
  BY <1>2 DEF is_free, Grounds, TypeOK, MutexTypeOK
<1> QED
  BY <1>1, <1>3 DEF WaitsOn, Owners

\* Down the chain of a blocked task some owner could run: the chain is finite,
\* and with mutexes taken in order it does not come back.
LEMMA ChainEndsRunnable ==
    ASSUME Grounds, SleepsOutside, Contained, NEW t \in Tasks, OnMutex(t)
    PROVE  \E o \in ChainFrom(t) :
              o \in Tasks /\ o \in Runnable /\ InSection(o) /\ ~OnMutex(o)
<1>1. ASSUME NEW o \in ChainFrom(t) PROVE o \in Tasks /\ o \in Owners /\ InSection(o)
  <2>1. o \in Owners /\ o \in Tasks
    BY DEF ChainFrom, Owners
  <2> QED
    BY <2>1, InSectionOwns DEF Owners
<1> SUFFICES ASSUME \A o \in ChainFrom(t) : OnMutex(o) PROVE FALSE
  BY <1>1, SectionGoesOn
<1> DEFINE X == {t} \union ChainFrom(t)
           T == {ChainFrom(x) : x \in X}
<1>2. \A x \in X : x \in Tasks /\ OnMutex(x)
  BY <1>1
<1>3. ASSUME NEW x \in X, NEW o \in Owners, WaitsOn(x, o)
      PROVE  o \in X /\ o \in ChainFrom(x) /\ ChainFrom(o) \subseteq ChainFrom(x)
  <2>1. o \in ChainFrom(x) /\ ChainFrom(o) \subseteq ChainFrom(x)
    BY <1>3, ChainGrows
  <2>2. ChainFrom(x) \subseteq ChainFrom(t)
    <3>1. CASE x = t
      BY <3>1
    <3>2. CASE x \in ChainFrom(t)
      <4>1. ASSUME NEW v \in ChainFrom(x), NEW S \in SUBSET Owners,
                   \A y \in S \union {t}, z \in Owners : WaitsOn(y, z) => z \in S
            PROVE  v \in S
        <5>1. x \in S
          BY <3>2, <4>1 DEF ChainFrom
        <5>2. \A y \in S \union {x}, z \in Owners : WaitsOn(y, z) => z \in S
          BY <4>1, <5>1
        <5> QED
          BY <5>2 DEF ChainFrom
      <4>2. \A v \in ChainFrom(x) : v \in Owners
        BY DEF ChainFrom
      <4> QED
        BY <4>1, <4>2 DEF ChainFrom
    <3> QED
      BY <3>1, <3>2
  <2> QED
    BY <2>1, <2>2
<1>4. T \in SUBSET SUBSET Tasks /\ T # {}
  <2>1. \A x \in X : ChainFrom(x) \in SUBSET Tasks
    BY DEF ChainFrom, Owners
  <2> QED
    BY <2>1
<1>5. PICK A \in T : \A B \in T : B \subseteq A => B = A
  <2> HIDE DEF X, T
  <2>1. IsFiniteSet(Tasks)
    BY TasksAssumption
  <2>2. T \in SUBSET SUBSET Tasks
    BY <1>4
  <2>3. T # {}
    BY <1>4
  <2> QED
    BY <2>1, <2>2, <2>3, MinimalSubset
<1>6. PICK x \in X : A = ChainFrom(x)
  OBVIOUS
<1>7. PICK o \in Owners : WaitsOn(x, o)
  BY <1>2, BlockedBehind
<1>8. o \in X /\ o \in ChainFrom(x) /\ ChainFrom(o) \subseteq ChainFrom(x)
  BY <1>3, <1>7
<1>9. ChainFrom(o) = ChainFrom(x)
  BY <1>5, <1>6, <1>8
<1>10. \A v \in Tasks : LocksInOrder(program(v))
  BY DEF Contained, SectionsContained
<1>11. o \notin ChainFrom(o)
  BY <1>2, <1>8, <1>10, OrderedStep DEF OrderedLocksNeverDeadlock, Grounds
<1> QED
  BY <1>8, <1>9, <1>11

-----------------------------------------------------------------------------
(***************************************************************************)
(* What runs while a task is blocked.                                      *)
(***************************************************************************)

\* A less urgent task that runs while t is blocked has been boosted, so it is in
\* a section, and its quantum is the one it had to come.
LEMMA InversionIsSpent ==
    ASSUME Grounds, Contained, SleepsOutside, InheritanceHolds, [Next]_vars,
           NEW t \in Tasks, OnMutex(t), mode = "dispatch", mode' = "quantum",
           base_priority(running') < base_priority(t)
    PROVE  \E l \in Tasks : running' = l /\ account(l) + 1 <= account(l)'
<1>1. PICK l \in Tasks : Dispatch(l)
  BY DEF Next, vars, schedVars, Tick, ServiceInterrupts, Idle, Finished, RunQuantum,
     EndOfProgram, Compute, Delay, Peripheral, Lock, BlockOnMutex, Unlock, SemWait, SemSignal,
     QueueSend, QueueRecv, Executing
<1>2. running' = l /\ mode' = "quantum" /\ l \in Runnable
  BY <1>1, BestSubset DEF Dispatch, pick
<1>3. eff_priority[l] >= base_priority(t)
  <2>1. ChainFrom(t) \intersect Runnable # {}
    BY ChainEndsRunnable
  <2>2. NoMiddlingPick
    BY PickStep DEF Grounds
  <2> QED
    BY <1>2, <2>1, <2>2 DEF NoMiddlingPick, Contained
<1>4. InSection(l)
  <2>1. ExactFor(l)
    BY DEF InheritanceHolds, Contained
  <2>2. eff_priority[l] # base_priority(l)
    BY <1>2, <1>3, PrioritiesTyped DEF Grounds
  <2>3. PICK w \in WaitersOf(l) : TRUE
    BY <2>1, <2>2 DEF ExactFor
  <2>4. PICK m \in Mutexes : owner[m] = l
    BY <2>3, WaitersAreBlocked DEF WaitersOf, Grounds, Agreement
  <2> QED
    BY <2>4, InSectionOwns
<1>5. blocked_on[l] = None
  BY <1>2, RunnableFacts DEF Grounds
<1>6. ~OnMutex(l)
  BY <1>5, ReasonsDiffer DEF OnMutex
<1>7. Reserved(l) /\ ~Reserved(l)'
  BY <1>2, <1>4, <1>6 DEF Reserved, InQuantum
<1>8. /\ pc' = pc /\ compute_remaining' = compute_remaining
      /\ jobs_completed' = jobs_completed
  BY <1>1 DEF Dispatch, computeVars, jobVars
<1>9. /\ quanta_behind(l)' = quanta_behind(l)
      /\ InSection(l)' <=> InSection(l)
      /\ under_way(l)' = under_way(l)
  BY <1>8, SetupStays, SectionOfStay, ProgramStays DEF quanta_behind, under_way
<1>11. quanta_behind(l) \in Nat /\ under_way(l) \in Nat
  BY QuantaBehind, UnderWay
<1>12. account(l) = quanta_behind(l) + under_way(l) - 1
  BY <1>4, <1>7 DEF account
<1>13. account(l)' = quanta_behind(l) + under_way(l)
  BY <1>4, <1>7, <1>9, <1>11 DEF account
<1> QED
  BY <1>2, <1>11, <1>12, <1>13

-----------------------------------------------------------------------------
(***************************************************************************)
(* Bounded inversion.                                                      *)
(***************************************************************************)
less_urgent(t) == {l \in Tasks : base_priority(l) < base_priority(t)}

accounts == [u \in Tasks |-> account(u)]

\* What has been inverted for a task has been paid by the less urgent ones.
Paid ==
    Contained => \A t \in Tasks :
        inverted[t] <= SumFunctionOnSet(accounts, less_urgent(t))

\* The types of the history, and when a wait is under way.
HistoryTyped ==
    /\ inverted \in [Tasks -> Nat]
    /\ blocking \in [Tasks -> Int]
    /\ \A t \in Tasks : IF OnMutex(t) THEN blocked_at[t] \in Nat ELSE blocked_at[t] = Never

LEMMA NextOfHistory ==
    ASSUME [HistoryNext]_<<vars, historyVars>>
    PROVE  [Next]_vars
BY DEF HistoryNext

LEMMA InvertedAfter ==
    ASSUME TypeOK, HistoryTyped, [HistoryNext]_<<vars, historyVars>>, NEW t \in Tasks
    PROVE  /\ inverted[t] \in Nat /\ inverted'[t] \in Nat
           /\ \/ inverted'[t] = inverted[t]
              \/ /\ mode = "dispatch" /\ mode' = "quantum" /\ OnMutex(t)
                 /\ base_priority(running') < base_priority(t)
                 /\ inverted'[t] = inverted[t] + 1
           /\ /\ mode = "dispatch" /\ mode' = "quantum" /\ OnMutex(t)
              /\ base_priority(running') < base_priority(t)
              => inverted'[t] = inverted[t] + 1
<1>1. inverted[t] \in Nat
  BY DEF HistoryTyped
<1>2. CASE RecordInversion
  BY <1>1, <1>2 DEF RecordInversion
<1>3. CASE UNCHANGED <<vars, historyVars>>
  <2>1. inverted' = inverted /\ mode' = mode
    BY <1>3 DEF vars, historyVars, schedVars
  <2> QED
    BY <1>1, <2>1
<1> QED
  BY <1>2, <1>3 DEF HistoryNext, Record

LEMMA BlockingAfter ==
    ASSUME HistoryTyped, [HistoryNext]_<<vars, historyVars>>, NEW t \in Tasks
    PROVE  /\ (OnMutex(t)' <=> OnMutex(t)) => /\ blocked_at'[t] = blocked_at[t]
                                              /\ blocking'[t] = blocking[t]
           /\ OnMutex(t)' /\ ~OnMutex(t) => /\ blocked_at'[t] = now
                                            /\ blocking'[t] = blocking[t]
           /\ ~OnMutex(t)' /\ OnMutex(t) =>
                /\ blocked_at'[t] = Never
                /\ blocking'[t] = AtLeast(blocking[t], now - blocked_at[t])
<1>1. OnMutex(t) \in BOOLEAN /\ OnMutex(t)' \in BOOLEAN
  BY DEF OnMutex
<1>2. CASE RecordBlocking
  BY <1>1, <1>2 DEF RecordBlocking
<1>3. CASE UNCHANGED <<vars, historyVars>>
  <2>1. blocked_at' = blocked_at /\ blocking' = blocking /\ blocked_on' = blocked_on
    BY <1>3 DEF vars, historyVars, schedVars
  <2> QED
    BY <2>1 DEF OnMutex
<1> QED
  BY <1>2, <1>3 DEF HistoryNext, Record

LEMMA HistoryTypeInit == Init /\ HistoryInit => HistoryTyped
<1> SUFFICES ASSUME Init, HistoryInit PROVE HistoryTyped
  OBVIOUS
<1>1. \A t \in Tasks : ~OnMutex(t)
  BY ReasonsDiffer DEF Init, OnMutex
<1> QED
  BY <1>1 DEF HistoryInit, HistoryTyped

LEMMA HistoryTypeStep ==
    ASSUME TypeOK, HistoryTyped, [HistoryNext]_<<vars, historyVars>>
    PROVE  HistoryTyped'
<1>1. /\ inverted' \in [Tasks -> Nat] \/ \A t \in Tasks : inverted'[t] \in Nat
      /\ now \in Nat
  BY InvertedAfter DEF TypeOK, ControlTypeOK
<1>2. CASE UNCHANGED <<vars, historyVars>>
  BY <1>2 DEF HistoryTyped, vars, historyVars, schedVars, OnMutex
<1>3. CASE HistoryNext
  <2>1. inverted' \in [Tasks -> Nat]
    BY <1>1, <1>3, InvertedAfter DEF HistoryNext, Record, RecordInversion
  <2>2. ASSUME NEW t \in Tasks
        PROVE  /\ blocking'[t] \in Int
               /\ IF OnMutex(t)' THEN blocked_at'[t] \in Nat ELSE blocked_at'[t] = Never
    <3>1. /\ blocking[t] \in Int
          /\ IF OnMutex(t) THEN blocked_at[t] \in Nat ELSE blocked_at[t] = Never
      BY DEF HistoryTyped
    <3>2. OnMutex(t) => AtLeast(blocking[t], now - blocked_at[t]) \in Int
      BY <1>1, <3>1 DEF AtLeast
    <3> QED
      BY <1>1, <3>1, <3>2, BlockingAfter
  <2>3. blocking' \in [Tasks -> Int]
    BY <1>3, <2>2 DEF HistoryNext, Record, RecordBlocking
  <2> QED
    BY <2>1, <2>2, <2>3 DEF HistoryTyped
<1> QED
  BY <1>2, <1>3

LEMMA AccountsSum ==
    ASSUME Grounds, Contained, NEW t \in Tasks
    PROVE  /\ IsFiniteSet(less_urgent(t)) /\ less_urgent(t) \subseteq Tasks
           /\ SumFunctionOnSet(accounts, less_urgent(t)) \in Int
           /\ SumFunctionOnSet(SectionCosts, less_urgent(t)) \in Int
           /\ SumFunctionOnSet(accounts, less_urgent(t)) <=
                SumFunctionOnSet(SectionCosts, less_urgent(t))
           /\ (\E o \in less_urgent(t) : Reserved(o)) =>
                SumFunctionOnSet(accounts, less_urgent(t)) + 1 <=
                  SumFunctionOnSet(SectionCosts, less_urgent(t))
<1> DEFINE S == less_urgent(t)
<1>1. IsFiniteSet(S) /\ S \subseteq Tasks
  BY TasksAssumption, FS_Subset DEF less_urgent
<1>2. \A u \in S : /\ accounts[u] \in Int /\ SectionCosts[u] \in Int
                   /\ accounts[u] <= SectionCosts[u]
                   /\ Reserved(u) => accounts[u] + 1 <= SectionCosts[u]
  BY <1>1, AccountBelow DEF accounts
<1> HIDE DEF S
<1>3. \A u \in S : accounts[u] \in Int
  BY <1>2
<1>4. \A u \in S : SectionCosts[u] \in Int
  BY <1>2
<1>5. \A u \in S : accounts[u] \in Int /\ SectionCosts[u] \in Int /\ accounts[u] <= SectionCosts[u]
  BY <1>2
<1>6. SumFunctionOnSet(accounts, S) \in Int
  BY <1>1, <1>3, SumTyped
<1>7. SumFunctionOnSet(SectionCosts, S) \in Int
  BY <1>1, <1>4, SumTyped
<1>8. SumFunctionOnSet(accounts, S) <= SumFunctionOnSet(SectionCosts, S)
  BY <1>1, <1>5, SumAtLeast
<1>9. ASSUME NEW o \in S, Reserved(o)
      PROVE  SumFunctionOnSet(accounts, S) + 1 <= SumFunctionOnSet(SectionCosts, S)
  <2>1. accounts[o] + 1 <= SectionCosts[o]
    BY <1>2, <1>9
  <2> QED
    BY <1>1, <1>5, <2>1, SumExceeds
<1> QED
  BY <1>1, <1>6, <1>7, <1>8, <1>9 DEF S

LEMMA PaidInit == Init /\ HistoryInit => Paid
<1> SUFFICES ASSUME Init, HistoryInit, NEW t \in Tasks
             PROVE  inverted[t] <= SumFunctionOnSet(accounts, less_urgent(t))
  BY DEF Paid
<1>1. ASSUME NEW u \in Tasks PROVE account(u) = 0
  <2>1. pc[u] = 0 /\ compute_remaining[u] = 0 /\ jobs_completed[u] = 0
    BY DEF Init
  <2>2. ~InSection(u)
    BY <2>1, NotInSectionAtStart
  <2>3. quanta_behind(u) = 0
    <3>1. section_work(u) \in [1..Len(program(u)) -> Nat] /\ Len(program(u)) \in Nat
      BY TypeInit, ProgramTyped, SectionWorkTyped DEF section_work
    <3> QED
      BY <2>1, <3>1, ContributionNone DEF quanta_behind
  <2> QED
    BY <2>1, <2>2, <2>3 DEF account, Reserved
<1>2. IsFiniteSet(less_urgent(t)) /\ \A u \in less_urgent(t) : accounts[u] = 0
  BY <1>1, TasksAssumption, FS_Subset DEF less_urgent, accounts
<1>3. SumFunctionOnSet(accounts, less_urgent(t)) = 0
  BY <1>2, SumOfZeros
<1> QED
  BY <1>3 DEF HistoryInit

LEMMA PaidStep ==
    ASSUME Grounds, SleepsOutside, InheritanceHolds, HistoryTyped, Paid,
           [HistoryNext]_<<vars, historyVars>>
    PROVE  Paid'
<1>1. [Next]_vars
  BY NextOfHistory
<1> SUFFICES ASSUME Contained, NEW t \in Tasks
             PROVE  inverted'[t] <= SumFunctionOnSet(accounts', less_urgent(t))
  <2>1. \A t \in Tasks : less_urgent(t)' = less_urgent(t)
    BY <1>1, SetupStays DEF less_urgent
  <2> QED
    BY <1>1, <2>1, SetupStays DEF Paid
<1> DEFINE S == less_urgent(t)
<1>2. inverted[t] <= SumFunctionOnSet(accounts, S) /\ SumFunctionOnSet(accounts, S) \in Int
  BY AccountsSum DEF Paid
<1>3. IsFiniteSet(S) /\ S \subseteq Tasks
  BY AccountsSum
<1>4. \A u \in S : /\ accounts[u] \in Int /\ accounts'[u] \in Int
                   /\ accounts[u] <= accounts'[u]
  BY <1>1, <1>3, AccountStep DEF accounts
<1>5. \A u \in S : accounts'[u] \in Int
  BY <1>4
<1>6. SumFunctionOnSet(accounts', S) \in Int
  <2> HIDE DEF S
  <2> QED
    BY <1>3, <1>5, SumTyped
<1>7. SumFunctionOnSet(accounts, S) <= SumFunctionOnSet(accounts', S)
  <2> HIDE DEF S
  <2> QED
    BY <1>3, <1>4, SumAtLeast
<1>8. ASSUME mode = "dispatch", mode' = "quantum", OnMutex(t),
             base_priority(running') < base_priority(t)
      PROVE  SumFunctionOnSet(accounts, S) + 1 <= SumFunctionOnSet(accounts', S)
  <2>1. PICK l \in Tasks : running' = l /\ account(l) + 1 <= account(l)'
    BY <1>1, <1>8, InversionIsSpent
  <2>2. l \in S /\ accounts[l] + 1 <= accounts'[l]
    BY <1>8, <2>1 DEF less_urgent, accounts
  <2> HIDE DEF S
  <2> QED
    BY <1>3, <1>4, <2>2, SumExceeds
<1> QED
  BY <1>2, <1>6, <1>7, <1>8, InvertedAfter DEF Grounds

-----------------------------------------------------------------------------
(***************************************************************************)
(* Bounded blocking of the most urgent task.                               *)
(***************************************************************************)
MostUrgent(t) == \A u \in Tasks \ {t} : base_priority(u) < base_priority(t)

\* The tick that is not yet counted: between the clock and the scheduler.
uncounted == IF mode \in {"isr", "dispatch"} THEN 1 ELSE 0

\* Every tick of a wait of the most urgent task is a tick of inversion.
WaitCounted(t) ==
    /\ blocking[t] <= inverted[t]
    /\ OnMutex(t) => now - blocked_at[t] <= inverted[t] + uncounted

WaitsCounted == Contained => \A t \in Tasks : MostUrgent(t) => WaitCounted(t)

LEMMA CountStep ==
    ASSUME Grounds, SleepsOutside, Contained, HistoryTyped,
           [HistoryNext]_<<vars, historyVars>>,
           NEW t \in Tasks, MostUrgent(t), WaitCounted(t)
    PROVE  WaitCounted(t)'
<1>1. [Next]_vars
  BY NextOfHistory
<1>2. /\ inverted[t] \in Nat /\ inverted'[t] \in Nat /\ inverted[t] <= inverted'[t]
      /\ inverted'[t] # inverted[t] => mode = "dispatch" /\ inverted'[t] = inverted[t] + 1
  BY InvertedAfter DEF Grounds
<1>3. /\ blocking[t] \in Int /\ now \in Nat
      /\ IF OnMutex(t) THEN blocked_at[t] \in Nat ELSE blocked_at[t] = Never
  BY DEF HistoryTyped, Grounds, TypeOK, ControlTypeOK
<1>4. /\ blocking[t] <= inverted[t]
      /\ OnMutex(t) => now - blocked_at[t] <= inverted[t] + uncounted
  BY DEF WaitCounted
<1>5. /\ uncounted = IF mode \in {"isr", "dispatch"} THEN 1 ELSE 0
      /\ uncounted' = IF mode' \in {"isr", "dispatch"} THEN 1 ELSE 0
  BY DEF uncounted
<1>6. WaitCounted(t)' <=>
        /\ blocking'[t] <= inverted'[t]
        /\ OnMutex(t)' => now' - blocked_at'[t] <= inverted'[t] + uncounted'
  BY DEF WaitCounted
<1>7. CASE OnMutex(t) /\ ~OnMutex(t)'
  <2>1. mode = "quantum"
    BY <1>1, <1>7, WaitChanges DEF Grounds
  <2>2. blocking'[t] = AtLeast(blocking[t], now - blocked_at[t])
    BY <1>7, BlockingAfter
  <2> QED
    BY <1>2, <1>3, <1>4, <1>5, <1>6, <1>7, <2>1, <2>2 DEF AtLeast
<1>8. CASE ~OnMutex(t) /\ OnMutex(t)'
  <2>1. now' = now /\ mode' \in {"quantum", "tick"}
    BY <1>1, <1>8, WaitChanges DEF Grounds
  <2>2. blocked_at'[t] = now /\ blocking'[t] = blocking[t]
    BY <1>8, BlockingAfter
  <2> QED
    BY <1>2, <1>3, <1>4, <1>5, <1>6, <2>1, <2>2
<1>9. CASE ~OnMutex(t) /\ ~OnMutex(t)'
  BY <1>2, <1>3, <1>4, <1>6, <1>9, BlockingAfter
<1>10. CASE OnMutex(t) /\ OnMutex(t)'
  <2>1. blocked_at'[t] = blocked_at[t] /\ blocking'[t] = blocking[t]
    BY <1>10, BlockingAfter
  <2>2. PICK o \in Runnable : TRUE
    BY <1>10, ChainEndsRunnable
  <2>3. ASSUME NEW l \in Tasks, Dispatch(l)
        PROVE  /\ mode = "dispatch" /\ mode' = "quantum" /\ now' = now
               /\ inverted'[t] = inverted[t] + 1
    <3>1. /\ mode = "dispatch" /\ mode' = "quantum" /\ now' = now /\ running' = l
          /\ l \in Runnable
      BY <2>3, BestSubset DEF Dispatch, pick
    <3>2. blocked_on[l] = None
      BY <3>1, RunnableFacts DEF Grounds
    <3>3. l # t
      BY <1>10, <3>2, ReasonsDiffer DEF OnMutex
    <3>4. base_priority(l) < base_priority(t)
      BY <3>3 DEF MostUrgent
    <3> QED
      BY <1>10, <3>1, <3>4, InvertedAfter DEF Grounds
  <2>4. ~Idle
    BY <2>2 DEF Idle
  <2>5. \/ now' = now + 1 /\ mode = "tick" /\ mode' = "isr"
        \/ now' = now /\ mode' = mode
        \/ now' = now /\ mode = "isr" /\ mode' = "dispatch"
        \/ now' = now /\ mode = "quantum" /\ mode' = "tick"
        \/ /\ now' = now /\ mode = "dispatch" /\ mode' = "quantum"
           /\ inverted'[t] = inverted[t] + 1
    BY <1>1, <2>3, <2>4, TimeStep DEF Grounds
  <2> QED
    BY <1>2, <1>3, <1>4, <1>5, <1>6, <1>10, <2>1, <2>5
<1> QED
  BY <1>7, <1>8, <1>9, <1>10

LEMMA CountsInit == Init /\ HistoryInit => WaitsCounted
<1> SUFFICES ASSUME Init, HistoryInit, NEW t \in Tasks PROVE WaitCounted(t)
  BY DEF WaitsCounted
<1>1. ~OnMutex(t)
  BY ReasonsDiffer DEF Init, OnMutex
<1> QED
  BY <1>1 DEF HistoryInit, WaitCounted

LEMMA CountsStep ==
    ASSUME Grounds, SleepsOutside, HistoryTyped, WaitsCounted,
           [HistoryNext]_<<vars, historyVars>>
    PROVE  WaitsCounted'
<1>1. [Next]_vars
  BY NextOfHistory
<1>2. /\ Contained' <=> Contained
      /\ \A t \in Tasks : MostUrgent(t)' <=> MostUrgent(t)
  BY <1>1, SetupStays DEF MostUrgent
<1> QED
  BY <1>2, CountStep DEF WaitsCounted

-----------------------------------------------------------------------------
LEMMA InversionInvariants ==
    HistorySpec => [](Grounds /\ SleepsOutside /\ HistoryTyped /\ Paid /\ WaitsCounted)
<1> DEFINE Known == /\ TypeOK /\ Agreement /\ BlockedAtItsOperation /\ Sections /\ Standing
                    /\ JobLifecycle /\ InheritanceHolds
<1>1. HistorySpec => []Known
  BY HistoryFollows, TypeCorrect, AgreementCorrect, BlockedInPlace, SectionInvariant,
     StandingInvariant, JobsAccounted, InheritanceInvariant, PTL
<1>2. Known => Grounds /\ InheritanceHolds
  BY DEF Grounds
<1>3. Init /\ HistoryInit => SleepsOutside /\ HistoryTyped /\ Paid /\ WaitsCounted
  BY SleepInit, HistoryTypeInit, PaidInit, CountsInit
<1>4. Known /\ SleepsOutside /\ HistoryTyped /\ Paid /\ WaitsCounted
        /\ [HistoryNext]_<<vars, historyVars>>
        => SleepsOutside' /\ HistoryTyped' /\ Paid' /\ WaitsCounted'
  <2> SUFFICES ASSUME Grounds, InheritanceHolds, SleepsOutside, HistoryTyped, Paid,
                      WaitsCounted, [HistoryNext]_<<vars, historyVars>>
               PROVE  SleepsOutside' /\ HistoryTyped' /\ Paid' /\ WaitsCounted'
    BY <1>2
  <2>1. SleepsOutside'
    BY SleepStep, NextOfHistory
  <2>2. HistoryTyped'
    BY HistoryTypeStep DEF Grounds
  <2>3. Paid' /\ WaitsCounted'
    BY PaidStep, CountsStep
  <2> QED
    BY <2>1, <2>2, <2>3
<1> HIDE DEF Known
<1> QED
  BY <1>1, <1>2, <1>3, <1>4, PTL DEF HistorySpec

\* Priority inversion is bounded by the sections of the less urgent tasks, for
\* any number of tasks, mutexes and nested sections, and any work outside them.
THEOREM InversionIsBounded == HistorySpec => []InversionBounded
<1>1. Grounds /\ HistoryTyped /\ Paid => InversionBounded
  <2> SUFFICES ASSUME Grounds, HistoryTyped, Paid, Contained, NEW t \in Tasks
               PROVE  inverted[t] <= SumFunctionOnSet(SectionCosts, less_urgent(t))
    BY DEF InversionBounded, Contained, less_urgent
  <2>1. inverted[t] <= SumFunctionOnSet(accounts, less_urgent(t)) /\ inverted[t] \in Nat
    BY DEF Paid, HistoryTyped
  <2> QED
    BY <2>1, AccountsSum
<1> QED
  BY <1>1, InversionInvariants, PTL

\* The most urgent task is blocked on a mutex no longer than the sections of all
\* the others take.
THEOREM BlockingIsBounded == HistorySpec => []BlockingBounded
<1>1. Grounds /\ SleepsOutside /\ HistoryTyped /\ Paid /\ WaitsCounted => BlockingBounded
  <2> SUFFICES ASSUME Grounds, SleepsOutside, HistoryTyped, Paid, WaitsCounted, Contained,
                      NEW t \in Tasks, MostUrgent(t)
               PROVE  WorstBlocking(t) <= SumFunctionOnSet(SectionCosts, Tasks \ {t})
    BY DEF BlockingBounded, Contained, MostUrgent
  <2> DEFINE costs == SumFunctionOnSet(SectionCosts, less_urgent(t))
  <2>1. less_urgent(t) = Tasks \ {t}
    BY PrioritiesTyped DEF less_urgent, MostUrgent, Grounds
  <2>2. /\ inverted[t] \in Nat /\ blocking[t] \in Int /\ now \in Nat
        /\ IF OnMutex(t) THEN blocked_at[t] \in Nat ELSE blocked_at[t] = Never
    BY DEF HistoryTyped, Grounds, TypeOK, ControlTypeOK
  <2>3. /\ blocking[t] <= inverted[t]
        /\ OnMutex(t) => now - blocked_at[t] <= inverted[t] + uncounted
    BY DEF WaitsCounted, WaitCounted
  <2>4. /\ inverted[t] <= SumFunctionOnSet(accounts, less_urgent(t))
        /\ SumFunctionOnSet(accounts, less_urgent(t)) \in Int /\ costs \in Int
        /\ SumFunctionOnSet(accounts, less_urgent(t)) <= costs
        /\ (\E o \in less_urgent(t) : Reserved(o)) =>
             SumFunctionOnSet(accounts, less_urgent(t)) + 1 <= costs
    BY AccountsSum DEF Paid
  <2>5. OnMutex(t) /\ uncounted # 0 => \E o \in less_urgent(t) : Reserved(o)
    <3> SUFFICES ASSUME OnMutex(t), uncounted # 0
                 PROVE  \E o \in less_urgent(t) : Reserved(o)
      OBVIOUS
    <3>1. PICK o \in Tasks : InSection(o) /\ ~OnMutex(o)
      BY ChainEndsRunnable
    <3>2. ~InQuantum(o)
      BY DEF uncounted, InQuantum
    <3>3. o # t
      BY <3>1
    <3> QED
      BY <2>1, <3>1, <3>2, <3>3 DEF Reserved
  <2>6. uncounted \in {0, 1}
    BY DEF uncounted
  <2>7. WorstBlocking(t) <= costs
    <3>1. CASE ~OnMutex(t)
      <4>1. WorstBlocking(t) = blocking[t]
        BY <2>2, <3>1 DEF WorstBlocking
      <4> QED
        BY <2>2, <2>3, <2>4, <4>1
    <3>2. CASE OnMutex(t)
      <4>1. WorstBlocking(t) = AtLeast(blocking[t], now - blocked_at[t])
        BY <2>2, <3>2, NeverAssumption DEF WorstBlocking
      <4>2. inverted[t] + uncounted <= costs
        BY <2>2, <2>4, <2>5, <2>6, <3>2
      <4> QED
        BY <2>2, <2>3, <2>4, <2>6, <3>2, <4>1, <4>2 DEF AtLeast
    <3> QED
      BY <3>1, <3>2
  <2> QED
    BY <2>1, <2>7
<1> QED
  BY <1>1, InversionInvariants, PTL

-----------------------------------------------------------------------------
(***************************************************************************)
(* Blocking for one section: where sections do not nest, the most urgent   *)
(* task waits for the owner of its mutex and for nobody else.              *)
(***************************************************************************)
Brief == Contained /\ BriefSections

Boss(t) == base_priority(t) = 10

\* What the sections of one job of u cost.
section_cost(u) == SumFunction(section_work(u))

\* The quanta u has had for the sections of its current job.
spent(u) == account(u) - jobs_completed[u] * section_cost(u)

LEMMA BriefStays ==
    ASSUME [Next]_vars
    PROVE  /\ Brief' <=> Brief
           /\ \A u \in Tasks : /\ Boss(u)' <=> Boss(u)
                               /\ section_cost(u)' = section_cost(u)
<1>1. setup' = setup
  BY McuFrame
<1>2. \A u \in Tasks : /\ base_priority(u)' = base_priority(u)
                       /\ program(u)' = program(u)
                       /\ section_work(u)' = section_work(u)
  BY SetupStays
<1>3. \A u \in Tasks : \A i \in 1..Len(program(u)), m \in Mutexes :
         InsideAt(program(u), i - 1, m)' <=> InsideAt(program(u), i - 1, m)
  BY <1>1 DEF program, InsideAt
<1>4. Brief <=> /\ Contained
                /\ \A t \in Tasks : \A i \in 1..Len(program(t)), m \in Mutexes :
                     InsideAt(program(t), i - 1, m) => program(t)[i][1] # "Lock"
                /\ \A t \in Tasks : base_priority(t) = 10 =>
                     \A u \in Tasks \ {t} :
                        base_priority(u) < 10 /\ SumFunction(section_work(u)) <= LOCKSTORM_CS + 1
  BY DEF Brief, BriefSections, Contained, section_work
<1>5. Brief' <=> /\ Contained'
                 /\ \A t \in Tasks : \A i \in 1..Len(program(t)'), m \in Mutexes :
                      InsideAt(program(t), i - 1, m)' => program(t)'[i][1] # "Lock"
                 /\ \A t \in Tasks : base_priority(t)' = 10 =>
                      \A u \in Tasks \ {t} :
                         /\ base_priority(u)' < 10
                         /\ SumFunction(section_work(u)') <= LOCKSTORM_CS + 1
  BY DEF Brief, BriefSections, Contained, section_work
<1>6. Contained' <=> Contained
  BY SetupStays
<1> QED
  BY <1>2, <1>3, <1>4, <1>5, <1>6 DEF Boss, section_cost

\* In a section a task has spent less than a job's sections cost, and one quantum
\* less when it has one to come.
LEMMA SpentBounds ==
    ASSUME Grounds, NEW u \in Tasks, InSection(u)
    PROVE  /\ spent(u) \in Int /\ section_cost(u) \in Nat
           /\ 0 - 1 <= spent(u) /\ spent(u) <= section_cost(u)
           /\ Reserved(u) => spent(u) + 1 <= section_cost(u)
<1> DEFINE len == Len(program(u))
           c == section_work(u)
           p == pc[u]
           n == jobs_completed[u]
           total == section_cost(u)
           prefix == SumFunctionOnSet(c, 1..p)
<1>1. len \in Nat /\ p \in Nat /\ p <= len /\ n \in Nat /\ c \in [1..len -> Nat]
  BY Placement, SectionWorkTyped DEF section_work
<1>2. SectionCosts[u] = jobs_released[u] * total
  BY DEF SectionCosts, section_work, section_cost
<1>3. job_active[u]
  BY SectionOfJob
<1>4. jobs_released[u] = n + 1
  BY <1>3 DEF Grounds, JobLifecycle
<1>5. quanta_behind(u) = n * total + prefix
  BY DEF quanta_behind, Contribution, section_cost
<1>6. total = SumFunctionOnSet(c, 1..len)
  <2>1. DOMAIN c = 1..len
    BY <1>1
  <2> QED
    BY <2>1 DEF SumFunction, section_cost
<1>7. /\ account(u) \in Int /\ account(u) <= SectionCosts[u]
      /\ Reserved(u) => account(u) + 1 <= SectionCosts[u]
  BY AccountBelow
<1>8. account(u) = quanta_behind(u) + under_way(u) - (IF Reserved(u) THEN 1 ELSE 0)
  BY DEF account
<1>9. under_way(u) \in Nat
  BY UnderWay
<1>10. spent(u) = account(u) - n * total
  BY DEF spent
<1> HIDE DEF len, c, p, n, total, prefix
<1>11. prefix \in Nat /\ total \in Nat
  <2>1. SumFunctionOnSet(c, 1..p) \in Nat /\ SumFunctionOnSet(c, 1..len) \in Nat
    BY <1>1, PrefixSums
  <2> QED
    BY <1>6, <2>1 DEF prefix
<1>12. n * total \in Nat /\ (n + 1) * total = n * total + total
  BY <1>1, <1>11
<1>13. SectionCosts[u] = n * total + total
  BY <1>2, <1>4, <1>12
<1> QED
  BY <1>5, <1>7, <1>8, <1>9, <1>10, <1>11, <1>12, <1>13 DEF total

\* In a section that does not nest no task waits for a mutex.
LEMMA OwnersRun ==
    ASSUME Grounds, Brief, NEW u \in Tasks, InSection(u)
    PROVE  ~OnMutex(u)
<1> SUFFICES ASSUME OnMutex(u) PROVE FALSE
  OBVIOUS
<1>1. BlocksFor(u, blocked_on[u])
  BY ReasonsDiffer DEF Grounds, BlockedAtItsOperation, BlocksFor, OnMutex
<1>2. ~AtEnd(u) /\ current_op(u)[1] = "Lock"
  BY <1>1, ReasonsDiffer DEF BlocksFor, OnMutex
<1>3. Len(program(u)) \in Nat /\ pc[u] \in Nat /\ pc[u] < Len(program(u))
  BY <1>2, Placement
<1>4. pc[u] + 1 \in 1..Len(program(u)) /\ (pc[u] + 1) - 1 = pc[u]
  BY <1>3
<1>5. PICK m \in Mutexes : InsideAt(program(u), pc[u], m)
  BY DEF InSection, Inside
<1>6. program(u)[pc[u] + 1][1] # "Lock"
  BY <1>4, <1>5 DEF Brief, BriefSections
<1> QED
  BY <1>2, <1>6 DEF current_op

\* So a task that waits for a mutex keeps its own priority.
LEMMA WaitersAreNotBoosted ==
    ASSUME Grounds, Brief, InheritanceHolds, NEW w \in Tasks, OnMutex(w)
    PROVE  eff_priority[w] = base_priority(w)
<1>1. ~InSection(w)
  BY OwnersRun
<1>2. \A m \in Mutexes : owner[m] # w
  BY <1>1, InSectionOwns DEF Brief
<1>3. WaitersOf(w) = {}
  BY <1>2, WaitersAreBlocked DEF WaitersOf, Grounds, Agreement
<1>4. ExactFor(w)
  BY DEF InheritanceHolds, Brief, Contained
<1> QED
  BY <1>3, <1>4 DEF ExactFor

\* While the most urgent task waits, only the owner of its mutex runs: whoever
\* is as urgent has a waiter that is, and that is the task itself.
LEMMA OnlyTheOwnerRuns ==
    ASSUME Grounds, Brief, SleepsOutside, InheritanceHolds, [Next]_vars,
           NEW t \in Tasks, MostUrgent(t), OnMutex(t), NEW l \in Tasks, Dispatch(l)
    PROVE  WaitsOn(t, l)
<1>1. mode = "dispatch" /\ running' = l /\ mode' = "quantum" /\ l \in Runnable
  BY BestSubset DEF Dispatch, pick
<1>2. /\ base_priority(l) \in Int /\ eff_priority[l] \in Int
      /\ base_priority(t) \in Int
  BY PrioritiesTyped DEF Grounds
<1>3. blocked_on[l] = None
  BY <1>1, RunnableFacts DEF Grounds
<1>4. base_priority(l) < base_priority(t)
  <2>1. l # t
    BY <1>3, ReasonsDiffer DEF OnMutex
  <2> QED
    BY <2>1 DEF MostUrgent
<1>5. eff_priority[l] >= base_priority(t)
  <2>1. ChainFrom(t) \intersect Runnable # {}
    BY ChainEndsRunnable DEF Brief
  <2>2. NoMiddlingPick
    BY PickStep DEF Grounds
  <2> QED
    BY <1>1, <2>1, <2>2 DEF NoMiddlingPick, Brief, Contained
<1>6. ExactFor(l)
  BY DEF InheritanceHolds, Brief, Contained
<1>7. eff_priority[l] # base_priority(l)
  BY <1>2, <1>4, <1>5
<1>8. PICK w \in WaitersOf(l) : eff_priority[l] = eff_priority[w]
  BY <1>6, <1>7 DEF ExactFor
<1>9. w \in Tasks /\ WaitsOn(w, l)
  BY <1>8, WaitersAreBlocked DEF WaitersOf, WaitsOn, Grounds, Agreement
<1>10. OnMutex(w)
  BY <1>9 DEF WaitsOn, OnMutex
<1>11. eff_priority[w] = base_priority(w) /\ base_priority(w) \in Int
  BY <1>9, <1>10, WaitersAreNotBoosted, PrioritiesTyped DEF Grounds
<1>12. w = t
  BY <1>2, <1>5, <1>8, <1>9, <1>11 DEF MostUrgent
<1> QED
  BY <1>9, <1>12

\* A wait that goes on is a wait for the same owner, in the same job: were the
\* mutex handed over, it would be to the most urgent of its waiters.
LEMMA OwnerStays ==
    ASSUME Grounds, Grounds', Brief, InheritanceHolds, [Next]_vars,
           NEW t \in Tasks, MostUrgent(t), OnMutex(t), OnMutex(t)',
           NEW o \in Tasks, WaitsOn(t, o)'
    PROVE  WaitsOn(t, o) /\ jobs_completed'[o] = jobs_completed[o]
<1>1. PICK m \in Mutexes : blocked_on'[t] = <<"Mutex", m>> /\ owner'[m] = o
  BY DEF WaitsOn
<1>2. MutexConsistent /\ MutexConsistent'
  BY DEF Grounds, Agreement
<1>3. /\ waiters \in [Mutexes -> SUBSET Tasks]
      /\ owner \in [Mutexes -> Tasks \union {NoTask}]
      /\ NoTask \notin Tasks
  BY TasksAssumption DEF Grounds, TypeOK, MutexTypeOK
<1>4. t \in waiters'[m]
  BY <1>1, <1>2 DEF MutexConsistent
<1>5. PICK n \in Mutexes : blocked_on[t] = <<"Mutex", n>>
  BY DEF OnMutex
<1>6. t \in waiters[n] /\ ~is_free(n)
  BY <1>2, <1>5 DEF MutexConsistent
<1>7. t \in waiters[m] <=> m = n
  BY <1>2, <1>5 DEF MutexConsistent
<1>8. t \in waiters[m] /\ owner'[m] = owner[m]
  <2>1. ASSUME NEW u \in Tasks, NEW k \in Mutexes, Lock(u, k)
        PROVE  t \in waiters[m] /\ owner'[m] = owner[m]
    <3>1. is_free(k) /\ owner' = [owner EXCEPT ![k] = u] /\ waiters' = waiters
      BY <2>1 DEF Lock, try_acquire
    <3>2. k # m
      BY <1>4, <1>6, <1>7, <3>1
    <3> QED
      BY <1>3, <1>4, <3>1, <3>2
  <2>2. ASSUME NEW u \in Tasks, NEW k \in Mutexes, BlockOnMutex(u, k)
        PROVE  t \in waiters[m] /\ owner'[m] = owner[m]
    <3>1. /\ mode = "quantum" /\ running = u
          /\ waiters' = [waiters EXCEPT ![k] = @ \union {u}] /\ owner' = owner
      BY <2>2 DEF BlockOnMutex, add_waiter, Executing
    <3>2. blocked_on[u] = None
      BY <3>1 DEF Grounds, Agreement, SingleRunner
    <3>3. u # t
      BY <1>5, <3>2, ReasonsDiffer
    <3> QED
      BY <1>3, <1>4, <3>1, <3>3
  <2>3. ASSUME NEW u \in Tasks, NEW k \in Mutexes, Unlock(u, k)
        PROVE  t \in waiters[m] /\ owner'[m] = owner[m]
    <3>1. PICK next \in Tasks \union {NoTask} : release(k, u, eff_priority, next)
      BY <2>3 DEF Unlock
    <3>2. CASE UNCHANGED mutexVars
      BY <1>4, <3>2 DEF mutexVars
    <3>3. CASE /\ waiters[k] = {} /\ owner' = [owner EXCEPT ![k] = NoTask]
               /\ waiters' = waiters
      <4>1. t \in waiters[m]
        BY <1>4, <3>3
      <4> QED
        BY <1>3, <3>3, <4>1
    <3>4. CASE /\ next \in Best(waiters[k], eff_priority)
               /\ owner' = [owner EXCEPT ![k] = next]
               /\ waiters' = [waiters EXCEPT ![k] = @ \ {next}]
      <4>1. t \in waiters[m]
        BY <1>3, <1>4, <3>4
      <4>2. k # m
        <5> SUFFICES ASSUME k = m PROVE FALSE
          OBVIOUS
        <5>1. /\ next \in waiters[m]
              /\ eff_priority[next] > eff_priority[t] \/ eff_priority[next] = eff_priority[t]
          BY <3>4, <4>1 DEF Best
        <5>2. next # t
          BY <1>3, <1>4, <3>4
        <5>3. next \in Tasks /\ blocked_on[next] = <<"Mutex", m>>
          BY <1>2, <1>3, <5>1 DEF MutexConsistent
        <5>4. OnMutex(next)
          BY <5>3 DEF OnMutex
        <5>5. /\ eff_priority[next] = base_priority(next)
              /\ eff_priority[t] = base_priority(t)
          BY <5>3, <5>4, WaitersAreNotBoosted
        <5>6. base_priority(next) \in Int /\ base_priority(t) \in Int
          BY <5>3, PrioritiesTyped DEF Grounds
        <5>7. base_priority(next) < base_priority(t)
          BY <5>2, <5>3 DEF MostUrgent
        <5> QED
          BY <5>1, <5>5, <5>6, <5>7
      <4> QED
        BY <1>3, <3>4, <4>1, <4>2
    <3> QED
      BY <3>1, <3>2, <3>3, <3>4 DEF release
  <2> QED
    BY <1>4, <2>1, <2>2, <2>3, MutexFrame DEF mutexVars
<1>9. WaitsOn(t, o)
  BY <1>1, <1>5, <1>7, <1>8 DEF WaitsOn
<1>10. InSection(o)'
  <2>1. LockOrder'
    <3>1. Contained'
      BY SetupStays DEF Brief
    <3> QED
      BY <3>1 DEF LockOrder, Contained, SectionsContained
  <2>2. OwnsWell(o, m)'
    BY DEF Grounds, Sections
  <2> QED
    BY <1>1, <2>1, <2>2 DEF OwnsWell, InSection, Inside
<1>11. pc'[o] # 0
  BY <1>10 DEF InSection, Inside, InsideAt
<1>12. GoesOn(o)
  BY GoesOnStep DEF Grounds
<1>13. jobs_completed'[o] = jobs_completed[o]
  BY <1>11, <1>12 DEF GoesOn, Rests, Begins, EndsIdly, GoesPast, DoesWork, WorksOn, WorksOff
<1> QED
  BY <1>9, <1>13

\* The ticks of a wait are quanta its owner has had for its section, the start of
\* the wait and a tick not yet counted included.
Handled(t) ==
    /\ blocking[t] <= LOCKSTORM_CS + 2
    /\ \A o \in Tasks : WaitsOn(t, o) => now - blocked_at[t] <= spent(o) + 1 + uncounted

\* What a task in a section has spent of it, a reserved quantum taken off.
SpentKnown == \A u \in Tasks : InSection(u) => spent(u) \in Int /\ 0 - 1 <= spent(u)

BossHandled == Brief => \A t \in Tasks : Boss(t) => Handled(t)

LEMMA BossIsMostUrgent ==
    ASSUME Grounds, Brief, NEW t \in Tasks, Boss(t)
    PROVE  /\ MostUrgent(t)
           /\ \A u \in Tasks \ {t} : section_cost(u) <= LOCKSTORM_CS + 1
BY DEF Brief, BriefSections, Boss, MostUrgent, section_cost, section_work

\* What a wait comes to, counted in the quanta of the owner.
LEMMA WaitIsShort ==
    ASSUME Grounds, Brief, SleepsOutside, HistoryTyped, NEW t \in Tasks, Boss(t), Handled(t),
           OnMutex(t)
    PROVE  now - blocked_at[t] <= LOCKSTORM_CS + 2
<1>1. PICK o \in Owners : WaitsOn(t, o)
  BY BlockedBehind
<1>2. o \in Tasks /\ InSection(o)
  <2>1. o \in Tasks
    BY DEF Owners
  <2> QED
    BY <2>1, InSectionOwns DEF Owners, Brief
<1>3. ~OnMutex(o)
  BY <1>2, OwnersRun
<1>4. section_cost(o) <= LOCKSTORM_CS + 1
  BY <1>2, <1>3, BossIsMostUrgent
<1>5. /\ spent(o) \in Int /\ section_cost(o) \in Nat /\ spent(o) <= section_cost(o)
      /\ Reserved(o) => spent(o) + 1 <= section_cost(o)
  BY <1>2, SpentBounds
<1>6. uncounted \in {0, 1} /\ (uncounted = 1 => Reserved(o))
  BY <1>2, <1>3 DEF uncounted, Reserved, InQuantum
<1>7. now - blocked_at[t] <= spent(o) + 1 + uncounted
  BY <1>1, <1>2 DEF Handled
<1>8. now \in Nat /\ blocked_at[t] \in Nat
  BY DEF HistoryTyped, Grounds, TypeOK, ControlTypeOK
<1> QED
  BY <1>4, <1>5, <1>6, <1>7, <1>8 DEF LOCKSTORM_CS

LEMMA HandledInit == Init /\ HistoryInit => BossHandled
<1> SUFFICES ASSUME Init, HistoryInit, NEW t \in Tasks PROVE Handled(t)
  BY DEF BossHandled
<1>1. \A o \in Tasks : ~WaitsOn(t, o)
  BY ReasonsDiffer DEF Init, WaitsOn
<1> QED
  BY <1>1 DEF HistoryInit, Handled, LOCKSTORM_CS

LEMMA HandledStep ==
    ASSUME Grounds, Grounds', SpentKnown', Brief, SleepsOutside, InheritanceHolds,
           HistoryTyped, [HistoryNext]_<<vars, historyVars>>,
           NEW t \in Tasks, Boss(t), Handled(t)
    PROVE  Handled(t)'
<1>1. [Next]_vars
  BY NextOfHistory
<1>2. MostUrgent(t)
  BY BossIsMostUrgent
<1>3. /\ blocking[t] \in Int /\ now \in Nat
      /\ IF OnMutex(t) THEN blocked_at[t] \in Nat ELSE blocked_at[t] = Never
  BY DEF HistoryTyped, Grounds, TypeOK, ControlTypeOK
<1>4. blocking[t] <= LOCKSTORM_CS + 2
  BY DEF Handled
<1>5. blocking'[t] <= LOCKSTORM_CS + 2
  <2>1. CASE OnMutex(t) /\ ~OnMutex(t)'
    <3>1. blocking'[t] = AtLeast(blocking[t], now - blocked_at[t])
      BY <2>1, BlockingAfter
    <3>2. now - blocked_at[t] <= LOCKSTORM_CS + 2
      BY <2>1, WaitIsShort
    <3> QED
      BY <1>4, <3>1, <3>2 DEF AtLeast
  <2>2. CASE ~(OnMutex(t) /\ ~OnMutex(t)')
    <3>1. OnMutex(t) \in BOOLEAN /\ OnMutex(t)' \in BOOLEAN
      BY DEF OnMutex
    <3>2. blocking'[t] = blocking[t]
      BY <2>2, <3>1, BlockingAfter
    <3> QED
      BY <1>4, <3>2
  <2> QED
    BY <2>1, <2>2
<1>6. /\ uncounted = IF mode \in {"isr", "dispatch"} THEN 1 ELSE 0
      /\ uncounted' = IF mode' \in {"isr", "dispatch"} THEN 1 ELSE 0
  BY DEF uncounted
<1>7. ASSUME NEW o \in Tasks, WaitsOn(t, o)'
      PROVE  now' - blocked_at'[t] <= spent(o)' + 1 + uncounted'
  <2>1. OnMutex(t)'
    BY <1>7 DEF WaitsOn, OnMutex
  <2>2. InSection(o)'
    <3>1. PICK m \in Mutexes : owner'[m] = o
      BY <1>7 DEF WaitsOn
    <3>2. LockOrder'
      <4>1. Contained'
        BY <1>1, SetupStays DEF Brief
      <4> QED
        BY <4>1 DEF LockOrder, Contained, SectionsContained
    <3>3. OwnsWell(o, m)'
      BY DEF Grounds, Sections
    <3> QED
      BY <3>1, <3>2, <3>3 DEF OwnsWell, InSection, Inside
  <2>3. CASE ~OnMutex(t)
    <3>1. now' = now /\ mode' \in {"quantum", "tick"}
      BY <1>1, <2>1, <2>3, WaitChanges DEF Grounds
    <3>2. blocked_at'[t] = now
      BY <2>1, <2>3, BlockingAfter
    <3>3. spent(o)' \in Int /\ 0 - 1 <= spent(o)'
      BY <2>2 DEF SpentKnown
    <3> QED
      BY <1>3, <1>6, <3>1, <3>2, <3>3
  <2>4. CASE OnMutex(t)
    <3>1. WaitsOn(t, o) /\ jobs_completed'[o] = jobs_completed[o]
      BY <1>1, <1>2, <1>7, <2>1, <2>4, OwnerStays
    <3>2. now - blocked_at[t] <= spent(o) + 1 + uncounted
      BY <3>1 DEF Handled
    <3>3. blocked_at'[t] = blocked_at[t] /\ blocked_at[t] \in Nat
      BY <1>3, <2>1, <2>4, BlockingAfter
    <3>4. account(o) \in Int /\ account(o)' \in Int /\ account(o) <= account(o)'
      BY <1>1, AccountStep DEF Brief
    <3>5. InSection(o)
      <4>1. \E m \in Mutexes : owner[m] = o
        BY <3>1 DEF WaitsOn
      <4> QED
        BY <4>1, InSectionOwns DEF Brief
    <3>6. section_cost(o) \in Nat /\ section_cost(o)' = section_cost(o)
      BY <1>1, <3>5, SpentBounds, BriefStays
    <3>7. /\ spent(o) = account(o) - jobs_completed[o] * section_cost(o)
          /\ spent(o)' = account(o)' - jobs_completed[o] * section_cost(o)
      BY <3>1, <3>6 DEF spent
    <3>8. jobs_completed[o] * section_cost(o) \in Nat
      <4>1. jobs_completed[o] \in Nat
        BY Placement
      <4> QED
        BY <3>6, <4>1
    <3>9. ASSUME NEW l \in Tasks, Dispatch(l)
          PROVE  /\ mode = "dispatch" /\ mode' = "quantum" /\ now' = now
                 /\ account(o) + 1 <= account(o)'
      <4>1. /\ mode = "dispatch" /\ mode' = "quantum" /\ now' = now /\ running' = l
            /\ l \in Runnable
        BY <3>9, BestSubset DEF Dispatch, pick
      <4>2. WaitsOn(t, l)
        BY <1>1, <1>2, <2>4, <3>9, OnlyTheOwnerRuns
      <4>3. l = o
        BY <3>1, <4>2, ReasonsDiffer DEF WaitsOn
      <4>4. base_priority(running') < base_priority(t)
        <5>1. blocked_on[l] = None
          BY <4>1, RunnableFacts DEF Grounds
        <5>2. l # t
          BY <2>4, <5>1, ReasonsDiffer DEF OnMutex
        <5> QED
          BY <1>2, <4>1, <5>2 DEF MostUrgent
      <4>5. PICK k \in Tasks : running' = k /\ account(k) + 1 <= account(k)'
        BY <1>1, <2>4, <4>1, <4>4, InversionIsSpent DEF Brief
      <4> QED
        BY <4>1, <4>3, <4>5
    <3>10. ~Idle
      <4>1. Runnable # {}
        BY <2>4, ChainEndsRunnable DEF Brief
      <4> QED
        BY <4>1 DEF Idle
    <3>11. \/ now' = now + 1 /\ mode = "tick" /\ mode' = "isr"
           \/ now' = now /\ mode' = mode
           \/ now' = now /\ mode = "isr" /\ mode' = "dispatch"
           \/ now' = now /\ mode = "quantum" /\ mode' = "tick"
           \/ /\ now' = now /\ mode = "dispatch" /\ mode' = "quantum"
              /\ account(o) + 1 <= account(o)'
      BY <1>1, <3>9, <3>10, TimeStep DEF Grounds
    <3> DEFINE past == jobs_completed[o] * section_cost(o)
    <3> HIDE DEF past
    <3>12. /\ spent(o) = account(o) - past /\ spent(o)' = account(o)' - past
           /\ past \in Nat
      BY <3>7, <3>8 DEF past
    <3> QED
      BY <1>3, <1>6, <3>2, <3>3, <3>4, <3>11, <3>12
  <2> QED
    BY <2>3, <2>4
<1> QED
  BY <1>5, <1>7 DEF Handled

\* The boss of a scenario like the lockstorm is blocked for the section of one
\* holder and a hand-over, for any number of holders, hogs, mutexes and jobs.
THEOREM BossIsBlockedBriefly ==
    HistorySpec => [](BriefSections => BossBlockingBounded)
<1> DEFINE Known == Grounds /\ InheritanceHolds /\ SleepsOutside /\ HistoryTyped
<1>1. HistorySpec => []Known
  <2>1. HistorySpec => []InheritanceHolds
    BY HistoryFollows, InheritanceInvariant, PTL
  <2> QED
    BY <2>1, InversionInvariants, PTL
<1>2. Known => SpentKnown
  BY SpentBounds DEF SpentKnown
<1>3. Known /\ Known' /\ SpentKnown' /\ BossHandled /\ [HistoryNext]_<<vars, historyVars>>
        => BossHandled'
  <2> SUFFICES ASSUME Known, Known', SpentKnown', BossHandled,
                      [HistoryNext]_<<vars, historyVars>>, Brief', NEW t \in Tasks, Boss(t)'
               PROVE  Handled(t)'
    BY DEF BossHandled
  <2>1. Brief /\ Boss(t)
    BY BriefStays, NextOfHistory
  <2>2. Handled(t)
    BY <2>1 DEF BossHandled
  <2> QED
    BY <2>1, <2>2, HandledStep
<1>4. Known /\ BossHandled /\ BriefSections => BossBlockingBounded
  <2> SUFFICES ASSUME Known, BossHandled, BriefSections, setup.priority_inheritance,
                      NEW t \in Tasks, Boss(t)
               PROVE  WorstBlocking(t) <= LOCKSTORM_CS + 2
    BY DEF BossBlockingBounded, Boss
  <2>1. Brief
    BY DEF Brief, Contained, BriefSections
  <2>2. Handled(t)
    BY <2>1 DEF BossHandled
  <2>3. blocking[t] <= LOCKSTORM_CS + 2
    BY <2>2 DEF Handled
  <2>4. IF OnMutex(t) THEN blocked_at[t] \in Nat ELSE blocked_at[t] = Never
    BY DEF HistoryTyped
  <2>5. OnMutex(t) => now - blocked_at[t] <= LOCKSTORM_CS + 2
    BY <2>1, <2>2, WaitIsShort
  <2> QED
    BY <2>3, <2>4, <2>5 DEF WorstBlocking, AtLeast
<1> HIDE DEF Known
<1> QED
  BY <1>1, <1>2, <1>3, <1>4, HandledInit, PTL DEF HistorySpec
=============================================================================
