---------------------------- MODULE KernelProofs ----------------------------
(***************************************************************************)
(* Theorems about the kernel, for every value of the constants: any number *)
(* of tasks and objects, any programs, any setups and any horizon.         *)
(***************************************************************************)
EXTENDS KernelInvariants, FiniteSetTheorems, TLAPS

-----------------------------------------------------------------------------
(***************************************************************************)
(* Lemmas about the task model and the components.                         *)
(***************************************************************************)

\* The operation a task stands at is one of the operations of the model.
LEMMA CurrentOpTyped ==
    ASSUME setup \in Setup, NEW t \in Tasks, pc[t] \in Nat, ~AtEnd(t)
    PROVE  current_op(t) \in Op
BY DEF Setup, AtEnd, current_op, program

\* A Compute or a Delay carries a natural number.
LEMMA DurationTyped ==
    ASSUME NEW op \in Op, op[1] \in {"Compute", "Delay"}
    PROVE  op[2] \in Nat
BY DEF Op

\* The arguments of the other operations that change the hardware or a queue.
LEMMA ArgumentsTyped ==
    ASSUME NEW op \in Op
    PROVE  /\ op[1] = "QueueSend" => op[3] \in Values
           /\ op[1] = "GpioSet" => op[3] \in BOOLEAN
           /\ op[1] = "Uart" => op[2] \in Texts
BY DEF Op

\* A choice by priority stays among those it chooses from.
LEMMA BestSubset ==
    ASSUME NEW S, NEW prio, NEW w \in Best(S, prio)
    PROVE  w \in S
BY DEF Best

-----------------------------------------------------------------------------
(***************************************************************************)
(* Which actions change which variables.                                   *)
(***************************************************************************)

\* Mutexes and priorities change only in Lock and Unlock operations.
LEMMA MutexFrame ==
    ASSUME [Next]_vars
    PROVE  \/ UNCHANGED <<mutexVars, lockVars>>
           \/ \E t \in Tasks, m \in Mutexes : Lock(t, m) \/ BlockOnMutex(t, m) \/ Unlock(t, m)
BY DEF Next, RunQuantum, Tick, ServiceInterrupts, Idle, Dispatch, EndOfProgram, Compute,
       Delay, Peripheral, SemWait, SemSignal, QueueSend, QueueRecv, Finished, vars, syncVars,
       opVars

\* Semaphores change only in their own operations.
LEMMA SemFrame ==
    ASSUME [Next]_vars
    PROVE  \/ UNCHANGED semVars
           \/ \E t \in Tasks, s \in Semaphores : SemWait(t, s) \/ SemSignal(t, s)
BY DEF Next, RunQuantum, Tick, ServiceInterrupts, Idle, Dispatch, EndOfProgram, Compute,
       Delay, Peripheral, Lock, BlockOnMutex, Unlock, QueueSend, QueueRecv, Finished, vars,
       syncVars

\* Queues change only in their own operations.
LEMMA QueueFrame ==
    ASSUME [Next]_vars
    PROVE  \/ UNCHANGED queueVars
           \/ \E t \in Tasks, q \in Queues : QueueSend(t, q) \/ QueueRecv(t, q)
BY DEF Next, RunQuantum, Tick, ServiceInterrupts, Idle, Dispatch, EndOfProgram, Compute,
       Delay, Peripheral, SemWait, SemSignal, Lock, BlockOnMutex, Unlock, Finished, vars,
       syncVars

\* Jobs change only when the tick interrupt releases them and when they end.
LEMMA JobFrame ==
    ASSUME [Next]_vars
    PROVE  \/ UNCHANGED jobVars
           \/ ServiceInterrupts
           \/ \E t \in Tasks : EndOfProgram(t) \/ Compute(t)
BY DEF Next, RunQuantum, Tick, Idle, Dispatch, Delay, Peripheral, SemWait, SemSignal, Lock,
       BlockOnMutex, Unlock, QueueSend, QueueRecv, Finished, vars, opVars

\* The setup never changes; the hardware changes only in a tick, in the
\* interrupt and in peripheral writes.
LEMMA McuFrame ==
    ASSUME [Next]_vars
    PROVE  /\ UNCHANGED setup
           /\ \/ UNCHANGED mcuVars
              \/ Tick
              \/ ServiceInterrupts
              \/ \E t \in Tasks : Peripheral(t)
<1>1. CASE UNCHANGED vars
  BY <1>1 DEF vars, mcuVars
<1>2. CASE Tick \/ ServiceInterrupts \/ Idle \/ Finished \/ \E t \in Tasks : Dispatch(t)
  BY <1>2 DEF Tick, ServiceInterrupts, Idle, Finished, Dispatch, vars, mcuVars
<1>3. ASSUME NEW t \in Tasks, RunQuantum(t)
      PROVE  UNCHANGED setup /\ (UNCHANGED mcuVars \/ Peripheral(t))
  BY <1>3 DEF RunQuantum, EndOfProgram, Compute, Delay, Peripheral, SemWait, SemSignal, Lock,
     BlockOnMutex, Unlock, QueueSend, QueueRecv, quantumFrame, mcuVars, timerVars, portVars
<1> QED
  BY <1>1, <1>2, <1>3 DEF Next

-----------------------------------------------------------------------------
(***************************************************************************)
(* Type correctness.                                                       *)
(***************************************************************************)
LEMMA TypeInit == Init => TypeOK
<1> SUFFICES ASSUME Init PROVE TypeOK
  OBVIOUS
<1>1. setup \in Setup
  BY SetupsAssumption DEF Init
<1>2. MutexTypeOK
  BY DEF Init, MutexInit, MutexTypeOK
<1>3. SemTypeOK
  BY <1>1 DEF Init, SemInit, SemTypeOK, Setup, AtMost, sem_max
<1>4. QueueTypeOK
  BY DEF Init, QueueInit, QueueTypeOK
<1>5. McuTypeOK
  BY <1>1 DEF Init, McuInit, McuTypeOK, Setup, AtLeast, reload
<1>6. TaskTypeOK
  BY DEF Init, TaskTypeOK, TaskState, BlockReason
<1>7. PriorityTypeOK
  BY <1>1 DEF Init, PriorityTypeOK, Setup, base_priority
<1>8. JobTypeOK
  BY <1>1 DEF Init, JobTypeOK, Setup
<1>9. ControlTypeOK
  BY DEF Init, ControlTypeOK
<1> QED
  BY <1>1, <1>2, <1>3, <1>4, <1>5, <1>6, <1>7, <1>8, <1>9 DEF TypeOK

\* Lock, block and the hand-off keep owners and wait lists among the tasks.
LEMMA MutexTypeStep == TypeOK /\ [Next]_vars => MutexTypeOK'
<1> SUFFICES ASSUME TypeOK, [Next]_vars PROVE MutexTypeOK'
  OBVIOUS
<1> USE DEF TypeOK, MutexTypeOK
<1>1. CASE UNCHANGED <<mutexVars, lockVars>>
  BY <1>1 DEF mutexVars
<1>2. ASSUME NEW t \in Tasks, NEW m \in Mutexes, Lock(t, m) PROVE MutexTypeOK'
  BY <1>2 DEF Lock, try_acquire
<1>3. ASSUME NEW t \in Tasks, NEW m \in Mutexes, BlockOnMutex(t, m) PROVE MutexTypeOK'
  BY <1>3 DEF BlockOnMutex, add_waiter
<1>4. ASSUME NEW t \in Tasks, NEW m \in Mutexes, Unlock(t, m) PROVE MutexTypeOK'
  BY <1>4, BestSubset DEF Unlock, release, mutexVars
<1> QED
  BY <1>1, <1>2, <1>3, <1>4, MutexFrame

LEMMA SemTypeStep == TypeOK /\ [Next]_vars => SemTypeOK'
<1> SUFFICES ASSUME TypeOK, [Next]_vars PROVE SemTypeOK'
  OBVIOUS
<1> USE DEF TypeOK, SemTypeOK
<1>1. CASE UNCHANGED semVars
  BY <1>1 DEF semVars
<1>2. ASSUME NEW t \in Tasks, NEW s \in Semaphores, SemWait(t, s) PROVE SemTypeOK'
  BY <1>2 DEF SemWait, try_wait, sem_add_waiter
<1>3. ASSUME NEW t \in Tasks, NEW s \in Semaphores, SemSignal(t, s) PROVE SemTypeOK'
  BY <1>3 DEF SemSignal, signal
<1> QED
  BY <1>1, <1>2, <1>3, SemFrame

LEMMA QueueTypeStep == TypeOK /\ [Next]_vars => QueueTypeOK'
<1> SUFFICES ASSUME TypeOK, [Next]_vars PROVE QueueTypeOK'
  OBVIOUS
<1> USE DEF TypeOK, QueueTypeOK
<1>1. CASE UNCHANGED queueVars
  BY <1>1 DEF queueVars
<1>2. ASSUME NEW t \in Tasks, NEW q \in Queues, QueueSend(t, q) PROVE QueueTypeOK'
  <2>1. current_op(t)[3] \in Values
    <3>1. current_op(t) \in Op
      BY <1>2, CurrentOpTyped DEF QueueSend, Executing, TaskTypeOK
    <3> QED
      BY <1>2, <3>1, ArgumentsTyped DEF QueueSend
  <2>2. CASE is_full(q)
    <3>1. /\ send_waiters' = [send_waiters EXCEPT ![q] = @ \union {t}]
          /\ UNCHANGED <<buf, recv_waiters, sent, received>>
      BY <1>2, <2>2 DEF QueueSend, try_send
    <3> QED
      BY <3>1
  <2>3. CASE ~is_full(q)
    <3>1. /\ try_send(q, current_op(t)[3])
          /\ \E r \in Tasks \union {NoTask} : wake_receiver(q, eff_priority, r)
      BY <1>2, <2>3 DEF QueueSend
    <3>2. (buf \in [Queues -> Seq(Values)])'
      BY <2>1, <3>1 DEF try_send
    <3>3. (sent \in [Queues -> Nat] /\ received \in [Queues -> Nat])'
      BY <3>1 DEF try_send
    <3>4. (recv_waiters \in [Queues -> SUBSET Tasks])'
      BY <3>1 DEF wake_receiver
    <3>5. (send_waiters \in [Queues -> SUBSET Tasks])'
      BY <3>1 DEF wake_receiver
    <3> QED
      BY <3>2, <3>3, <3>4, <3>5
  <2> QED
    BY <2>2, <2>3
<1>3. ASSUME NEW t \in Tasks, NEW q \in Queues, QueueRecv(t, q) PROVE QueueTypeOK'
  <2>1. CASE is_empty(q)
    BY <1>3, <2>1 DEF QueueRecv, try_recv
  <2>2. CASE ~is_empty(q)
    <3>1. /\ try_recv(q)
          /\ \E s \in Tasks \union {NoTask} : wake_sender(q, eff_priority, s)
      BY <1>3, <2>2 DEF QueueRecv
    <3>2. (buf \in [Queues -> Seq(Values)])'
      BY <2>2, <3>1 DEF try_recv, is_empty
    <3>3. (sent \in [Queues -> Nat] /\ received \in [Queues -> Nat])'
      BY <3>1 DEF try_recv
    <3>4. (recv_waiters \in [Queues -> SUBSET Tasks])'
      BY <3>1 DEF wake_sender
    <3>5. (send_waiters \in [Queues -> SUBSET Tasks])'
      BY <3>1 DEF wake_sender
    <3> QED
      BY <3>2, <3>3, <3>4, <3>5
  <2> QED
    BY <2>1, <2>2
<1> QED
  BY <1>1, <1>2, <1>3, QueueFrame

LEMMA McuTypeStep == TypeOK /\ [Next]_vars => McuTypeOK'
<1> SUFFICES ASSUME TypeOK, [Next]_vars PROVE McuTypeOK'
  OBVIOUS
<1> USE DEF TypeOK, McuTypeOK
<1>0. reload \in Nat /\ reload >= 1 /\ reload' = reload
  BY McuFrame DEF reload, AtLeast, Setup
<1>1. CASE UNCHANGED mcuVars
  BY <1>0, <1>1 DEF mcuVars
<1>2. CASE Tick
  <2>1. cycle
    BY <1>2 DEF Tick
  <2>2. (counter \in 1..reload)'
    BY <1>0, <2>1 DEF cycle
  <2>3. (pending \in SUBSET Irq)'
    BY <2>1 DEF cycle, raise, Irq
  <2>4. (fired \in Nat /\ serviced \in Nat)'
    BY <2>1 DEF cycle
  <2>5. (pins \in [Pins -> BOOLEAN] /\ tx \in Seq(Texts))'
    BY <2>1 DEF cycle, Pins
  <2> QED
    BY <2>2, <2>3, <2>4, <2>5
<1>3. CASE ServiceInterrupts
  <2>1. Cardinality(pending) \in Nat
    <3>1. IsFiniteSet(Irq)
      <4>1. IsFiniteSet({"Timer"}) /\ IsFiniteSet({"Uart"}) /\ IsFiniteSet({"Gpio"})
        BY FS_Singleton
      <4>2. IsFiniteSet({"Timer"} \union {"Uart"})
        BY <4>1, FS_Union
      <4>3. IsFiniteSet(({"Timer"} \union {"Uart"}) \union {"Gpio"})
        BY <4>1, <4>2, FS_Union
      <4>4. Irq = ({"Timer"} \union {"Uart"}) \union {"Gpio"}
        BY DEF Irq
      <4> QED
        BY <4>3, <4>4
    <3> QED
      BY <3>1, FS_Subset, FS_CardinalityType
  <2> QED
    BY <1>0, <1>3, <2>1 DEF ServiceInterrupts, take_pending
<1>4. ASSUME NEW t \in Tasks, Peripheral(t) PROVE McuTypeOK'
  <2>1. /\ current_op(t)[1] = "GpioSet" => current_op(t)[3] \in BOOLEAN
        /\ current_op(t)[1] = "Uart" => current_op(t)[2] \in Texts
    <3>1. current_op(t) \in Op
      BY <1>4, CurrentOpTyped DEF Peripheral, Executing, TaskTypeOK
    <3> QED
      BY <3>1, ArgumentsTyped
  <2>2. UNCHANGED timerVars
    BY <1>4 DEF Peripheral, quantumFrame
  <2>3. (pins \in [Pins -> BOOLEAN])'
    BY <1>4, <2>1 DEF Peripheral, gpio_set, gpio_toggle, uart_write, Pins
  <2>4. (tx \in Seq(Texts))'
    BY <1>4, <2>1 DEF Peripheral, gpio_set, gpio_toggle, uart_write
  <2> QED
    BY <1>0, <2>2, <2>3, <2>4 DEF timerVars
<1> QED
  BY <1>1, <1>2, <1>3, <1>4, McuFrame

LEMMA JobTypeStep == TypeOK /\ [Next]_vars => JobTypeOK'
<1> SUFFICES ASSUME TypeOK, [Next]_vars PROVE JobTypeOK'
  OBVIOUS
<1> USE DEF TypeOK, JobTypeOK
<1>1. CASE UNCHANGED jobVars
  BY <1>1 DEF jobVars
<1>2. CASE ServiceInterrupts
  <2>1. CASE "Timer" \in pending
    <3>1. on_tick /\ now \in Nat
      BY <1>2, <2>1 DEF ServiceInterrupts, ControlTypeOK
    <3>2. \A t \in Tasks : period(t) \in Nat \union {Never}
      BY DEF period, Setup
    <3>3. (deadline \in [Tasks -> Nat \union {Never}])'
      BY <3>1, <3>2 DEF on_tick
    <3>4. (next_release \in [Tasks -> Nat \union {Never}])'
      BY <3>1, <3>2 DEF on_tick, following_release, Due
    <3>5. (job_active \in [Tasks -> BOOLEAN] /\ missed_current \in [Tasks -> BOOLEAN])'
      BY <3>1 DEF on_tick
    <3>6. /\ (jobs_released \in [Tasks -> Nat])'
          /\ (jobs_completed \in [Tasks -> Nat])'
          /\ (deadlines_missed \in [Tasks -> Nat])'
      BY <3>1 DEF on_tick
    <3> QED
      BY <3>3, <3>4, <3>5, <3>6
  <2>2. CASE "Timer" \notin pending
    BY <1>2, <2>2 DEF ServiceInterrupts, jobVars
  <2> QED
    BY <2>1, <2>2
<1>3. ASSUME NEW t \in Tasks, EndOfProgram(t) PROVE JobTypeOK'
  BY <1>3 DEF EndOfProgram, complete_job
<1>4. ASSUME NEW t \in Tasks, Compute(t) PROVE JobTypeOK'
  <2>1. CASE UNCHANGED jobVars
    BY <2>1 DEF jobVars
  <2>2. CASE complete_job(t)
    BY <2>2 DEF complete_job
  <2> QED
    BY <1>4, <2>1, <2>2 DEF Compute
<1> QED
  BY <1>1, <1>2, <1>3, <1>4, JobFrame

LEMMA PriorityTypeStep == TypeOK /\ [Next]_vars => PriorityTypeOK'
<1> SUFFICES ASSUME TypeOK, [Next]_vars PROVE PriorityTypeOK'
  OBVIOUS
<1> USE DEF TypeOK, PriorityTypeOK
<1>1. CASE UNCHANGED <<mutexVars, lockVars>>
  BY <1>1 DEF lockVars
<1>2. ASSUME NEW t \in Tasks, NEW m \in Mutexes, Lock(t, m) PROVE PriorityTypeOK'
  BY <1>2 DEF Lock
<1>3. ASSUME NEW t \in Tasks, NEW m \in Mutexes, BlockOnMutex(t, m) PROVE PriorityTypeOK'
  BY <1>3 DEF BlockOnMutex, apply_inheritance
<1>4. ASSUME NEW t \in Tasks, NEW m \in Mutexes, Unlock(t, m) PROVE PriorityTypeOK'
  <2>1. (held_mutexes \in [Tasks -> SUBSET Mutexes])'
    BY <1>4 DEF Unlock
  <2>2. CASE UNCHANGED eff_priority
    BY <2>1, <2>2
  <2>3. ASSUME NEW next \in Tasks \union {NoTask}, Restore(t, next) PROVE PriorityTypeOK'
    <3>1. \A h \in Tasks : \A held : \A eff \in [Tasks -> Priority] :
             recompute_holder(h, held, eff) \subseteq Priority
      BY DEF recompute_holder, Claims, base_priority, Setup
    <3>2. PICK p \in recompute_holder(t, held_mutexes'[t], eff_priority) :
             LET eff == [eff_priority EXCEPT ![t] = p]
             IN  IF next = NoTask
                 THEN eff_priority' = eff
                 ELSE \E r \in recompute_holder(next, held_mutexes'[next], eff) :
                          eff_priority' = [eff EXCEPT ![next] = r]
      BY <2>3 DEF Restore
    <3> DEFINE eff == [eff_priority EXCEPT ![t] = p]
    <3>3. eff \in [Tasks -> Priority]
      BY <3>1, <3>2
    <3>4. CASE next = NoTask
      BY <2>1, <3>2, <3>3, <3>4
    <3>5. CASE next # NoTask
      <4>1. PICK r \in recompute_holder(next, held_mutexes'[next], eff) :
               eff_priority' = [eff EXCEPT ![next] = r]
        BY <3>2, <3>5
      <4>2. r \in Priority
        BY <3>1, <3>3, <3>5, <4>1
      <4> QED
        BY <2>1, <3>3, <4>1, <4>2
    <3> QED
      BY <3>4, <3>5
  <2> QED
    BY <1>4, <2>2, <2>3 DEF Unlock
<1> QED
  BY <1>1, <1>2, <1>3, <1>4, MutexFrame

\* Every operation leaves each task in a proper state, blocked for a proper
\* reason, and at a natural position.
LEMMA TaskTypeStep == TypeOK /\ [Next]_vars => TaskTypeOK'
<1> SUFFICES ASSUME TypeOK, [Next]_vars PROVE TaskTypeOK'
  OBVIOUS
<1> USE DEF TypeOK, TaskTypeOK, TaskState
<1>1. CASE UNCHANGED vars
  BY <1>1 DEF vars, schedVars, computeVars
<1>2. CASE Tick \/ Idle \/ Finished
  BY <1>2 DEF Tick, Idle, Finished, vars, schedVars, computeVars
<1>3. CASE ServiceInterrupts
  <2>1. CASE "Timer" \in pending
    BY <1>3, <2>1 DEF ServiceInterrupts, on_tick, BlockReason, None
  <2>2. CASE "Timer" \notin pending
    BY <1>3, <2>2 DEF ServiceInterrupts, computeVars
  <2> QED
    BY <2>1, <2>2
<1>4. ASSUME NEW t \in Tasks, Dispatch(t) PROVE TaskTypeOK'
  BY <1>4 DEF Dispatch, computeVars
<1>5. ASSUME NEW t \in Tasks, EndOfProgram(t) PROVE TaskTypeOK'
  BY <1>5 DEF EndOfProgram, complete_job, Block, BlockReason, WaitPeriod
<1>6. ASSUME NEW t \in Tasks, Compute(t) PROVE TaskTypeOK'
  <2>1. current_op(t) \in Op /\ current_op(t)[2] \in Nat
    BY <1>6, CurrentOpTyped, DurationTyped DEF Compute, Executing
  <2>2. (cpu_ticks \in [Tasks -> Nat] /\ wake_at \in [Tasks -> Nat])'
    BY <1>6 DEF Compute, computeVars
  <2>3. CASE complete_job(t)
    BY <2>2, <2>3 DEF complete_job, Block, BlockReason, WaitPeriod
  <2>4. CASE ~complete_job(t)
    <3>1. UNCHANGED <<state, blocked_on>>
      BY <1>6, <2>4 DEF Compute, Continue, EndQuantum, schedVars
    <3>2. UNCHANGED pc \/ Advance(t)
      BY <1>6, <2>4 DEF Compute
    <3>3. \/ UNCHANGED compute_remaining
          \/ \E n \in Nat : compute_remaining' = [compute_remaining EXCEPT ![t] = n]
      BY <1>6, <2>1, <2>4 DEF Compute, computeVars
    <3>4. (pc \in [Tasks -> Nat])'
      BY <3>2 DEF Advance
    <3>5. (compute_remaining \in [Tasks -> Nat])'
      BY <3>3
    <3> QED
      BY <2>2, <3>1, <3>4, <3>5
  <2> QED
    BY <2>3, <2>4
<1>7. ASSUME NEW t \in Tasks, Delay(t) PROVE TaskTypeOK'
  <2>1. current_op(t)[2] \in Nat
    BY <1>7, CurrentOpTyped, DurationTyped DEF Delay, Executing
  <2> QED
    BY <1>7, <2>1 DEF Delay, Advance, Continue, Block, schedVars, computeVars, BlockReason,
       Sleep, ControlTypeOK
<1>8. ASSUME NEW t \in Tasks, Peripheral(t) PROVE TaskTypeOK'
  BY <1>8 DEF Peripheral, Advance, Continue, schedVars, opVars, computeVars
<1>9. ASSUME NEW t \in Tasks, NEW m \in Mutexes, Lock(t, m) PROVE TaskTypeOK'
  BY <1>9 DEF Lock, Advance, Continue, schedVars, computeVars
<1>10. ASSUME NEW t \in Tasks, NEW m \in Mutexes, BlockOnMutex(t, m) PROVE TaskTypeOK'
  BY <1>10 DEF BlockOnMutex, Block, computeVars, BlockReason
<1>11. ASSUME NEW t \in Tasks, NEW m \in Mutexes, Unlock(t, m) PROVE TaskTypeOK'
  BY <1>11 DEF Unlock, Wake, AdvanceBoth, computeVars, BlockReason, None
<1>12. ASSUME NEW t \in Tasks, NEW s \in Semaphores, SemWait(t, s) PROVE TaskTypeOK'
  BY <1>12 DEF SemWait, Block, Advance, Continue, schedVars, opVars, computeVars, BlockReason
<1>13. ASSUME NEW t \in Tasks, NEW s \in Semaphores, SemSignal(t, s) PROVE TaskTypeOK'
  BY <1>13 DEF SemSignal, Wake, AdvanceBoth, opVars, computeVars, BlockReason, None
<1>14. ASSUME NEW t \in Tasks, NEW q \in Queues, QueueSend(t, q) PROVE TaskTypeOK'
  BY <1>14 DEF QueueSend, Wake, Block, Advance, opVars, computeVars, BlockReason, None
<1>15. ASSUME NEW t \in Tasks, NEW q \in Queues, QueueRecv(t, q) PROVE TaskTypeOK'
  BY <1>15 DEF QueueRecv, Wake, Block, Advance, opVars, computeVars, BlockReason, None
<1> QED
  BY <1>1, <1>2, <1>3, <1>4, <1>5, <1>6, <1>7, <1>8, <1>9, <1>10, <1>11, <1>12, <1>13,
     <1>14, <1>15 DEF Next, RunQuantum

LEMMA ControlTypeStep == TypeOK /\ [Next]_vars => ControlTypeOK'
<1> SUFFICES ASSUME TypeOK, [Next]_vars PROVE ControlTypeOK'
  OBVIOUS
<1> USE DEF TypeOK, ControlTypeOK
<1>1. CASE UNCHANGED vars
  BY <1>1 DEF vars, schedVars, clockVars
<1>2. CASE Tick \/ ServiceInterrupts \/ Idle \/ Finished
  BY <1>2 DEF Tick, ServiceInterrupts, Idle, Finished, vars, schedVars, clockVars
<1>3. ASSUME NEW t \in Tasks, Dispatch(t) PROVE ControlTypeOK'
  BY <1>3 DEF Dispatch
<1>4. ASSUME NEW t \in Tasks, RunQuantum(t) PROVE ControlTypeOK'
  <2>1. UNCHANGED clockVars
    BY <1>4 DEF RunQuantum, EndOfProgram, Compute, Delay, Peripheral, Lock, BlockOnMutex,
       Unlock, SemWait, SemSignal, QueueSend, QueueRecv, quantumFrame
  <2>2. /\ running' = running \/ running' = NoTask
        /\ mode' = mode \/ mode' = "tick"
    <3>1. ASSUME complete_job(t) PROVE running' = NoTask /\ mode' = "tick"
      BY <3>1 DEF complete_job, Block
    <3>2. CASE EndOfProgram(t) \/ Compute(t)
      BY <3>1, <3>2 DEF EndOfProgram, Compute, Continue, EndQuantum, schedVars
    <3>3. CASE Delay(t) \/ Peripheral(t)
      BY <3>3 DEF Delay, Peripheral, Block, Continue, schedVars
    <3>4. ASSUME NEW m \in Mutexes, Lock(t, m) \/ BlockOnMutex(t, m) \/ Unlock(t, m)
          PROVE  /\ running' = running \/ running' = NoTask
                 /\ mode' = mode \/ mode' = "tick"
      BY <3>4 DEF Lock, BlockOnMutex, Unlock, Block, Wake, Continue, schedVars
    <3>5. ASSUME NEW s \in Semaphores, SemWait(t, s) \/ SemSignal(t, s)
          PROVE  /\ running' = running \/ running' = NoTask
                 /\ mode' = mode \/ mode' = "tick"
      BY <3>5 DEF SemWait, SemSignal, Block, Wake, Continue, schedVars
    <3>6. ASSUME NEW q \in Queues, QueueSend(t, q) \/ QueueRecv(t, q)
          PROVE  /\ running' = running \/ running' = NoTask
                 /\ mode' = mode \/ mode' = "tick"
      BY <3>6 DEF QueueSend, QueueRecv, Block, Wake
    <3> QED
      BY <1>4, <3>2, <3>3, <3>4, <3>5, <3>6 DEF RunQuantum
  <2> QED
    BY <2>1, <2>2 DEF clockVars
<1> QED
  BY <1>1, <1>2, <1>3, <1>4 DEF Next

LEMMA TypeStep == TypeOK /\ [Next]_vars => TypeOK'
<1> SUFFICES ASSUME TypeOK, [Next]_vars PROVE TypeOK'
  OBVIOUS
<1>1. (setup \in Setup)'
  BY McuFrame DEF TypeOK
<1> QED
  BY <1>1, MutexTypeStep, SemTypeStep, QueueTypeStep, McuTypeStep, TaskTypeStep,
     PriorityTypeStep, JobTypeStep, ControlTypeStep DEF TypeOK

\* Every reachable state is well typed, whatever the tasks and their programs:
\* no counter of the kernel underflows and no wait list names anything but a
\* task.
THEOREM TypeCorrect == Spec => []TypeOK
BY TypeInit, TypeStep, PTL DEF Spec

-----------------------------------------------------------------------------
(***************************************************************************)
(* The agreement of tasks, mutexes and wait lists.                         *)
(***************************************************************************)

\* MutexConsistent is not inductive alone.  That a woken task is not the
\* running one needs SingleRunner; that a task released by the interrupt is on
\* no wait list needs ActivityAgrees; that a waiter taken from the list of a
\* semaphore or a queue waits for no mutex needs WaitListsConsistent.
Agreement ==
    /\ SingleRunner
    /\ ActivityAgrees
    /\ MutexConsistent
    /\ WaitListsConsistent

\* The variables the agreement is about.
agreementVars == <<state, blocked_on, running, job_active, owner, waiters, held_mutexes,
                   sem_waiters, recv_waiters, send_waiters>>

\* Agreement speaks of these variables only.
LEMMA AgreementFrame ==
    ASSUME Agreement, UNCHANGED agreementVars, mode' = "quantum" => mode = "quantum"
    PROVE  Agreement'
BY DEF Agreement, agreementVars, SingleRunner, ActivityAgrees, MutexConsistent,
   WaitListsConsistent, is_free

\* The three ways a quantum ends without a wait list: the task sleeps, is
\* parked for its next period, or is suspended.
LEMMA AgreementHalt ==
    ASSUME TypeOK, Agreement, NEW t \in Tasks, mode = "quantum", running = t,
           running' = NoTask, mode' = "tick",
           UNCHANGED <<owner, waiters, held_mutexes, sem_waiters, recv_waiters, send_waiters>>,
           \/ /\ state' = [state EXCEPT ![t] = "Blocked"]
              /\ blocked_on' = [blocked_on EXCEPT ![t] = Sleep]
              /\ UNCHANGED job_active
           \/ /\ state' = [state EXCEPT ![t] = "Blocked"]
              /\ blocked_on' = [blocked_on EXCEPT ![t] = WaitPeriod]
              /\ job_active' = [job_active EXCEPT ![t] = FALSE]
           \/ /\ state' = [state EXCEPT ![t] = "Suspended"]
              /\ UNCHANGED blocked_on
              /\ job_active' = [job_active EXCEPT ![t] = FALSE]
    PROVE  Agreement'
<1> USE DEF Agreement, TypeOK, TaskTypeOK, JobTypeOK
<1>1. state[t] = "Running" /\ blocked_on[t] = None
  BY DEF SingleRunner
<1>2. SingleRunner'
  BY <1>1, TasksAssumption DEF SingleRunner, None, Sleep, WaitPeriod
<1>3. ActivityAgrees'
  BY <1>1 DEF ActivityAgrees, None, Sleep, WaitPeriod
<1>4. \A u \in Tasks : \/ blocked_on'[u] = blocked_on[u]
                        \/ /\ blocked_on'[u] \in {Sleep, WaitPeriod}
                           /\ blocked_on[u] = None
  <2>1. CASE blocked_on' = [blocked_on EXCEPT ![t] = Sleep]
    BY <1>1, <2>1
  <2>2. CASE blocked_on' = [blocked_on EXCEPT ![t] = WaitPeriod]
    BY <1>1, <2>2
  <2>3. CASE UNCHANGED blocked_on
    BY <2>3
  <2> QED
    BY <2>1, <2>2, <2>3
<1>5. MutexConsistent'
  BY <1>4 DEF MutexConsistent, is_free, None, Sleep, WaitPeriod
<1>6. WaitListsConsistent'
  BY <1>4 DEF WaitListsConsistent, None, Sleep, WaitPeriod
<1> QED
  BY <1>2, <1>3, <1>5, <1>6

\* The reasons for blocking are told apart by their kind and their object.
LEMMA ReasonsDiffer ==
    ASSUME NEW x, NEW y
    PROVE  /\ \A kind \in {"Mutex", "Semaphore", "QueueSend", "QueueRecv"} :
                 <<kind, x>> \notin {None, Sleep, WaitPeriod}
           /\ \A k1, k2 \in {"Mutex", "Semaphore", "QueueSend", "QueueRecv"} :
                 <<k1, x>> = <<k2, y>> <=> k1 = k2 /\ x = y
           /\ None # Sleep /\ None # WaitPeriod /\ Sleep # WaitPeriod
BY DEF None, Sleep, WaitPeriod

\* The running task blocks with its job still active.
LEMMA BlockAgrees ==
    ASSUME TypeOK, Agreement, NEW t \in Tasks, mode = "quantum", running = t,
           NEW reason, reason \notin {None, WaitPeriod}, Block(t, reason),
           UNCHANGED job_active
    PROVE  SingleRunner' /\ ActivityAgrees'
<1> USE DEF Agreement, TypeOK, TaskTypeOK, JobTypeOK
<1>1. state[t] = "Running" /\ blocked_on[t] = None
  BY DEF SingleRunner
<1>2. SingleRunner'
  BY <1>1, TasksAssumption DEF SingleRunner, Block
<1>3. ActivityAgrees'
  BY <1>1, ReasonsDiffer DEF ActivityAgrees, Block
<1> QED
  BY <1>2, <1>3

\* A woken task was blocked on something other than its next release.
LEMMA WakeAgrees ==
    ASSUME TypeOK, Agreement, NEW w \in Tasks \union {NoTask}, Wake(w),
           w \in Tasks => blocked_on[w] \notin {None, WaitPeriod},
           UNCHANGED job_active
    PROVE  SingleRunner' /\ ActivityAgrees'
<1> USE DEF Agreement, TypeOK, TaskTypeOK, JobTypeOK, ControlTypeOK
<1>1. w \in Tasks => state[w] = "Blocked" /\ w # running
  BY DEF SingleRunner
<1>2. SingleRunner'
  BY <1>1, TasksAssumption DEF SingleRunner, Wake
<1>3. ActivityAgrees'
  BY <1>1, ReasonsDiffer DEF ActivityAgrees, Wake
<1> QED
  BY <1>2, <1>3

\* The tick interrupt releases only tasks that are on no wait list.
LEMMA AgreementIsr == TypeOK /\ Agreement /\ ServiceInterrupts => Agreement'
<1> SUFFICES ASSUME TypeOK, Agreement, ServiceInterrupts PROVE Agreement'
  OBVIOUS
<1> USE DEF Agreement, TypeOK, TaskTypeOK, JobTypeOK
<1>1. CASE "Timer" \notin pending
  BY <1>1, AgreementFrame DEF ServiceInterrupts, jobVars, agreementVars, mutexVars, lockVars,
     syncVars, semVars, queueVars
<1>2. CASE "Timer" \in pending
  <2> DEFINE Readied == Due \union Awake
  <2>1. /\ state' = [t \in Tasks |-> IF t \in Readied THEN "Ready" ELSE state[t]]
        /\ blocked_on' = [t \in Tasks |-> IF t \in Readied THEN None ELSE blocked_on[t]]
        /\ job_active' = [t \in Tasks |-> t \in Due \/ job_active[t]]
    BY <1>2 DEF ServiceInterrupts, on_tick
  <2>2. /\ running' = running /\ mode' = "dispatch"
        /\ owner' = owner /\ waiters' = waiters /\ held_mutexes' = held_mutexes
        /\ sem_waiters' = sem_waiters
        /\ recv_waiters' = recv_waiters /\ send_waiters' = send_waiters
    BY <1>2 DEF ServiceInterrupts, mutexVars, lockVars, syncVars, semVars, queueVars
  <2>3. \A t \in Tasks : t \in Readied =>
           /\ blocked_on[t] \in {None, Sleep, WaitPeriod}
           /\ state[t] # "Running"
    BY DEF Due, Awake, ActivityAgrees, SingleRunner, None, WaitPeriod
  <2>4. SingleRunner'
    BY <2>1, <2>2, <2>3, TasksAssumption DEF SingleRunner
  <2>5. ActivityAgrees'
    <3>1. \A t \in Tasks : t \in Awake => job_active[t]
      BY ReasonsDiffer DEF Awake, ActivityAgrees
    <3> QED
      BY <2>1, <3>1, ReasonsDiffer DEF ActivityAgrees
  <2>6. \A t \in Tasks : \/ blocked_on'[t] = blocked_on[t]
                        \/ /\ blocked_on'[t] = None
                           /\ blocked_on[t] \in {None, Sleep, WaitPeriod}
    BY <2>1, <2>3
  <2>7. MutexConsistent'
    BY <2>2, <2>6 DEF MutexConsistent, is_free, None, Sleep, WaitPeriod
  <2>8. WaitListsConsistent'
    BY <2>2, <2>6 DEF WaitListsConsistent, None, Sleep, WaitPeriod
  <2> QED
    BY <2>4, <2>5, <2>7, <2>8
<1> QED
  BY <1>1, <1>2

\* The scheduler moves the CPU and nothing else: whoever ran before is demoted
\* or was not running any more.
LEMMA AgreementDispatch ==
    ASSUME TypeOK, Agreement, Idle \/ \E t \in Tasks : Dispatch(t)
    PROVE  Agreement'
<1> USE DEF Agreement, TypeOK, TaskTypeOK, ControlTypeOK
<1>1. CASE Idle
  <2>1. \A t \in Tasks : state[t] # "Running"
    BY <1>1 DEF Idle, Runnable
  <2>2. SingleRunner'
    BY <1>1, <2>1, TasksAssumption DEF Idle, SingleRunner
  <2>3. ActivityAgrees' /\ MutexConsistent' /\ WaitListsConsistent'
    BY <1>1 DEF Idle, ActivityAgrees, MutexConsistent, WaitListsConsistent, is_free,
       jobVars, lockVars, syncVars, mutexVars, semVars, queueVars
  <2> QED
    BY <2>2, <2>3
<1>2. ASSUME NEW t \in Tasks, Dispatch(t) PROVE Agreement'
  <2>1. state[t] \in {"Ready", "Running"}
    BY <1>2, BestSubset DEF Dispatch, pick, Runnable
  <2>2. /\ state' = [u \in Tasks |-> IF u = t THEN "Running"
                                     ELSE IF u \in Preempted(t) THEN "Ready"
                                     ELSE state[u]]
        /\ running' = t
        /\ blocked_on' = blocked_on /\ job_active' = job_active
    BY <1>2 DEF Dispatch, jobVars
  <2>3. \A u \in Tasks \ {t} : state[u] = "Running" <=> u \in Preempted(t)
    BY DEF Preempted, SingleRunner
  <2>4. SingleRunner'
    BY <2>1, <2>2, <2>3 DEF SingleRunner
  <2>5. ActivityAgrees'
    BY <2>1, <2>2, <2>3 DEF ActivityAgrees
  <2>6. MutexConsistent' /\ WaitListsConsistent'
    BY <1>2 DEF Dispatch, MutexConsistent, WaitListsConsistent, is_free,
       lockVars, syncVars, mutexVars, semVars, queueVars
  <2> QED
    BY <2>4, <2>5, <2>6
<1> QED
  BY <1>1, <1>2

\* Operations that leave every wait list alone.
LEMMA AgreementLocal ==
    ASSUME TypeOK, Agreement, NEW t \in Tasks,
           EndOfProgram(t) \/ Compute(t) \/ Delay(t) \/ Peripheral(t)
    PROVE  Agreement'
<1>1. /\ mode = "quantum" /\ running = t
      /\ owner' = owner /\ waiters' = waiters /\ held_mutexes' = held_mutexes
      /\ sem_waiters' = sem_waiters
      /\ recv_waiters' = recv_waiters /\ send_waiters' = send_waiters
  BY DEF EndOfProgram, Compute, Delay, Peripheral, Executing, opVars, lockVars, syncVars,
     mutexVars, semVars, queueVars
<1>2. CASE complete_job(t)
  BY <1>1, <1>2, AgreementHalt DEF complete_job, Block
<1>3. CASE Block(t, Sleep) /\ UNCHANGED jobVars
  BY <1>1, <1>3, AgreementHalt DEF Block, jobVars
<1>4. CASE Continue /\ UNCHANGED jobVars
  BY <1>1, <1>4, AgreementFrame DEF Continue, schedVars, jobVars, agreementVars
<1>5. CASE EndQuantum /\ UNCHANGED jobVars
  BY <1>1, <1>5, AgreementFrame DEF EndQuantum, jobVars, agreementVars
<1> QED
  BY <1>2, <1>3, <1>4, <1>5 DEF EndOfProgram, Compute, Delay, Peripheral, opVars

\* Taking a free mutex, on which nobody waits.
LEMMA AgreementLock ==
    ASSUME TypeOK, Agreement, NEW t \in Tasks, NEW m \in Mutexes, Lock(t, m)
    PROVE  Agreement'
<1> USE DEF Agreement, TypeOK, MutexTypeOK, PriorityTypeOK
<1>1. /\ state' = state /\ blocked_on' = blocked_on /\ running' = running /\ mode' = mode
      /\ job_active' = job_active /\ waiters' = waiters /\ sem_waiters' = sem_waiters
      /\ recv_waiters' = recv_waiters /\ send_waiters' = send_waiters
      /\ owner[m] = NoTask
      /\ owner' = [owner EXCEPT ![m] = t]
      /\ held_mutexes' = [held_mutexes EXCEPT ![t] = @ \union {m}]
  BY DEF Lock, Continue, try_acquire, is_free, schedVars, jobVars, semVars, queueVars
<1>2. SingleRunner' /\ ActivityAgrees' /\ WaitListsConsistent'
  BY <1>1 DEF SingleRunner, ActivityAgrees, WaitListsConsistent
<1>3. MutexConsistent'
  BY <1>1, TasksAssumption DEF MutexConsistent, is_free
<1> QED
  BY <1>2, <1>3

\* Blocking on an owned mutex.
LEMMA AgreementBlockOnMutex ==
    ASSUME TypeOK, Agreement, NEW t \in Tasks, NEW m \in Mutexes, BlockOnMutex(t, m)
    PROVE  Agreement'
<1> USE DEF Agreement, TypeOK, MutexTypeOK, TaskTypeOK
<1>1. /\ Block(t, <<"Mutex", m>>) /\ mode = "quantum" /\ running = t
      /\ owner' = owner /\ held_mutexes' = held_mutexes
      /\ job_active' = job_active /\ sem_waiters' = sem_waiters
      /\ recv_waiters' = recv_waiters /\ send_waiters' = send_waiters
      /\ owner[m] # NoTask
      /\ waiters' = [waiters EXCEPT ![m] = @ \union {t}]
      /\ blocked_on' = [blocked_on EXCEPT ![t] = <<"Mutex", m>>]
  BY DEF BlockOnMutex, add_waiter, is_free, Executing, Block, jobVars, semVars, queueVars
<1>2. SingleRunner' /\ ActivityAgrees'
  BY <1>1, BlockAgrees, ReasonsDiffer
<1>3. blocked_on[t] = None
  BY <1>1 DEF SingleRunner
<1>4. MutexConsistent'
  BY <1>1, <1>3 DEF MutexConsistent, is_free, None
<1>5. WaitListsConsistent'
  BY <1>1, <1>3 DEF WaitListsConsistent, None
<1> QED
  BY <1>2, <1>4, <1>5

\* Giving a mutex up: to nobody, or to a waiter that leaves the wait list,
\* becomes schedulable and holds it, all at once.
LEMMA AgreementUnlock ==
    ASSUME TypeOK, Agreement, NEW t \in Tasks, NEW m \in Mutexes, Unlock(t, m)
    PROVE  Agreement'
<1> USE DEF Agreement, TypeOK, MutexTypeOK, PriorityTypeOK, TaskTypeOK
<1>1. PICK next \in Tasks \union {NoTask} :
         /\ release(m, t, eff_priority, next)
         /\ held_mutexes' = [x \in Tasks |->
               IF x = next THEN held_mutexes[x] \union {m}
               ELSE IF x = t THEN held_mutexes[x] \ {m}
               ELSE held_mutexes[x]]
         /\ Wake(next)
  BY DEF Unlock
<1>2. /\ job_active' = job_active /\ sem_waiters' = sem_waiters
      /\ recv_waiters' = recv_waiters /\ send_waiters' = send_waiters
      /\ mode = "quantum" /\ running = t
  BY DEF Unlock, Executing, jobVars, semVars, queueVars
<1>3. next \in Tasks => next \in waiters[m] /\ owner[m] = t
  BY <1>1, BestSubset, TasksAssumption DEF release
<1>4. next \in Tasks => blocked_on[next] = <<"Mutex", m>>
  BY <1>3 DEF MutexConsistent
<1>5. SingleRunner' /\ ActivityAgrees'
  <2>1. next \in Tasks => blocked_on[next] \notin {None, WaitPeriod}
    BY <1>4 DEF None, WaitPeriod
  <2> QED
    BY <1>1, <1>2, <2>1, WakeAgrees
<1>6. \A u \in Tasks : blocked_on'[u] = IF u = next THEN None ELSE blocked_on[u]
  BY <1>1 DEF Wake
<1>7. MutexConsistent'
  <2>1. CASE next = NoTask
    <3>1. held_mutexes' = [held_mutexes EXCEPT ![t] = @ \ {m}]
      BY <1>1, <2>1, TasksAssumption
    <3>2. \A u \in Tasks : blocked_on'[u] = blocked_on[u]
      BY <1>6, <2>1, TasksAssumption
    <3>3. waiters' = waiters
      BY <1>1, <1>3, <2>1, BestSubset, TasksAssumption DEF release, mutexVars
    <3>4. \/ owner[m] # t /\ owner' = owner
          \/ owner[m] = t /\ waiters[m] = {} /\ owner' = [owner EXCEPT ![m] = NoTask]
      BY <1>1, <2>1, BestSubset, TasksAssumption DEF release, mutexVars
    <3> QED
      BY <3>1, <3>2, <3>3, <3>4, TasksAssumption DEF MutexConsistent, is_free
  <2>2. CASE next \in Tasks
    <3>1. /\ owner' = [owner EXCEPT ![m] = next]
          /\ waiters' = [waiters EXCEPT ![m] = @ \ {next}]
      BY <1>1, <2>2, TasksAssumption DEF release
    <3>2. next # t
      BY <1>2, <1>4, <2>2 DEF SingleRunner, None
    <3>3. \A n \in Mutexes, u \in Tasks : owner'[n] = u <=> n \in held_mutexes'[u]
      BY <1>1, <1>3, <2>2, <3>1, <3>2 DEF MutexConsistent
    <3>4. \A n \in Mutexes, u \in Tasks :
             u \in waiters'[n] <=> blocked_on'[u] = <<"Mutex", n>>
      BY <1>4, <1>6, <2>2, <3>1 DEF MutexConsistent, None
    <3>5. \A n \in Mutexes : owner'[n] = NoTask => waiters'[n] = {}
      BY <2>2, <3>1, TasksAssumption DEF MutexConsistent, is_free
    <3> QED
      BY <3>3, <3>4, <3>5 DEF MutexConsistent, is_free
  <2> QED
    BY <2>1, <2>2
<1>8. WaitListsConsistent'
  BY <1>2, <1>4, <1>6 DEF WaitListsConsistent, None
<1> QED
  BY <1>5, <1>7, <1>8

\* Waiting for a unit, and handing one to a waiter.
LEMMA AgreementSemaphore ==
    ASSUME TypeOK, Agreement, NEW t \in Tasks, NEW s \in Semaphores,
           SemWait(t, s) \/ SemSignal(t, s)
    PROVE  Agreement'
<1> USE DEF Agreement, TypeOK, SemTypeOK, TaskTypeOK
<1>1. /\ owner' = owner /\ waiters' = waiters /\ held_mutexes' = held_mutexes
      /\ recv_waiters' = recv_waiters /\ send_waiters' = send_waiters
      /\ job_active' = job_active
      /\ mode = "quantum" /\ running = t
  BY DEF SemWait, SemSignal, Executing, opVars, lockVars, jobVars, mutexVars, queueVars
<1>2. CASE Continue /\ UNCHANGED sem_waiters
  BY <1>1, <1>2, AgreementFrame DEF Continue, schedVars, agreementVars
<1>3. CASE sem_add_waiter(s, t) /\ Block(t, <<"Semaphore", s>>)
  <2>1. SingleRunner' /\ ActivityAgrees'
    BY <1>1, <1>3, BlockAgrees, ReasonsDiffer
  <2>2. blocked_on[t] = None
    BY <1>1 DEF SingleRunner
  <2>3. blocked_on' = [blocked_on EXCEPT ![t] = <<"Semaphore", s>>]
    BY <1>3 DEF Block
  <2>4. MutexConsistent'
    BY <1>1, <2>2, <2>3 DEF MutexConsistent, is_free, None
  <2>5. WaitListsConsistent'
    BY <1>1, <1>3, <2>2, <2>3 DEF WaitListsConsistent, sem_add_waiter, None
  <2> QED
    BY <2>1, <2>4, <2>5
<1>4. ASSUME NEW woken \in Tasks \union {NoTask}, signal(s, eff_priority, woken), Wake(woken)
      PROVE  Agreement'
  <2>1. \/ woken = NoTask /\ sem_waiters' = sem_waiters
        \/ /\ woken \in sem_waiters[s]
           /\ sem_waiters' = [sem_waiters EXCEPT ![s] = @ \ {woken}]
    BY <1>4, BestSubset DEF signal
  <2>2. woken \in Tasks => blocked_on[woken] = <<"Semaphore", s>>
    BY <2>1, TasksAssumption DEF WaitListsConsistent
  <2>3. SingleRunner' /\ ActivityAgrees'
    <3>1. woken \in Tasks => blocked_on[woken] \notin {None, WaitPeriod}
      BY <2>2 DEF None, WaitPeriod
    <3> QED
      BY <1>1, <1>4, <3>1, WakeAgrees
  <2>4. \A u \in Tasks : blocked_on'[u] = IF u = woken THEN None ELSE blocked_on[u]
    BY <1>4 DEF Wake
  <2>5. MutexConsistent'
    BY <1>1, <2>2, <2>4 DEF MutexConsistent, is_free, None
  <2>6. WaitListsConsistent'
    <3>1. CASE woken = NoTask
      BY <1>1, <2>1, <2>4, <3>1, TasksAssumption DEF WaitListsConsistent
    <3>2. CASE woken \in Tasks
      BY <1>1, <2>1, <2>2, <2>4, <3>2, TasksAssumption DEF WaitListsConsistent, None
    <3> QED
      BY <3>1, <3>2
  <2> QED
    BY <2>3, <2>5, <2>6
<1> QED
  BY <1>2, <1>3, <1>4 DEF SemWait, SemSignal, try_wait

\* A task that blocks on a queue joins one of its lists; a task that is woken
\* leaves it.
LEMMA AgreementQueue ==
    ASSUME TypeOK, Agreement, NEW t \in Tasks, NEW q \in Queues,
           QueueSend(t, q) \/ QueueRecv(t, q)
    PROVE  Agreement'
<1>0. /\ recv_waiters \in [Queues -> SUBSET Tasks]
      /\ send_waiters \in [Queues -> SUBSET Tasks]
  BY DEF TypeOK, QueueTypeOK
<1> USE DEF Agreement, TypeOK, TaskTypeOK
<1>1. /\ owner' = owner /\ waiters' = waiters /\ held_mutexes' = held_mutexes
      /\ job_active' = job_active /\ sem_waiters' = sem_waiters
      /\ mode = "quantum" /\ running = t
  BY DEF QueueSend, QueueRecv, Executing, opVars, lockVars, jobVars, mutexVars, semVars
<1>2. CASE /\ Block(t, <<"QueueSend", q>>)
           /\ send_waiters' = [send_waiters EXCEPT ![q] = @ \union {t}]
           /\ UNCHANGED recv_waiters
  <2>1. SingleRunner' /\ ActivityAgrees'
    BY <1>1, <1>2, BlockAgrees, ReasonsDiffer
  <2>2. blocked_on[t] = None
    BY <1>1 DEF SingleRunner
  <2>3. blocked_on' = [blocked_on EXCEPT ![t] = <<"QueueSend", q>>]
    BY <1>2 DEF Block
  <2>4. MutexConsistent'
    BY <1>1, <2>2, <2>3 DEF MutexConsistent, is_free, None
  <2>5. WaitListsConsistent'
    BY <1>0, <1>1, <1>2, <2>2, <2>3 DEF WaitListsConsistent, None
  <2> QED
    BY <2>1, <2>4, <2>5
<1>3. CASE /\ Block(t, <<"QueueRecv", q>>)
           /\ recv_waiters' = [recv_waiters EXCEPT ![q] = @ \union {t}]
           /\ UNCHANGED send_waiters
  <2>1. SingleRunner' /\ ActivityAgrees'
    BY <1>1, <1>3, BlockAgrees, ReasonsDiffer
  <2>2. blocked_on[t] = None
    BY <1>1 DEF SingleRunner
  <2>3. blocked_on' = [blocked_on EXCEPT ![t] = <<"QueueRecv", q>>]
    BY <1>3 DEF Block
  <2>4. MutexConsistent'
    BY <1>1, <2>2, <2>3 DEF MutexConsistent, is_free, None
  <2>5. WaitListsConsistent'
    BY <1>0, <1>1, <1>3, <2>2, <2>3 DEF WaitListsConsistent, None
  <2> QED
    BY <2>1, <2>4, <2>5
<1>4. ASSUME NEW w \in Tasks \union {NoTask}, wake_receiver(q, eff_priority, w), Wake(w)
      PROVE  Agreement'
  <2>1. /\ recv_waiters' = [recv_waiters EXCEPT ![q] = @ \ {w}]
        /\ send_waiters' = send_waiters
        /\ w \in Tasks => w \in recv_waiters[q]
    BY <1>4, BestSubset, TasksAssumption DEF wake_receiver, pop_best
  <2>2. w \in Tasks => blocked_on[w] = <<"QueueRecv", q>>
    BY <2>1 DEF WaitListsConsistent
  <2>3. SingleRunner' /\ ActivityAgrees'
    <3>1. w \in Tasks => blocked_on[w] \notin {None, WaitPeriod}
      BY <2>2 DEF None, WaitPeriod
    <3> QED
      BY <1>1, <1>4, <3>1, WakeAgrees
  <2>4. \A u \in Tasks : blocked_on'[u] = IF u = w THEN None ELSE blocked_on[u]
    BY <1>4 DEF Wake
  <2>5. MutexConsistent'
    BY <1>1, <2>2, <2>4 DEF MutexConsistent, is_free, None
  <2>6. WaitListsConsistent'
    <3>1. CASE w = NoTask
      BY <1>0, <1>1, <2>1, <2>4, <3>1, TasksAssumption DEF WaitListsConsistent
    <3>2. CASE w \in Tasks
      BY <1>0, <1>1, <2>1, <2>2, <2>4, <3>2, TasksAssumption DEF WaitListsConsistent, None
    <3> QED
      BY <3>1, <3>2
  <2> QED
    BY <2>3, <2>5, <2>6
<1>5. ASSUME NEW w \in Tasks \union {NoTask}, wake_sender(q, eff_priority, w), Wake(w)
      PROVE  Agreement'
  <2>1. /\ send_waiters' = [send_waiters EXCEPT ![q] = @ \ {w}]
        /\ recv_waiters' = recv_waiters
        /\ w \in Tasks => w \in send_waiters[q]
    BY <1>5, BestSubset, TasksAssumption DEF wake_sender, pop_best
  <2>2. w \in Tasks => blocked_on[w] = <<"QueueSend", q>>
    BY <2>1 DEF WaitListsConsistent
  <2>3. SingleRunner' /\ ActivityAgrees'
    <3>1. w \in Tasks => blocked_on[w] \notin {None, WaitPeriod}
      BY <2>2 DEF None, WaitPeriod
    <3> QED
      BY <1>1, <1>5, <3>1, WakeAgrees
  <2>4. \A u \in Tasks : blocked_on'[u] = IF u = w THEN None ELSE blocked_on[u]
    BY <1>5 DEF Wake
  <2>5. MutexConsistent'
    BY <1>1, <2>2, <2>4 DEF MutexConsistent, is_free, None
  <2>6. WaitListsConsistent'
    <3>1. CASE w = NoTask
      BY <1>0, <1>1, <2>1, <2>4, <3>1, TasksAssumption DEF WaitListsConsistent
    <3>2. CASE w \in Tasks
      BY <1>0, <1>1, <2>1, <2>2, <2>4, <3>2, TasksAssumption DEF WaitListsConsistent, None
    <3> QED
      BY <3>1, <3>2
  <2> QED
    BY <2>3, <2>5, <2>6
<1> QED
  BY <1>2, <1>3, <1>4, <1>5 DEF QueueSend, QueueRecv

LEMMA AgreementInit == Init => Agreement
BY TasksAssumption DEF Init, Agreement, SingleRunner, ActivityAgrees, MutexConsistent,
   WaitListsConsistent, MutexInit, SemInit, QueueInit, is_free, None, WaitPeriod

LEMMA AgreementStep == TypeOK /\ Agreement /\ [Next]_vars => Agreement'
<1> SUFFICES ASSUME TypeOK, Agreement, [Next]_vars PROVE Agreement'
  OBVIOUS
<1>1. CASE UNCHANGED vars \/ Tick \/ Finished
  BY <1>1, AgreementFrame DEF Tick, Finished, vars, schedVars, jobVars, lockVars, syncVars,
     mutexVars, semVars, queueVars, agreementVars
<1>2. CASE ServiceInterrupts
  BY <1>2, AgreementIsr
<1>3. CASE Idle \/ \E t \in Tasks : Dispatch(t)
  BY <1>3, AgreementDispatch
<1>4. ASSUME NEW t \in Tasks, RunQuantum(t) PROVE Agreement'
  BY <1>4, AgreementLocal, AgreementLock, AgreementBlockOnMutex, AgreementUnlock,
     AgreementSemaphore, AgreementQueue DEF RunQuantum
<1> QED
  BY <1>1, <1>2, <1>3, <1>4 DEF Next

\* The parts of Agreement carry each other: none of them is inductive alone.
THEOREM AgreementCorrect == Spec => []Agreement
<1>1. TypeOK /\ Agreement /\ [Next]_vars => Agreement'
  BY AgreementStep
<1> QED
  BY <1>1, AgreementInit, TypeCorrect, PTL DEF Spec

\* At most one task runs, whatever the programs: the fields that record it are
\* changed one by one by five functions of the kernel and never disagree.
THEOREM SingleRunnerCorrect == Spec => []SingleRunner
<1>1. Agreement => SingleRunner
  BY DEF Agreement
<1> QED
  BY <1>1, AgreementCorrect, PTL

\* Owners, held sets, wait lists and blocking reasons agree for any number of
\* tasks and mutexes, even for programs that unlock what they do not hold, lock
\* twice, or end with a mutex held.
THEOREM MutexCorrect == Spec => []MutexConsistent
<1>1. Agreement => MutexConsistent
  BY DEF Agreement
<1> QED
  BY <1>1, AgreementCorrect, PTL

\* A task is on the wait list of a semaphore or queue exactly while it is
\* blocked there, so no wake-up ever reaches a task that is doing something
\* else.
THEOREM WaitListsCorrect == Spec => []WaitListsConsistent
<1>1. Agreement => WaitListsConsistent
  BY DEF Agreement
<1> QED
  BY <1>1, AgreementCorrect, PTL

\* The fields of a task that count its position and its work.
LEMMA TaskFieldsTyped ==
    ASSUME TypeOK
    PROVE  /\ pc \in [Tasks -> Nat] /\ compute_remaining \in [Tasks -> Nat]
           /\ cpu_ticks \in [Tasks -> Nat] /\ jobs_completed \in [Tasks -> Nat]
           /\ job_active \in [Tasks -> BOOLEAN]
BY DEF TypeOK, TaskTypeOK, JobTypeOK

\* The program of a task is a finite sequence of operations.
LEMMA ProgramTyped ==
    ASSUME TypeOK, NEW u \in Tasks
    PROVE  program(u) \in Seq(Op) /\ Len(program(u)) \in Nat
<1>1. program(u) \in Seq(Op)
  BY DEF TypeOK, Setup, program
<1> QED
  BY <1>1

\* The running task has a job, and a task that waits for an object has one.
LEMMA ActiveTasks ==
    ASSUME TypeOK, Agreement, NEW u \in Tasks
    PROVE  /\ mode = "quantum" /\ running = u => job_active[u]
           /\ blocked_on[u] \notin {None, WaitPeriod} => job_active[u]
BY DEF Agreement, SingleRunner, ActivityAgrees, None, WaitPeriod

-----------------------------------------------------------------------------
(***************************************************************************)
(* Semaphores.                                                             *)
(***************************************************************************)
LEMMA UnitInit == Init => NoStrandedUnit
<1> SUFFICES ASSUME Init PROVE NoStrandedUnit
  OBVIOUS
<1>1. setup \in Setup
  BY SetupsAssumption DEF Init
<1> QED
  BY <1>1 DEF Init, SemInit, NoStrandedUnit, Setup, AtMost, sem_max

\* A unit is counted only while nobody waits, and somebody starts to wait only
\* while there is none.
LEMMA UnitStep == TypeOK /\ NoStrandedUnit /\ [Next]_vars => NoStrandedUnit'
<1> SUFFICES ASSUME TypeOK, NoStrandedUnit, [Next]_vars PROVE NoStrandedUnit'
  OBVIOUS
<1>1. /\ count \in [Semaphores -> Nat]
      /\ sem_waiters \in [Semaphores -> SUBSET Tasks]
      /\ \A s \in Semaphores : sem_max(s) \in Nat
  BY DEF TypeOK, SemTypeOK, Setup, sem_max
<1>2. \A s \in Semaphores : sem_max(s)' = sem_max(s)
  BY McuFrame DEF sem_max
<1>3. CASE UNCHANGED semVars
  BY <1>2, <1>3 DEF semVars, NoStrandedUnit
<1>4. ASSUME NEW t \in Tasks, NEW s \in Semaphores, SemWait(t, s) PROVE NoStrandedUnit'
  BY <1>1, <1>2, <1>4 DEF SemWait, try_wait, sem_add_waiter, NoStrandedUnit
<1>5. ASSUME NEW t \in Tasks, NEW s \in Semaphores, SemSignal(t, s) PROVE NoStrandedUnit'
  <2>1. PICK woken : signal(s, eff_priority, woken)
    BY <1>5 DEF SemSignal
  <2> QED
    BY <1>1, <1>2, <2>1, BestSubset DEF signal, NoStrandedUnit
<1> QED
  BY <1>3, <1>4, <1>5, SemFrame

\* A task never waits on a semaphore that has a unit to give, and the count
\* never exceeds the maximum: a signal gives its unit to a waiter or counts it,
\* for any number of tasks that wait and signal in any order.
THEOREM UnitsNeverStranded == Spec => []NoStrandedUnit
<1>1. TypeOK /\ NoStrandedUnit /\ [Next]_vars => NoStrandedUnit'
  BY UnitStep
<1> QED
  BY <1>1, UnitInit, TypeCorrect, PTL DEF Spec

-----------------------------------------------------------------------------
(***************************************************************************)
(* Queues.                                                                 *)
(***************************************************************************)
LEMMA ConservationInit == Init => QueueConserves
<1> SUFFICES ASSUME Init PROVE QueueConserves
  OBVIOUS
<1>1. setup \in Setup
  BY SetupsAssumption DEF Init
<1>2. \A q \in Queues : capacity(q) \in Nat
  BY <1>1 DEF Setup, capacity, AtLeast
<1> QED
  BY <1>2 DEF Init, QueueInit, QueueConserves

\* What a send and a receive do to the length of a buffer.
LEMMA LengthChanges ==
    ASSUME NEW b \in Seq(Values)
    PROVE  /\ Len(b) \in Nat
           /\ \A v \in Values : Len(Append(b, v)) = Len(b) + 1
           /\ b # <<>> => Len(Tail(b)) = Len(b) - 1
OBVIOUS

\* A value is appended only to a buffer that is not full and counted with it,
\* and removed only from one that is not empty.
LEMMA ConservationStep == TypeOK /\ QueueConserves /\ [Next]_vars => QueueConserves'
<1> SUFFICES ASSUME TypeOK, QueueConserves, [Next]_vars, NEW p \in Queues
             PROVE  (/\ Len(buf[p]) <= capacity(p)
                     /\ sent[p] = received[p] + Len(buf[p]))'
  BY DEF QueueConserves
<1>1. capacity(p)' = capacity(p)
  BY McuFrame DEF capacity
<1>2. capacity(p) \in Nat
  BY DEF TypeOK, Setup, capacity, AtLeast
<1>3. /\ Len(buf[p]) <= capacity(p)
      /\ sent[p] = received[p] + Len(buf[p])
  BY DEF QueueConserves
<1>4. /\ buf \in [Queues -> Seq(Values)]
      /\ sent \in [Queues -> Nat] /\ received \in [Queues -> Nat]
  BY DEF TypeOK, QueueTypeOK
<1>5. CASE UNCHANGED queueVars
  BY <1>1, <1>3, <1>5 DEF queueVars
<1>6. ASSUME NEW t \in Tasks, NEW q \in Queues, QueueSend(t, q)
      PROVE  (/\ Len(buf[p]) <= capacity(p)
              /\ sent[p] = received[p] + Len(buf[p]))'
  <2>1. CASE UNCHANGED <<buf, sent, received>>
    BY <1>1, <1>3, <2>1
  <2>2. ASSUME try_send(q, current_op(t)[3])
        PROVE  (/\ Len(buf[p]) <= capacity(p)
                /\ sent[p] = received[p] + Len(buf[p]))'
    <3>1. current_op(t)[3] \in Values
      BY <1>6, CurrentOpTyped, ArgumentsTyped DEF QueueSend, Executing, TypeOK, TaskTypeOK
    <3>2. received' = received
      BY <2>2 DEF try_send
    <3>3. CASE p = q
      <4>1. Len(buf[p]) < capacity(p)
        BY <1>2, <1>4, <2>2, <3>3, LengthChanges DEF try_send, is_full
      <4>2. buf'[p] = Append(buf[p], current_op(t)[3]) /\ sent'[p] = sent[p] + 1
        BY <1>4, <2>2, <3>3 DEF try_send
      <4>3. Len(buf'[p]) = Len(buf[p]) + 1 /\ Len(buf[p]) \in Nat
        BY <1>4, <3>1, <4>2, LengthChanges
      <4> QED
        BY <1>1, <1>2, <1>3, <1>4, <3>2, <4>1, <4>2, <4>3
    <3>4. CASE p # q
      <4>1. buf'[p] = buf[p] /\ sent'[p] = sent[p]
        BY <1>4, <2>2, <3>4 DEF try_send
      <4> QED
        BY <1>1, <1>3, <3>2, <4>1
    <3> QED
      BY <3>3, <3>4
  <2> QED
    BY <1>6, <2>1, <2>2 DEF QueueSend
<1>7. ASSUME NEW t \in Tasks, NEW q \in Queues, QueueRecv(t, q)
      PROVE  (/\ Len(buf[p]) <= capacity(p)
              /\ sent[p] = received[p] + Len(buf[p]))'
  <2>1. CASE UNCHANGED <<buf, sent, received>>
    BY <1>1, <1>3, <2>1
  <2>2. ASSUME try_recv(q)
        PROVE  (/\ Len(buf[p]) <= capacity(p)
                /\ sent[p] = received[p] + Len(buf[p]))'
    <3>1. sent' = sent
      BY <2>2 DEF try_recv
    <3>2. CASE p = q
      <4>1. /\ buf[p] # <<>>
            /\ buf'[p] = Tail(buf[p])
            /\ received'[p] = received[p] + 1
        BY <1>4, <2>2, <3>2 DEF try_recv, is_empty
      <4>2. Len(buf'[p]) = Len(buf[p]) - 1 /\ Len(buf[p]) \in Nat
        BY <1>4, <4>1, LengthChanges
      <4> QED
        BY <1>1, <1>2, <1>3, <1>4, <3>1, <4>1, <4>2
    <3>3. CASE p # q
      <4>1. buf'[p] = buf[p] /\ received'[p] = received[p]
        BY <1>4, <2>2, <3>3 DEF try_recv
      <4> QED
        BY <1>1, <1>3, <3>1, <4>1
    <3> QED
      BY <3>2, <3>3
  <2> QED
    BY <1>7, <2>1, <2>2 DEF QueueRecv
<1> QED
  BY <1>5, <1>6, <1>7, QueueFrame

\* Every value accepted by a queue is received or still in its buffer, which
\* never holds more than its capacity, for any number of senders and receivers.
THEOREM ValuesConserved == Spec => []QueueConserves
<1>1. TypeOK /\ QueueConserves /\ [Next]_vars => QueueConserves'
  BY ConservationStep
<1> QED
  BY <1>1, ConservationInit, TypeCorrect, PTL DEF Spec

-----------------------------------------------------------------------------
(***************************************************************************)
(* The hand-over of a mutex.                                               *)
(***************************************************************************)

\* Only an Unlock by the owner changes who owns a mutex that tasks wait for.
LEMMA HandOverStep ==
    ASSUME TypeOK, MutexConsistent, [Next]_vars, NEW m \in Mutexes,
           owner'[m] # owner[m], waiters[m] # {}
    PROVE  /\ owner'[m] \in waiters[m]
           /\ \A w \in waiters[m] : eff_priority[owner'[m]] >= eff_priority[w]
<1> USE DEF TypeOK, MutexTypeOK, PriorityTypeOK
<1>1. PICK t \in Tasks, n \in Mutexes : Lock(t, n) \/ BlockOnMutex(t, n) \/ Unlock(t, n)
  BY MutexFrame DEF mutexVars
<1>2. ~Lock(t, n)
  BY DEF Lock, try_acquire, MutexConsistent, is_free
<1>3. ~BlockOnMutex(t, n)
  BY DEF BlockOnMutex, add_waiter
<1>4. PICK next : release(n, t, eff_priority, next)
  BY <1>1, <1>2, <1>3 DEF Unlock
<1>5. n = m /\ owner' = [owner EXCEPT ![m] = next] /\ next \in Best(waiters[m], eff_priority)
  BY <1>4 DEF release, mutexVars
<1>6. \A w \in waiters[m] : eff_priority[w] \in Int /\ eff_priority[w] \in Priority
  BY DEF Priority
<1> QED
  BY <1>5, <1>6 DEF Best

\* A mutex that tasks wait for passes straight to the most urgent of them, for
\* any number of waiters: no task that runs in between can take it.
THEOREM HandOverCorrect == Spec => MutexHandedToWaiter
<1>1. TypeOK /\ MutexConsistent /\ [Next]_vars =>
        [\A m \in Mutexes : owner'[m] # owner[m] /\ waiters[m] # {} =>
            /\ owner'[m] \in waiters[m]
            /\ \A w \in waiters[m] : eff_priority[owner'[m]] >= eff_priority[w]]_vars
  BY HandOverStep
<1> QED
  BY <1>1, TypeCorrect, MutexCorrect, PTL DEF Spec, MutexHandedToWaiter

-----------------------------------------------------------------------------
(***************************************************************************)
(* Where a blocked task stands.                                            *)
(***************************************************************************)
NoWaitList == {None, Sleep, WaitPeriod}

\* The operation t stands at can block for this reason.
BlocksFor(t, reason) ==
    /\ ~AtEnd(t)
    /\ \/ current_op(t)[1] = "Lock" /\ reason = <<"Mutex", current_op(t)[2]>>
       \/ current_op(t)[1] = "SemWait" /\ reason = <<"Semaphore", current_op(t)[2]>>
       \/ /\ current_op(t)[1] \in {"QueueSend", "QueueRecv"}
          /\ reason = <<current_op(t)[1], current_op(t)[2]>>

\* What a step may do to a task: leave it where it is, set it free of every
\* wait list, or block it at its operation.
Stays(u) == pc'[u] = pc[u] /\ blocked_on'[u] = blocked_on[u]
Frees(u) == blocked_on'[u] \in NoWaitList
Parks(u) == pc'[u] = pc[u] /\ BlocksFor(u, blocked_on'[u])
PlacedWell(u) == Stays(u) \/ Frees(u) \/ Parks(u)

\* The interrupt frees the tasks it moves.
LEMMA PlacedByIsr ==
    ASSUME ServiceInterrupts, NEW u \in Tasks
    PROVE  PlacedWell(u)
<1>1. CASE "Timer" \notin pending
  BY <1>1 DEF ServiceInterrupts, PlacedWell, Stays
<1>2. CASE "Timer" \in pending
  <2>1. /\ blocked_on'[u] = IF u \in Due \union Awake THEN None ELSE blocked_on[u]
        /\ pc'[u] = IF u \in Due THEN 0 ELSE pc[u]
    BY <1>2 DEF ServiceInterrupts, on_tick
  <2> QED
    BY <2>1 DEF PlacedWell, Stays, Frees, NoWaitList
<1> QED
  BY <1>1, <1>2

\* The running task blocks at its operation, or moves on unblocked.
LEMMA PlacedByLocal ==
    ASSUME TypeOK, Agreement, NEW t \in Tasks,
           EndOfProgram(t) \/ Compute(t) \/ Delay(t) \/ Peripheral(t),
           NEW u \in Tasks
    PROVE  PlacedWell(u)
<1>1. pc \in [Tasks -> Nat] /\ blocked_on \in [Tasks -> BlockReason]
  BY DEF TypeOK, TaskTypeOK
<1>2. blocked_on[t] = None
  BY DEF Agreement, SingleRunner, EndOfProgram, Compute, Delay, Peripheral, Executing
<1>3. u # t => pc'[u] = pc[u]
  BY <1>1 DEF EndOfProgram, Compute, Delay, Peripheral, complete_job, Advance
<1>4. u # t => blocked_on'[u] = blocked_on[u]
  BY <1>1 DEF EndOfProgram, Compute, Delay, Peripheral, complete_job, Block, Continue,
     EndQuantum, schedVars
<1>5. blocked_on'[t] \in NoWaitList
  BY <1>1, <1>2 DEF EndOfProgram, Compute, Delay, Peripheral, complete_job, Block, Continue,
     EndQuantum, schedVars, NoWaitList
<1> QED
  BY <1>3, <1>4, <1>5 DEF PlacedWell, Stays, Frees

\* What the operations on objects do to the tasks, in one of two ways: t goes
\* on, and perhaps somebody is freed; or t blocks where it stands.
LEMMA PlacedByMoving ==
    ASSUME TypeOK, NEW t \in Tasks, blocked_on[t] = None, NEW w, NEW u \in Tasks,
           \A x \in Tasks : blocked_on'[x] = IF x = w THEN None ELSE blocked_on[x],
           \A x \in Tasks : x \notin {t, w} => pc'[x] = pc[x]
    PROVE  PlacedWell(u)
BY DEF PlacedWell, Stays, Frees, NoWaitList

LEMMA PlacedByBlocking ==
    ASSUME TypeOK, NEW t \in Tasks, NEW reason, Block(t, reason), pc' = pc,
           BlocksFor(t, reason), NEW u \in Tasks
    PROVE  PlacedWell(u)
<1>1. blocked_on'[u] = IF u = t THEN reason ELSE blocked_on[u]
  BY DEF TypeOK, TaskTypeOK, Block
<1> QED
  BY <1>1 DEF PlacedWell, Stays, Parks

LEMMA PlacedByMutex ==
    ASSUME TypeOK, Agreement, NEW t \in Tasks, NEW m \in Mutexes,
           Lock(t, m) \/ BlockOnMutex(t, m) \/ Unlock(t, m),
           NEW u \in Tasks
    PROVE  PlacedWell(u)
<1>1. /\ blocked_on[t] = None /\ ~AtEnd(t)
      /\ pc \in [Tasks -> Nat] /\ blocked_on \in [Tasks -> BlockReason]
  BY DEF Agreement, SingleRunner, Lock, BlockOnMutex, Unlock, Executing, TypeOK, TaskTypeOK
<1>2. CASE Lock(t, m)
  <2>1. blocked_on' = blocked_on /\ pc' = [pc EXCEPT ![t] = @ + 1]
    BY <1>2 DEF Lock, Continue, schedVars, Advance
  <2> QED
    BY <1>1, <2>1, PlacedByMoving
<1>3. CASE BlockOnMutex(t, m)
  <2>1. Block(t, <<"Mutex", m>>) /\ pc' = pc /\ current_op(t) = <<"Lock", m>>
    BY <1>3 DEF BlockOnMutex
  <2>2. BlocksFor(t, <<"Mutex", m>>)
    BY <1>1, <2>1 DEF BlocksFor
  <2> QED
    BY <2>1, <2>2, PlacedByBlocking
<1>4. CASE Unlock(t, m)
  <2>1. PICK next \in Tasks \union {NoTask} : Wake(next) /\ AdvanceBoth(t, next)
    BY <1>4 DEF Unlock
  <2>2. \A x \in Tasks : blocked_on'[x] = IF x = next THEN None ELSE blocked_on[x]
    BY <2>1 DEF Wake
  <2>3. \A x \in Tasks : x \notin {t, next} => pc'[x] = pc[x]
    BY <2>1 DEF AdvanceBoth
  <2> QED
    BY <1>1, <2>2, <2>3, PlacedByMoving
<1> QED
  BY <1>2, <1>3, <1>4

LEMMA PlacedBySemaphore ==
    ASSUME TypeOK, Agreement, NEW t \in Tasks, NEW s \in Semaphores,
           SemWait(t, s) \/ SemSignal(t, s),
           NEW u \in Tasks
    PROVE  PlacedWell(u)
<1>1. /\ blocked_on[t] = None /\ ~AtEnd(t)
      /\ pc \in [Tasks -> Nat] /\ blocked_on \in [Tasks -> BlockReason]
  BY DEF Agreement, SingleRunner, SemWait, SemSignal, Executing, TypeOK, TaskTypeOK
<1>2. CASE Continue /\ Advance(t)
  <2>1. blocked_on' = blocked_on /\ pc' = [pc EXCEPT ![t] = @ + 1]
    BY <1>2 DEF Continue, schedVars, Advance
  <2> QED
    BY <1>1, <2>1, PlacedByMoving
<1>3. CASE Block(t, <<"Semaphore", s>>) /\ pc' = pc /\ current_op(t) = <<"SemWait", s>>
  <2>1. BlocksFor(t, <<"Semaphore", s>>)
    BY <1>1, <1>3 DEF BlocksFor
  <2> QED
    BY <1>3, <2>1, PlacedByBlocking
<1>4. ASSUME NEW woken \in Tasks \union {NoTask}, Wake(woken), AdvanceBoth(t, woken)
      PROVE  PlacedWell(u)
  <2>1. \A x \in Tasks : blocked_on'[x] = IF x = woken THEN None ELSE blocked_on[x]
    BY <1>4 DEF Wake
  <2>2. \A x \in Tasks : x \notin {t, woken} => pc'[x] = pc[x]
    BY <1>4 DEF AdvanceBoth
  <2> QED
    BY <1>1, <2>1, <2>2, PlacedByMoving
<1> QED
  BY <1>2, <1>3, <1>4 DEF SemWait, SemSignal

LEMMA PlacedByQueue ==
    ASSUME TypeOK, Agreement, NEW t \in Tasks, NEW q \in Queues,
           QueueSend(t, q) \/ QueueRecv(t, q),
           NEW u \in Tasks
    PROVE  PlacedWell(u)
<1>1. /\ blocked_on[t] = None /\ ~AtEnd(t)
      /\ pc \in [Tasks -> Nat] /\ blocked_on \in [Tasks -> BlockReason]
  BY DEF Agreement, SingleRunner, QueueSend, QueueRecv, Executing, TypeOK, TaskTypeOK
<1>2. ASSUME NEW w \in Tasks \union {NoTask}, Wake(w), Advance(t)
      PROVE  PlacedWell(u)
  <2>1. \A x \in Tasks : blocked_on'[x] = IF x = w THEN None ELSE blocked_on[x]
    BY <1>2 DEF Wake
  <2>2. \A x \in Tasks : x \notin {t, w} => pc'[x] = pc[x]
    BY <1>1, <1>2 DEF Advance
  <2> QED
    BY <1>1, <2>1, <2>2, PlacedByMoving
<1>3. ASSUME NEW kind \in {"QueueSend", "QueueRecv"}, Block(t, <<kind, q>>), pc' = pc,
             current_op(t)[1] = kind, current_op(t)[2] = q
      PROVE  PlacedWell(u)
  <2>1. BlocksFor(t, <<kind, q>>)
    BY <1>1, <1>3 DEF BlocksFor
  <2> QED
    BY <1>3, <2>1, PlacedByBlocking
<1>4. QueueRecv(t, q) => current_op(t)[1] = "QueueRecv" /\ current_op(t)[2] = q
  BY DEF QueueRecv
<1> QED
  BY <1>2, <1>3, <1>4 DEF QueueSend, QueueRecv

LEMMA PlacedStep ==
    ASSUME TypeOK, Agreement, [Next]_vars, NEW u \in Tasks
    PROVE  PlacedWell(u)
<1>1. CASE UNCHANGED vars \/ Tick \/ Idle \/ Finished \/ \E t \in Tasks : Dispatch(t)
  BY <1>1 DEF Tick, Idle, Finished, Dispatch, vars, schedVars, PlacedWell, Stays
<1>2. CASE ServiceInterrupts
  BY <1>2, PlacedByIsr
<1>3. ASSUME NEW t \in Tasks, RunQuantum(t) PROVE PlacedWell(u)
  BY <1>3, PlacedByLocal, PlacedByMutex, PlacedBySemaphore, PlacedByQueue DEF RunQuantum
<1> QED
  BY <1>1, <1>2, <1>3 DEF Next

LEMMA PlaceInit == Init => BlockedAtItsOperation
BY DEF Init, BlockedAtItsOperation

LEMMA PlaceStep ==
    TypeOK /\ Agreement /\ BlockedAtItsOperation /\ [Next]_vars => BlockedAtItsOperation'
<1> SUFFICES ASSUME TypeOK, Agreement, BlockedAtItsOperation, [Next]_vars, NEW u \in Tasks,
                    blocked_on'[u] \notin NoWaitList
             PROVE  BlocksFor(u, blocked_on[u])'
  BY DEF BlockedAtItsOperation, BlocksFor, NoWaitList
<1>1. setup' = setup
  BY McuFrame
<1>2. CASE Stays(u)
  <2>1. BlocksFor(u, blocked_on[u])
    BY <1>2 DEF Stays, BlockedAtItsOperation, BlocksFor, NoWaitList
  <2> QED
    BY <1>1, <1>2, <2>1 DEF Stays, BlocksFor, AtEnd, current_op, program
<1>3. CASE Parks(u)
  BY <1>1, <1>3 DEF Parks, BlocksFor, AtEnd, current_op, program
<1> QED
  BY <1>2, <1>3, PlacedStep DEF PlacedWell, Frees

\* A task that waits for an object stands at the operation that made it wait,
\* so a retry or a hand-over resumes it at the right place: for any programs,
\* any preemptions and any order of wake-ups.
THEOREM BlockedInPlace == Spec => []BlockedAtItsOperation
<1>1. TypeOK /\ Agreement /\ BlockedAtItsOperation /\ [Next]_vars => BlockedAtItsOperation'
  BY PlaceStep
<1> QED
  BY <1>1, PlaceInit, TypeCorrect, AgreementCorrect, PTL DEF Spec

\* Who goes on in its program: the running task, or the waiter it hands a mutex
\* or a unit.
LEMMA WhoGoesOn ==
    ASSUME TypeOK, Agreement, Next, NEW u \in Tasks, pc'[u] = pc[u] + 1
    PROVE  \/ mode = "quantum" /\ running = u
           \/ \E m \in Mutexes : blocked_on[u] = <<"Mutex", m>>
           \/ \E t \in Tasks, s \in Semaphores :
                 SemSignal(t, s) /\ blocked_on[u] = <<"Semaphore", s>>
<1> SUFFICES ASSUME ~(mode = "quantum" /\ running = u)
             PROVE  \/ \E m \in Mutexes : blocked_on[u] = <<"Mutex", m>>
                    \/ \E t \in Tasks, s \in Semaphores :
                          SemSignal(t, s) /\ blocked_on[u] = <<"Semaphore", s>>
  OBVIOUS
<1>1. pc \in [Tasks -> Nat]
  BY DEF TypeOK, TaskTypeOK
<1>2. pc'[u] # pc[u] /\ pc'[u] # 0
  BY <1>1
<1>3. ~(Tick \/ Idle \/ Finished \/ \E t \in Tasks : Dispatch(t))
  BY <1>2 DEF Tick, Idle, Finished, Dispatch, vars
<1>4. ~ServiceInterrupts
  <2>1. CASE "Timer" \notin pending
    BY <1>2, <2>1 DEF ServiceInterrupts
  <2>2. CASE "Timer" \in pending
    BY <1>2, <2>2 DEF ServiceInterrupts, on_tick
  <2> QED
    BY <2>1, <2>2
<1>5. PICK t \in Tasks : RunQuantum(t)
  BY <1>3, <1>4 DEF Next
<1>6. t # u
  BY <1>5 DEF RunQuantum, EndOfProgram, Compute, Delay, Peripheral, Lock, BlockOnMutex,
     Unlock, SemWait, SemSignal, QueueSend, QueueRecv, Executing
<1>7. ~(EndOfProgram(t) \/ Compute(t) \/ Delay(t) \/ Peripheral(t))
  BY <1>1, <1>2, <1>6 DEF EndOfProgram, Compute, Delay, Peripheral, complete_job, Advance
<1>8. \A m \in Mutexes : ~(Lock(t, m) \/ BlockOnMutex(t, m))
  BY <1>1, <1>2, <1>6 DEF Lock, BlockOnMutex, Advance
<1>9. \A s \in Semaphores : ~SemWait(t, s)
  BY <1>1, <1>2, <1>6 DEF SemWait, Advance
<1>10. \A q \in Queues : ~(QueueSend(t, q) \/ QueueRecv(t, q))
  BY <1>1, <1>2, <1>6 DEF QueueSend, QueueRecv, Advance
<1>11. ASSUME NEW m \in Mutexes, Unlock(t, m) PROVE blocked_on[u] = <<"Mutex", m>>
  <2>1. PICK next \in Tasks \union {NoTask} :
           release(m, t, eff_priority, next) /\ AdvanceBoth(t, next)
    BY <1>11 DEF Unlock
  <2>2. u = next
    BY <1>2, <1>6, <2>1 DEF AdvanceBoth
  <2>3. u \in waiters[m]
    BY <2>1, <2>2, BestSubset, TasksAssumption DEF release
  <2> QED
    BY <2>3 DEF Agreement, MutexConsistent
<1>12. ASSUME NEW s \in Semaphores, SemSignal(t, s) PROVE blocked_on[u] = <<"Semaphore", s>>
  <2>1. PICK taker \in Tasks \union {NoTask} :
           signal(s, eff_priority, taker) /\ AdvanceBoth(t, taker)
    BY <1>12 DEF SemSignal
  <2>2. u = taker
    BY <1>2, <1>6, <2>1 DEF AdvanceBoth
  <2>3. u \in sem_waiters[s]
    BY <2>1, <2>2, BestSubset, TasksAssumption DEF signal
  <2> QED
    BY <2>3 DEF Agreement, WaitListsConsistent
<1> QED
  BY <1>5, <1>7, <1>8, <1>9, <1>10, <1>11, <1>12 DEF RunQuantum
=============================================================================
