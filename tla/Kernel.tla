------------------------------- MODULE Kernel -------------------------------
(***************************************************************************)
(* The kernel: the tick loop, the tick interrupt, the scheduler, the       *)
(* interpreter of task programs, the job life cycle and priority           *)
(* inheritance.  It composes the synchronization objects and the hardware. *)
(*                                                                         *)
(* One call of Kernel::step is a sequence of actions, told apart by mode:  *)
(*                                                                         *)
(*   "tick"      time advances and the hardware is clocked                 *)
(*   "isr"       pending interrupts are drained; the timer runs on_tick    *)
(*   "dispatch"  the scheduler picks a task, or the CPU idles              *)
(*   "quantum"   the picked task runs one operation per action until a     *)
(*               Compute uses up the tick, it blocks, or its job ends      *)
(*                                                                         *)
(* The event log and the tick records only report these steps and are left *)
(* out.  Program positions count from 0, as in the code.                   *)
(***************************************************************************)
EXTENDS Mutex, Semaphore, Queue, Mcu

VARIABLES
    \* The scheduler's view of each task.
    state, blocked_on, eff_priority, held_mutexes, wake_at,
    \* The position of each task in its program.
    pc, compute_remaining, cpu_ticks,
    \* The jobs of each task.
    next_release, deadline, job_active, missed_current,
    jobs_released, jobs_completed, deadlines_missed,
    \* The kernel's own fields, and the phase of the current step.
    now, running, idle_ticks, preemptions, invariant_violations, mode

schedVars == <<state, blocked_on, running, mode>>
lockVars == <<held_mutexes, eff_priority>>
computeVars == <<compute_remaining, cpu_ticks>>
jobVars == <<next_release, deadline, job_active, missed_current,
             jobs_released, jobs_completed, deadlines_missed>>
clockVars == <<now, idle_ticks, preemptions, invariant_violations>>

\* What an operation of a program never touches, and what only some touch.
quantumFrame == <<setup, clockVars, timerVars>>
opVars == <<lockVars, computeVars, jobVars, wake_at>>
syncVars == <<mutexVars, semVars, queueVars>>

vars == <<setup, schedVars, lockVars, computeVars, jobVars, clockVars,
          pc, wake_at, mutexVars, semVars, queueVars, mcuVars>>

Init ==
    /\ setup \in Setups
    /\ MutexInit
    /\ SemInit
    /\ QueueInit
    /\ McuInit
    /\ state = [t \in Tasks |-> "Suspended"]
    /\ blocked_on = [t \in Tasks |-> None]
    /\ eff_priority = [t \in Tasks |-> base_priority(t)]
    /\ held_mutexes = [t \in Tasks |-> {}]
    /\ wake_at = [t \in Tasks |-> 0]
    /\ pc = [t \in Tasks |-> 0]
    /\ compute_remaining = [t \in Tasks |-> 0]
    /\ cpu_ticks = [t \in Tasks |-> 0]
    /\ next_release = [t \in Tasks |-> setup.release_phase[t]]
    /\ deadline = [t \in Tasks |-> 0]
    /\ job_active = [t \in Tasks |-> FALSE]
    /\ missed_current = [t \in Tasks |-> FALSE]
    /\ jobs_released = [t \in Tasks |-> 0]
    /\ jobs_completed = [t \in Tasks |-> 0]
    /\ deadlines_missed = [t \in Tasks |-> 0]
    /\ now = 0
    /\ running = NoTask
    /\ idle_ticks = 0
    /\ preemptions = [t \in Tasks |-> 0]
    /\ invariant_violations = 0
    /\ mode = "tick"

-----------------------------------------------------------------------------
(***************************************************************************)
(* The tick.                                                               *)
(***************************************************************************)
Tick ==
    /\ mode = "tick"
    /\ now < Horizon
    /\ now' = now + 1
    /\ cycle
    /\ mode' = "isr"
    /\ UNCHANGED <<setup, state, blocked_on, running, lockVars, computeVars,
                   jobVars, pc, wake_at, syncVars, idle_ticks, preemptions,
                   invariant_violations>>

\* A fault: a job is released although the one before it is still active.
due_anyway == {t \in Tasks : /\ next_release[t] # Never
                             /\ now >= next_release[t]}

\* The tasks whose next job the interrupt releases.
Due == {t \in Tasks : /\ ~job_active[t]
                      /\ next_release[t] # Never
                      /\ now >= next_release[t]}

\* The sleepers it wakes.  The loop over sleepers follows the one over
\* releases, which leaves no released task asleep.
Awake == {t \in Tasks \ Due : /\ state[t] = "Blocked"
                              /\ blocked_on[t] = Sleep
                              /\ now >= wake_at[t]}

\* A fault: a job may use the tick of its deadline.
overdue_late == {t \in Tasks : /\ job_active'[t]
                               /\ t \in Due \/ ~missed_current[t]
                               /\ deadline'[t] # Never
                               /\ now > deadline'[t]}

\* The jobs, after the releases, that it finds past their deadline.
Overdue == {t \in Tasks : /\ job_active'[t]
                          /\ t \in Due \/ ~missed_current[t]
                          /\ deadline'[t] # Never
                          /\ now >= deadline'[t]}

\* A fault: the next release counts from when the job was released.
following_release_drifting(t) == IF period(t) = Never THEN Never ELSE now + period(t)

\* The release after the one at hand, as far as it is due.
following_release(t) == IF period(t) = Never THEN Never ELSE next_release[t] + period(t)

on_tick ==
    /\ state' = [t \in Tasks |-> IF t \in Due \union Awake THEN "Ready" ELSE state[t]]
    /\ blocked_on' = [t \in Tasks |-> IF t \in Due \union Awake THEN None ELSE blocked_on[t]]
    /\ job_active' = [t \in Tasks |-> t \in Due \/ job_active[t]]
    /\ jobs_released' = [t \in Tasks |-> IF t \in Due THEN jobs_released[t] + 1
                                                      ELSE jobs_released[t]]
    /\ pc' = [t \in Tasks |-> IF t \in Due THEN 0 ELSE pc[t]]
    /\ compute_remaining' =
         [t \in Tasks |-> IF t \in Due THEN 0 ELSE compute_remaining[t]]
    /\ deadline' = [t \in Tasks |->
         IF t \notin Due THEN deadline[t]
         ELSE IF period(t) = Never THEN Never ELSE now + period(t)]
    /\ next_release' = [t \in Tasks |->
         IF t \in Due THEN following_release(t) ELSE next_release[t]]
    /\ missed_current' = [t \in Tasks |->
         t \in Overdue \/ (t \notin Due /\ missed_current[t])]
    /\ deadlines_missed' = [t \in Tasks |->
         IF t \in Overdue THEN deadlines_missed[t] + 1 ELSE deadlines_missed[t]]
    /\ UNCHANGED <<jobs_completed, cpu_ticks>>

ServiceInterrupts ==
    /\ mode = "isr"
    /\ take_pending
    /\ IF "Timer" \in pending
       THEN on_tick
       ELSE UNCHANGED <<state, blocked_on, pc, computeVars, jobVars>>
    /\ mode' = "dispatch"
    /\ UNCHANGED <<setup, running, lockVars, clockVars, wake_at, syncVars>>

-----------------------------------------------------------------------------
(***************************************************************************)
(* The scheduler.                                                          *)
(***************************************************************************)
Runnable == {t \in Tasks : state[t] \in {"Ready", "Running"}}

\* A fault: the lowest id runs, whatever its priority.
pick_by_id == Best(Runnable, [t \in Tasks |-> 0])

\* The candidates of pick: highest effective priority, lowest id.
pick == Best(Runnable, eff_priority)

Idle ==
    /\ mode = "dispatch"
    /\ Runnable = {}
    /\ running' = NoTask
    /\ idle_ticks' = idle_ticks + 1
    /\ mode' = "tick"
    /\ UNCHANGED <<setup, state, blocked_on, lockVars, computeVars, jobVars, pc,
                   wake_at, syncVars, mcuVars, now, preemptions,
                   invariant_violations>>

\* A fault: the task that loses the CPU is not put back to Ready.
nobody_preempted(t) == {}

\* The task, if any, that loses the CPU to t.
Preempted(t) == {prev \in Tasks \ {t} : prev = running /\ state[prev] = "Running"}

\* The kernel's own check of its decision counts a violation when some
\* schedulable task outranks the picked one.
Dispatch(t) ==
    /\ mode = "dispatch"
    /\ t \in pick
    /\ invariant_violations' =
         IF \E u \in Runnable : eff_priority[u] > eff_priority[t]
         THEN invariant_violations + 1
         ELSE invariant_violations
    /\ preemptions' = [u \in Tasks |-> IF u \in Preempted(t) THEN preemptions[u] + 1
                                                             ELSE preemptions[u]]
    /\ state' = [u \in Tasks |-> IF u = t THEN "Running"
                                 ELSE IF u \in Preempted(t) THEN "Ready"
                                 ELSE state[u]]
    /\ running' = t
    /\ mode' = "quantum"
    /\ UNCHANGED <<setup, blocked_on, lockVars, computeVars, jobVars, pc, wake_at,
                   syncVars, mcuVars, now, idle_ticks>>

-----------------------------------------------------------------------------
(***************************************************************************)
(* The interpreter: pieces shared by the operations.                       *)
(***************************************************************************)
AtEnd(t) == pc[t] >= Len(program(t))
current_op(t) == program(t)[pc[t] + 1]

Executing(t) ==
    /\ mode = "quantum"
    /\ running = t
    /\ ~AtEnd(t)

Advance(t) == pc' = [pc EXCEPT ![t] = @ + 1]

\* The quantum goes on with the next operation.
Continue == UNCHANGED schedVars

\* A fault: a Compute does not use the tick up.
quantum_goes_on == Continue

\* The quantum is over and t stays the running task.
EndQuantum ==
    /\ mode' = "tick"
    /\ UNCHANGED <<state, blocked_on, running>>

\* The quantum is over because t cannot go on.
Block(t, reason) ==
    /\ state' = [state EXCEPT ![t] = "Blocked"]
    /\ blocked_on' = [blocked_on EXCEPT ![t] = reason]
    /\ running' = NoTask
    /\ mode' = "tick"

\* A fault: the reason for blocking is not cleared.
wake_keeps_reason(w) ==
    /\ state' = [x \in Tasks |-> IF x = w THEN "Ready" ELSE state[x]]
    /\ UNCHANGED <<blocked_on, running, mode>>

\* The quantum goes on; w, unless it is NoTask, becomes schedulable.
Wake(w) ==
    /\ state' = [x \in Tasks |-> IF x = w THEN "Ready" ELSE state[x]]
    /\ blocked_on' = [x \in Tasks |-> IF x = w THEN None ELSE blocked_on[x]]
    /\ UNCHANGED <<running, mode>>

\* A fault: the waiter is left at the operation that blocked it.
advance_self(t, w) == Advance(t)

\* Where t and the waiter it hands something to go on.
AdvanceBoth(t, w) ==
    pc' = [x \in Tasks |-> IF x \in {t, w} THEN pc[x] + 1 ELSE pc[x]]

\* The job of t is over.  Mutexes it still holds stay held.
complete_job(t) ==
    /\ jobs_completed' = [jobs_completed EXCEPT ![t] = @ + 1]
    /\ job_active' = [job_active EXCEPT ![t] = FALSE]
    /\ pc' = [pc EXCEPT ![t] = 0]
    /\ compute_remaining' = [compute_remaining EXCEPT ![t] = 0]
    /\ IF period(t) # Never
       THEN /\ Block(t, WaitPeriod)
            /\ UNCHANGED next_release
       ELSE /\ state' = [state EXCEPT ![t] = "Suspended"]
            /\ next_release' = [next_release EXCEPT ![t] = Never]
            /\ running' = NoTask
            /\ mode' = "tick"
            /\ UNCHANGED blocked_on
    /\ UNCHANGED <<deadline, missed_current, jobs_released, deadlines_missed>>

-----------------------------------------------------------------------------
(***************************************************************************)
(* Priority inheritance.                                                   *)
(***************************************************************************)
\* x waits for a mutex that o owns.
WaitsFor(x, o) ==
    \E m \in Mutexes : blocked_on'[x] = <<"Mutex", m>> /\ owner[m] = o

\* The tasks that own a mutex.
Owners == {o \in Tasks : \E m \in Mutexes : owner[m] = o}

\* S holds every owner the boost reaches from t: the walk goes on from an
\* owner only when it raised it.
Carries(t, S) ==
    \A x \in S \union {t}, o \in Tasks :
        WaitsFor(x, o) /\ eff_priority[t] > eff_priority[o] => o \in S

\* Faults: only the owner t waits for directly is boosted; nobody is.
boosted_direct(t) == {o \in Tasks : WaitsFor(t, o) /\ eff_priority[t] > eff_priority[o]}

boosted_nobody(t) == {}

\* The owners on the chain of blocked owners that starts at t, up to the
\* first that is already as urgent as t.
Boosted(t) == {o \in Owners : \A S \in SUBSET Owners : Carries(t, S) => o \in S}

apply_inheritance(t) ==
    eff_priority' = [o \in Tasks |-> IF o \in Boosted(t) THEN eff_priority[t]
                                                         ELSE eff_priority[o]]

\* The base priority of h and the priorities of the tasks waiting for a mutex
\* in held.  The waiters are those left after the release.
Claims(h, held, eff) ==
    {base_priority(h)} \union
        {eff[w] : w \in {x \in Tasks : \E m \in held : x \in waiters'[m]}}

\* The priority recompute_holder gives to h: the greatest claim.
recompute_holder(h, held, eff) ==
    {p \in Claims(h, held, eff) : \A c \in Claims(h, held, eff) : p >= c}

\* A fault: the old owner drops to its base priority, whatever else it holds.
restore_base(t, next) ==
    eff_priority' = [eff_priority EXCEPT ![t] = base_priority(t)]

\* The old owner t, then the new one, drop boosts that are not justified.
Restore(t, next) ==
    \E p \in recompute_holder(t, held_mutexes'[t], eff_priority) :
        LET eff == [eff_priority EXCEPT ![t] = p]
        IN  IF next = NoTask
            THEN eff_priority' = eff
            ELSE \E r \in recompute_holder(next, held_mutexes'[next], eff) :
                     eff_priority' = [eff EXCEPT ![next] = r]

-----------------------------------------------------------------------------
(***************************************************************************)
(* The operations of a program, run on behalf of the running task t.       *)
(***************************************************************************)
EndOfProgram(t) ==
    /\ mode = "quantum"
    /\ running = t
    /\ AtEnd(t)
    /\ complete_job(t)
    /\ UNCHANGED <<quantumFrame, lockVars, cpu_ticks, wake_at, syncVars, portVars>>

\* Compute(n) takes n quanta.  The job ends on the tick of its last operation.
Compute(t) ==
    /\ Executing(t)
    /\ current_op(t)[1] = "Compute"
    /\ LET left == IF compute_remaining[t] = 0 THEN current_op(t)[2]
                                               ELSE compute_remaining[t]
       IN  \/ /\ left = 0
              /\ Advance(t)
              /\ Continue
              /\ UNCHANGED <<computeVars, jobVars>>
           \/ /\ left > 0
              /\ cpu_ticks' = [cpu_ticks EXCEPT ![t] = @ + 1]
              /\ \/ /\ left > 1
                    /\ compute_remaining' = [compute_remaining EXCEPT ![t] = left - 1]
                    /\ EndQuantum
                    /\ UNCHANGED <<pc, jobVars>>
                 \/ /\ left = 1
                    /\ pc[t] + 1 < Len(program(t))
                    /\ compute_remaining' = [compute_remaining EXCEPT ![t] = 0]
                    /\ Advance(t)
                    /\ EndQuantum
                    /\ UNCHANGED jobVars
                 \/ /\ left = 1
                    /\ pc[t] + 1 >= Len(program(t))
                    /\ complete_job(t)
    /\ UNCHANGED <<quantumFrame, lockVars, wake_at, syncVars, portVars>>

Delay(t) ==
    /\ Executing(t)
    /\ current_op(t)[1] = "Delay"
    /\ Advance(t)
    /\ LET n == current_op(t)[2]
       IN  \/ n = 0 /\ Continue /\ UNCHANGED wake_at
           \/ n > 0 /\ Block(t, Sleep) /\ wake_at' = [wake_at EXCEPT ![t] = now + n]
    /\ UNCHANGED <<quantumFrame, lockVars, computeVars, jobVars, syncVars, portVars>>

Peripheral(t) ==
    /\ Executing(t)
    /\ LET op == current_op(t)
       IN  \/ op[1] = "GpioSet" /\ gpio_set(op[2], op[3])
           \/ op[1] = "GpioToggle" /\ gpio_toggle(op[2])
           \/ op[1] = "Uart" /\ uart_write(op[2])
    /\ Advance(t)
    /\ Continue
    /\ UNCHANGED <<quantumFrame, opVars, syncVars>>

Lock(t, m) ==
    /\ Executing(t)
    /\ current_op(t) = <<"Lock", m>>
    /\ try_acquire(m, t)
    /\ held_mutexes' = [held_mutexes EXCEPT ![t] = @ \union {m}]
    /\ Advance(t)
    /\ Continue
    /\ UNCHANGED <<quantumFrame, eff_priority, computeVars, jobVars, wake_at,
                   semVars, queueVars, portVars>>

BlockOnMutex(t, m) ==
    /\ Executing(t)
    /\ current_op(t) = <<"Lock", m>>
    /\ ~is_free(m)
    /\ add_waiter(m, t)
    /\ Block(t, <<"Mutex", m>>)
    /\ IF setup.priority_inheritance THEN apply_inheritance(t)
                                     ELSE UNCHANGED eff_priority
    /\ UNCHANGED <<quantumFrame, pc, held_mutexes, computeVars, jobVars, wake_at,
                   semVars, queueVars, portVars>>

\* The best waiter is handed the mutex and goes on after its Lock.
Unlock(t, m) ==
    /\ Executing(t)
    /\ current_op(t) = <<"Unlock", m>>
    /\ \E next \in Tasks \union {NoTask} :
          /\ release(m, t, eff_priority, next)
          /\ held_mutexes' = [x \in Tasks |->
                IF x = next THEN held_mutexes[x] \union {m}
                ELSE IF x = t THEN held_mutexes[x] \ {m}
                ELSE held_mutexes[x]]
          /\ Wake(next)
          /\ AdvanceBoth(t, next)
          /\ IF setup.priority_inheritance THEN Restore(t, next)
                                           ELSE UNCHANGED eff_priority
    /\ UNCHANGED <<quantumFrame, computeVars, jobVars, wake_at, semVars, queueVars,
                   portVars>>

SemWait(t, s) ==
    /\ Executing(t)
    /\ current_op(t) = <<"SemWait", s>>
    /\ \/ try_wait(s) /\ Advance(t) /\ Continue
       \/ /\ count[s] = 0
          /\ sem_add_waiter(s, t)
          /\ Block(t, <<"Semaphore", s>>)
          /\ UNCHANGED pc
    /\ UNCHANGED <<quantumFrame, opVars, mutexVars, queueVars, portVars>>

\* A woken waiter has its unit and goes on after its SemWait.
SemSignal(t, s) ==
    /\ Executing(t)
    /\ current_op(t) = <<"SemSignal", s>>
    /\ \E woken \in Tasks \union {NoTask} :
          /\ signal(s, eff_priority, woken)
          /\ Wake(woken)
          /\ AdvanceBoth(t, woken)
    /\ UNCHANGED <<quantumFrame, opVars, mutexVars, queueVars, portVars>>

\* A woken receiver has not received: it will retry.
QueueSend(t, q) ==
    /\ Executing(t)
    /\ current_op(t)[1] = "QueueSend"
    /\ current_op(t)[2] = q
    /\ \/ /\ try_send(q, current_op(t)[3])
          /\ \E r \in Tasks \union {NoTask} : wake_receiver(q, eff_priority, r) /\ Wake(r)
          /\ Advance(t)
       \/ /\ is_full(q)
          /\ send_waiters' = [send_waiters EXCEPT ![q] = @ \union {t}]
          /\ Block(t, <<"QueueSend", q>>)
          /\ UNCHANGED <<pc, buf, recv_waiters, sent, received>>
    /\ UNCHANGED <<quantumFrame, opVars, mutexVars, semVars, portVars>>

QueueRecv(t, q) ==
    /\ Executing(t)
    /\ current_op(t) = <<"QueueRecv", q>>
    /\ \/ /\ try_recv(q)
          /\ \E s \in Tasks \union {NoTask} : wake_sender(q, eff_priority, s) /\ Wake(s)
          /\ Advance(t)
       \/ /\ is_empty(q)
          /\ recv_waiters' = [recv_waiters EXCEPT ![q] = @ \union {t}]
          /\ Block(t, <<"QueueRecv", q>>)
          /\ UNCHANGED <<pc, buf, send_waiters, sent, received>>
    /\ UNCHANGED <<quantumFrame, opVars, mutexVars, semVars, portVars>>

-----------------------------------------------------------------------------
\* run(ticks) has returned: the bound of the model, not a stop of the kernel.
Finished ==
    /\ mode = "tick"
    /\ now = Horizon
    /\ UNCHANGED vars

RunQuantum(t) ==
    \/ EndOfProgram(t)
    \/ Compute(t)
    \/ Delay(t)
    \/ Peripheral(t)
    \/ \E m \in Mutexes : Lock(t, m) \/ BlockOnMutex(t, m) \/ Unlock(t, m)
    \/ \E s \in Semaphores : SemWait(t, s) \/ SemSignal(t, s)
    \/ \E q \in Queues : QueueSend(t, q) \/ QueueRecv(t, q)

Next ==
    \/ Tick
    \/ ServiceInterrupts
    \/ Idle
    \/ \E t \in Tasks : Dispatch(t) \/ RunQuantum(t)
    \/ Finished

Spec == Init /\ [][Next]_vars

\* The run loop always goes on to its next step.
FairSpec == Spec /\ WF_vars(Next)
=============================================================================
