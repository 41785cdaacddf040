-------------------------- MODULE KernelInvariants --------------------------
(***************************************************************************)
(* What makes the kernel correct: its invariants and what its steps may    *)
(* never do, as properties of the specification Kernel!Spec.               *)
(***************************************************************************)
EXTENDS Kernel

TaskTypeOK ==
    /\ state \in [Tasks -> TaskState]
    /\ blocked_on \in [Tasks -> BlockReason]
    /\ wake_at \in [Tasks -> Nat]
    /\ pc \in [Tasks -> Nat]
    /\ compute_remaining \in [Tasks -> Nat]
    /\ cpu_ticks \in [Tasks -> Nat]

PriorityTypeOK ==
    /\ eff_priority \in [Tasks -> Priority]
    /\ held_mutexes \in [Tasks -> SUBSET Mutexes]

JobTypeOK ==
    /\ next_release \in [Tasks -> Nat \union {Never}]
    /\ deadline \in [Tasks -> Nat \union {Never}]
    /\ job_active \in [Tasks -> BOOLEAN]
    /\ missed_current \in [Tasks -> BOOLEAN]
    /\ jobs_released \in [Tasks -> Nat]
    /\ jobs_completed \in [Tasks -> Nat]
    /\ deadlines_missed \in [Tasks -> Nat]

ControlTypeOK ==
    /\ now \in Nat
    /\ idle_ticks \in Nat
    /\ preemptions \in [Tasks -> Nat]
    /\ invariant_violations \in Nat
    /\ running \in Tasks \union {NoTask}
    /\ mode \in {"tick", "isr", "dispatch", "quantum"}

\* Every variable has the type of the field it models.
TypeOK ==
    /\ setup \in Setup
    /\ MutexTypeOK
    /\ SemTypeOK
    /\ QueueTypeOK
    /\ McuTypeOK
    /\ TaskTypeOK
    /\ PriorityTypeOK
    /\ JobTypeOK
    /\ ControlTypeOK

-----------------------------------------------------------------------------
(***************************************************************************)
(* Tasks and jobs.                                                         *)
(***************************************************************************)

\* At most one task is in state Running, it is the one the kernel calls
\* running, and a task has a reason to be blocked exactly when it is Blocked:
\* the fields run_quantum, on_tick and complete_job set one by one agree.
SingleRunner ==
    /\ \A t \in Tasks : state[t] = "Running" <=> running = t
    /\ \A t \in Tasks : blocked_on[t] # None <=> state[t] = "Blocked"
    /\ mode = "quantum" => running \in Tasks

\* A task has an active job unless it was never released, has ended its only
\* job, or is parked until its next release.
ActivityAgrees ==
    \A t \in Tasks :
        job_active[t] <=> state[t] # "Suspended" /\ blocked_on[t] # WaitPeriod

\* Every job released is either completed or active, a task without a job is
\* parked and waits for nothing else, and a one-shot task gets one job.
JobLifecycle ==
    /\ ActivityAgrees
    /\ \A t \in Tasks :
        /\ jobs_released[t] = jobs_completed[t] + (IF job_active[t] THEN 1 ELSE 0)
        /\ period(t) = Never => /\ jobs_released[t] <= 1
                                /\ next_release[t] = Never <=> jobs_released[t] = 1

\* on_tick loses no release: however long a job overruns, the next release
\* stays on the grid of the first one, one period per job released.
ReleasesKeepPhase ==
    \A t \in Tasks : period(t) # Never =>
        next_release[t] = setup.release_phase[t] + period(t) * jobs_released[t]

\* The timer raises its interrupt every reload ticks and none is lost between
\* the timer, the latch and the kernel.
TimerExact ==
    /\ fired = now \div reload
    /\ fired = serviced + Cardinality(pending)

\* Once the tick interrupt has run nothing it looks after is left undone: no
\* job is due, no sleeper has slept too long, and a job at its deadline is
\* flagged.  Each job counts as missed at most once.
TickServicesAll ==
    /\ mode = "dispatch" /\ now % reload = 0 =>
        \A t \in Tasks :
            /\ ~(~job_active[t] /\ next_release[t] # Never /\ now >= next_release[t])
            /\ ~(blocked_on[t] = Sleep /\ now >= wake_at[t])
            /\ job_active[t] /\ deadline[t] # Never /\ now >= deadline[t]
                 => missed_current[t]
    /\ \A t \in Tasks : deadlines_missed[t] <= jobs_released[t]

-----------------------------------------------------------------------------
(***************************************************************************)
(* Synchronization.                                                        *)
(***************************************************************************)

\* The mutex and the task agree: a task holds exactly the mutexes that name it
\* as owner, it is on the wait list of exactly the mutex it is blocked on, and
\* nobody waits for a free mutex.  Lock, Unlock, the hand-off and the wakes
\* keep the two sides in separate fields.
MutexConsistent ==
    /\ \A m \in Mutexes, t \in Tasks : owner[m] = t <=> m \in held_mutexes[t]
    /\ \A m \in Mutexes, t \in Tasks :
          t \in waiters[m] <=> blocked_on[t] = <<"Mutex", m>>
    /\ \A m \in Mutexes : is_free(m) => waiters[m] = {}

\* The same agreement for the wait lists of semaphores and queues: a task on a
\* list is blocked for that list and no other.
WaitListsConsistent ==
    \A t \in Tasks :
        /\ \A s \in Semaphores :
              t \in sem_waiters[s] <=> blocked_on[t] = <<"Semaphore", s>>
        /\ \A q \in Queues :
              /\ t \in recv_waiters[q] <=> blocked_on[t] = <<"QueueRecv", q>>
              /\ t \in send_waiters[q] <=> blocked_on[t] = <<"QueueSend", q>>

\* A blocked task stands at the operation that blocked it, so that a retry or
\* a hand-off resumes it at the right place.
BlockedAtItsOperation ==
    \A t \in Tasks :
        blocked_on[t] \notin {None, Sleep, WaitPeriod} =>
            /\ ~AtEnd(t)
            /\ LET op == current_op(t)
               IN  \/ op[1] = "Lock" /\ blocked_on[t] = <<"Mutex", op[2]>>
                   \/ op[1] = "SemWait" /\ blocked_on[t] = <<"Semaphore", op[2]>>
                   \/ /\ op[1] \in {"QueueSend", "QueueRecv"}
                      /\ blocked_on[t] = <<op[1], op[2]>>

\* No task waits on a semaphore that has a unit to give.
NoStrandedUnit ==
    \A s \in Semaphores :
        /\ count[s] > 0 => sem_waiters[s] = {}
        /\ count[s] <= sem_max(s)

\* A queue never holds more than its capacity, and every value sent is either
\* received or still in the buffer.
QueueConserves ==
    \A q \in Queues :
        /\ Len(buf[q]) <= capacity(q)
        /\ sent[q] = received[q] + Len(buf[q])

\* The tasks that are about to retry or perform op on q.
Attempting(op, q) ==
    {t \in Runnable : ~AtEnd(t) /\ current_op(t)[1] = op /\ current_op(t)[2] = q}

\* No wake-up is lost: while a receiver sleeps, every value in the buffer has
\* a schedulable task that is about to take one; while a sender sleeps, so has
\* every free slot.  A woken task may be overtaken, the queue is not forgotten.
NoLostWakeup ==
    \A q \in Queues :
        /\ recv_waiters[q] # {} =>
             Len(buf[q]) <= Cardinality(Attempting("QueueRecv", q))
        /\ send_waiters[q] # {} =>
             capacity(q) - Len(buf[q]) <= Cardinality(Attempting("QueueSend", q))

-----------------------------------------------------------------------------
(***************************************************************************)
(* Priority inheritance.                                                   *)
(***************************************************************************)

\* With inheritance on, the effective priority of a task is exactly its base
\* priority or, if greater, that of the most urgent task waiting for a mutex
\* it holds: no boost is missing, however long the chain, and none outlives
\* its reason.  With inheritance off it is the base priority.
InheritanceExact ==
    IF setup.priority_inheritance
    THEN \A h \in Tasks :
            LET claims == {base_priority(h)} \union
                    UNION {{eff_priority[w] : w \in waiters[m]} : m \in held_mutexes[h]}
            IN  /\ eff_priority[h] \in claims
                /\ \A p \in claims : eff_priority[h] >= p
    ELSE \A h \in Tasks : eff_priority[h] = base_priority(h)

\* A task's priority rises only in a step in which some task blocks on a
\* mutex.  Releasing a mutex raises nobody: its new owner was the most urgent
\* waiter, so recomputing its priority changes nothing.
RisesOnlyWhenBlocking ==
    [][\A t \in Tasks : eff_priority'[t] > eff_priority[t] =>
          \E x \in Tasks, m \in Mutexes :
              blocked_on[x] = None /\ blocked_on'[x] = <<"Mutex", m>>]_vars

\* A mutex that tasks wait for passes to the most urgent of them and to nobody
\* else: no running task barges in.
MutexHandedToWaiter ==
    [][\A m \in Mutexes : owner'[m] # owner[m] /\ waiters[m] # {} =>
          /\ owner'[m] \in waiters[m]
          /\ \A w \in waiters[m] : eff_priority[owner'[m]] >= eff_priority[w]]_vars
=============================================================================
