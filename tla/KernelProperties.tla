-------------------------- MODULE KernelProperties --------------------------
(***************************************************************************)
(* Properties of Kernel!Spec that count or sum over programs and tasks, or *)
(* follow chains of blocked tasks.                                         *)
(***************************************************************************)
EXTENDS KernelInvariants, TaskSets

\* What t has executed, given what each operation of its program contributes:
\* its completed jobs and the part of the current one that lies behind it.
Executed(t, amounts) ==
    jobs_completed[t] * SumFunction(amounts) + SumFunctionOnSet(amounts, 1..pc[t])

\* Which operations of a program write a text, and which toggle pin p.
Writes(prog) == [i \in DOMAIN prog |-> IF prog[i][1] = "Uart" THEN 1 ELSE 0]
Toggles(prog, p) == [i \in DOMAIN prog |-> IF prog[i] = <<"GpioToggle", p>> THEN 1 ELSE 0]

\* The CPU time charged to a task is the work its program asked for: the full
\* budget for every completed job, and for the active one what lies before its
\* position and the part of the current Compute already done.  Preemption,
\* blocking and retries neither repeat nor skip a tick of work.
JobCost ==
    \A t \in Tasks :
        cpu_ticks[t] = Executed(t, Works(program(t))) +
            (IF compute_remaining[t] = 0 THEN 0
             ELSE current_op(t)[2] - compute_remaining[t])

\* A tick gives the CPU to one task for at most one unit of work, and an idle
\* tick to none: time charged and time idle never exceed the clock.
OneUnitPerTick ==
    SumFunction(cpu_ticks) + idle_ticks <= now

\* A text leaves the UART exactly once for each time a program writes it, and
\* a pin is up exactly when it was toggled an odd number of times (in programs
\* that set no pin): a task that was blocked, woken or handed a mutex resumes
\* without repeating or skipping an operation.  Writes to missing pins vanish.
EffectsExactlyOnce ==
    /\ Len(tx) = SumFunction([t \in Tasks |-> Executed(t, Writes(program(t)))])
    /\ (\A t \in Tasks : \A i \in 1..Len(program(t)) : program(t)[i][1] # "GpioSet") =>
         \A p \in Pins :
            pins[p] <=>
              SumFunction([t \in Tasks |-> Executed(t, Toggles(program(t), p))]) % 2 = 1

-----------------------------------------------------------------------------
\* Position p of prog is between a Lock of m and the Unlock after it.
InsideAt(prog, p, m) ==
    \E i \in 1..p : prog[i] = <<"Lock", m>> /\ \A j \in i..p : prog[j] # <<"Unlock", m>>

\* By its position alone, t is in the section of m.
Inside(t, m) == InsideAt(program(t), pc[t], m)

\* Two tasks are never inside the section of one mutex, judged by where they
\* stand in their programs and not by what the mutex or the tasks record.
MutualExclusion ==
    \A m \in Mutexes, t, u \in Tasks :
        Inside(t, m) /\ Inside(u, m) => t = u

\* t waits for a mutex that o owns.
WaitsOn(t, o) == \E m \in Mutexes : blocked_on[t] = <<"Mutex", m>> /\ owner[m] = o

\* The tasks t waits for, directly or through other blocked tasks.
ChainFrom(t) ==
    {o \in Owners : \A S \in SUBSET Owners :
        (\A x \in S \union {t}, y \in Owners : WaitsOn(x, y) => y \in S) => o \in S}

\* When a task is picked while an urgent one is blocked behind a schedulable
\* task, the picked task is at least as urgent: work of middling priority is
\* never what keeps the urgent task waiting.
NoInversion ==
    [][setup.priority_inheritance /\ mode = "dispatch" /\ mode' = "quantum" =>
          \A h \in Tasks : ChainFrom(h) \intersect Runnable # {} =>
              eff_priority[running'] >= base_priority(h)]_vars

\* A program takes mutexes in increasing order and releases each one it took.
LocksInOrder(prog) ==
    \A i \in 1..Len(prog) : prog[i][1] = "Lock" =>
        \E j \in i+1..Len(prog) :
            /\ prog[j] = <<"Unlock", prog[i][2]>>
            /\ \A k \in i+1..j-1 : prog[k][1] = "Lock" => prog[k][2] > prog[i][2]

\* Tasks that take mutexes in one order never wait in a circle, nor a task
\* for itself.
OrderedLocksNeverDeadlock ==
    (\A t \in Tasks : LocksInOrder(program(t))) =>
        \A t \in Tasks : t \notin ChainFrom(t)

\* t waits, directly or through others, on a circle: for one of a set of owners
\* each of which waits for one of them.
Deadlocked(t) ==
    \E S \in SUBSET Owners : \A x \in S \union {t} : \E y \in S : WaitsOn(x, y)

\* A deadlock is contained: a task that waits on a circle stays where it is,
\* with what it holds.  Neither the interrupt, nor the next period, nor an
\* Unlock by a task outside the circle moves it or takes a mutex from it.
CycleContained ==
    [][\A t \in Tasks : Deadlocked(t) =>
          /\ blocked_on'[t] = blocked_on[t]
          /\ held_mutexes'[t] = held_mutexes[t]
          /\ pc'[t] = pc[t]]_vars

\* A turn of the loop of apply_inheritance: the task it stands at, the priorities
\* so far, and whether it has left the loop.
loop_turn(s) ==
    LET raised == {o \in Tasks : WaitsFor(s.current, o) /\ s.eff[s.current] > s.eff[o]}
        o == CHOOSE o \in raised : TRUE
    IN  IF raised = {} THEN [s EXCEPT !.left = TRUE]
        ELSE [s EXCEPT !.current = o, !.eff[o] = s.eff[s.current]]

\* The loop for t, turn by turn.
inheritance_loop(t) ==
    LET turn[n \in 0..Cardinality(Tasks)] ==
            IF n = 0 THEN [current |-> t, eff |-> eff_priority, left |-> FALSE]
                     ELSE loop_turn(turn[n-1])
    IN  turn

\* The walk down the chain of owners ends, after no more turns than there are
\* tasks and also when the chain is a circle, and it leaves the priorities that
\* the set of boosted owners describes.
BoostIsTheWalk ==
    [][\A t \in Tasks, m \in Mutexes :
          /\ setup.priority_inheritance
          /\ blocked_on[t] = None
          /\ blocked_on'[t] = <<"Mutex", m>>
          => LET last == inheritance_loop(t)[Cardinality(Tasks)]
             IN  last.left /\ eff_priority' = last.eff]_vars

\* Liveness: a task that blocks on a mutex comes to own it, when mutexes are
\* taken in order and the run is long enough for every job to end.
LockGranted ==
    \A t \in Tasks, m \in Mutexes :
        blocked_on[t] = <<"Mutex", m>> ~> owner[m] = t

-----------------------------------------------------------------------------
(***************************************************************************)
(* What the documentation says of time.                                    *)
(***************************************************************************)

\* A job completes on the tick of its last unit of work: between ticks no job
\* that has used its whole budget is still active.
JobEndsWithItsBudget ==
    \A t \in Tasks :
        LET budget == compute_budget(program(t))
        IN  mode = "tick" /\ job_active[t] /\ budget > 0 =>
                cpu_ticks[t] < (jobs_completed[t] + 1) * budget

\* A job that has not finished when its deadline is reached is flagged there,
\* before it runs on.
MissFlaggedAtDeadline ==
    \A t \in Tasks :
        mode = "quantum" /\ job_active[t] /\ deadline[t] # Never /\ now >= deadline[t]
            => missed_current[t]
=============================================================================
