----------------------- MODULE KernelRefinesProcessor -----------------------
(***************************************************************************)
(* The kernel implements the ideal processor, for tasks that only compute. *)
(***************************************************************************)
EXTENDS KernelProperties

\* What is left of the active job of t.
work_left(t) ==
    IF ~job_active[t] THEN 0
    ELSE compute_budget(program(t)) - SumFunctionOnSet(Works(program(t)), 1..pc[t])
            - (IF compute_remaining[t] = 0 THEN 0
               ELSE current_op(t)[2] - compute_remaining[t])

\* The processor's time moves with the interrupt, the kernel's before it.
ProcessorOf ==
    INSTANCE Processor WITH
        time <- IF mode = "isr" THEN now - 1 ELSE now,
        turn <- IF mode \in {"tick", "isr"} THEN "arrive" ELSE "serve",
        left <- [t \in Tasks |-> work_left(t)],
        arrived <- jobs_released,
        served <- jobs_completed,
        due_by <- deadline,
        late <- deadlines_missed

\* Programs of Compute operations, the last of them not 0, and periods not 0:
\* no job is empty or ends later than its work.
OnlyComputes ==
    \A t \in Tasks :
        /\ period(t) # 0
        /\ program(t) # <<>>
        /\ \A i \in DOMAIN program(t) : program(t)[i][1] = "Compute"
        /\ program(t)[Len(program(t))][2] > 0

\* For such tasks the steps of a tick, from the timer to the last operation of
\* the quantum, amount to one tick of the processor: preemption, dispatch, the
\* saved rest of an operation and the re-release of overrun jobs neither lose
\* nor add work, and nobody runs before a more urgent task.  The setup never
\* changes, so this says OnlyComputes => ProcessorOf!PSpec.
ImplementsProcessor ==
    /\ OnlyComputes => ProcessorOf!PInit
    /\ [][OnlyComputes => ProcessorOf!PNext]_(ProcessorOf!processorVars)
=============================================================================
