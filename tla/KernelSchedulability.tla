------------------------ MODULE KernelSchedulability ------------------------
(***************************************************************************)
(* The schedulability analysis against the kernel.  The analysis looks at  *)
(* a task set alone; the kernel runs it, one tick at a time.  The          *)
(* properties say what one tells of the other, for sets of independent     *)
(* tasks that compute; the runs release them all at tick 1.                *)
(***************************************************************************)
EXTENDS KernelRefinesProcessor, Schedulability

task_set == TaskSetOf(setup)

Response(t) == response_time(task_set, t)

\* The task sets the analysis is about: independent tasks that compute, on a
\* clock that interrupts at every tick, where no task shares its priority with a
\* periodic one and none more urgent than a periodic one has no period.
Analysable ==
    /\ OnlyComputes
    /\ setup.tick_reload <= 1
    /\ \A t \in Periodic(task_set) : \A u \in Tasks \ {t} :
          /\ base_priority(u) # base_priority(t)
          /\ base_priority(u) > base_priority(t) => period(u) # Never

\* All are released at tick 1, as add_task leaves them.
Synchronous == \A t \in Periodic(task_set) : setup.release_phase[t] = 1

\* Or each from a tick of its own on, as the scenarios stagger them.
Staggered == \A t \in Periodic(task_set) : setup.release_phase[t] >= 1

\* More urgent tasks have no longer periods.
RateMonotone ==
    \A t, u \in Periodic(task_set) :
        base_priority(u) > base_priority(t) => period(u) <= period(t)

\* The ticks the active job of t has been there for, at the end of a tick.
Age(t) == now - (deadline[t] - period(t))

\* The verdict of the analysis is that of the run: no job of a task with a
\* response time misses its deadline, and a task without one has missed its
\* first deadline as soon as that deadline is reached.
AnalysisExact ==
    \A t \in Periodic(task_set) :
        /\ Response(t) # Never => deadlines_missed[t] = 0
        /\ Response(t) = Never /\ mode = "quantum" /\ now > period(t)
             => deadlines_missed[t] >= 1

\* The response time is the worst case, and the first job meets with it: the
\* first job of t ends on tick R and not before, and no job of t, however
\* often it is preempted, takes longer.
ResponseExact ==
    \A t \in Periodic(task_set) : Response(t) # Never =>
        /\ jobs_completed[t] >= 1 => now >= Response(t)
        /\ mode = "tick" /\ job_active[t] => Age(t) + 1 < Response(t)

\* The part of both that holds for every phases: the response time is a bound
\* that no job exceeds, and no deadline is missed.
ResponseSafe ==
    \A t \in Periodic(task_set) : Response(t) # Never =>
        /\ deadlines_missed[t] = 0
        /\ mode = "tick" /\ job_active[t] => Age(t) + 1 < Response(t)

\* The schedule of a schedulable set repeats after the hyperperiod: at its
\* multiples every job released has ended and every task is due in the next
\* tick, as at the start.
ScheduleRepeats ==
    schedulable(task_set) /\ mode = "tick" /\ now % hyperperiod(task_set, Horizon + 1) = 0 =>
        \A t \in Periodic(task_set) :
            /\ ~job_active[t]
            /\ next_release[t] = now + 1
            /\ jobs_completed[t] * period(t) = now

\* The utilization bound is sufficient: a set with rate-monotonic priorities
\* that is within it misses no deadline.
BoundSufficient ==
    within_rm_bound(task_set) => \A t \in Periodic(task_set) : deadlines_missed[t] = 0
=============================================================================
