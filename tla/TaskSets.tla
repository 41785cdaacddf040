------------------------------ MODULE TaskSets ------------------------------
(***************************************************************************)
(* Sets of independent periodic tasks, as workload.rs generates them and   *)
(* schedulability.rs analyses them: records of functions from task ids to  *)
(* periods, execution times and base priorities.                           *)
(*                                                                         *)
(* The random generator only chooses within ranges; a generator is the set *)
(* of all the task sets it can return from a pool of periods.              *)
(***************************************************************************)
EXTENDS TaskModel, FiniteSetsExt, Functions

\* The CPU time each operation of a program asks for.
Works(prog) == [i \in DOMAIN prog |-> IF prog[i][1] = "Compute" THEN prog[i][2] ELSE 0]

\* Total CPU time a job of this program asks for.
compute_budget(prog) == SumFunction(Works(prog))

\* The task set of a setup.
TaskSetOf(s) ==
    [ period        |-> s.period,
      wcet          |-> [t \in Tasks |-> compute_budget(s.program[t])],
      base_priority |-> s.base_priority ]

Periodic(ts) == {t \in DOMAIN ts.period : ts.period[t] # Never}
PeriodsOf(ts) == {ts.period[t] : t \in Periodic(ts)}

-----------------------------------------------------------------------------
gcd[p \in Nat \X Nat] == IF p[2] = 0 THEN p[1] ELSE gcd[<<p[2], p[1] % p[2]>>]

\* A fault: the longer of two periods is taken for a common multiple.
longer(a, b) == AtLeast(a, b)

lcm(a, b) == (a \div gcd[<<a, b>>]) * b

\* The point after which a periodic schedule repeats, at most cap.  The code
\* stops at the first multiple that reaches the cap; those of positive periods
\* only grow, and a period of zero is not analysed.
hyperperiod(ts, cap) ==
    LET h == FoldSet(lcm, 1, PeriodsOf(ts))
    IN  IF Periodic(ts) # {} /\ h >= cap THEN cap ELSE AtLeast(h, 1)

-----------------------------------------------------------------------------
\* The work the tasks ask for in a stretch of time d that every period divides.
DemandIn(ts, d) ==
    SumFunctionOnSet([t \in Periodic(ts) |-> ts.wcet[t] * (d \div ts.period[t])], Periodic(ts))

\* A fault: every set that does not overload the processor is within the bound.
within_capacity(ts) ==
    LET d == FoldSet(lcm, 1, PeriodsOf(ts)) IN DemandIn(ts, d) <= d

\* x to the power of n.
power(x, n) == LET p[k \in 0..n] == IF k = 0 THEN 1 ELSE x * p[k - 1] IN p[n]

\* Utilization U is at most n * (2^(1/n) - 1), the bound of Liu and Layland for
\* n tasks.  Multiplied out, with U = work / d, this is (1 + U/n)^n <= 2.  It is
\* the exact bound of the generator; analyze lets U exceed it by 1e-9.
within_rm_bound(ts) ==
    LET n == AtLeast(Cardinality(Periodic(ts)), 1)
        d == FoldSet(lcm, 1, PeriodsOf(ts))
        work == DemandIn(ts, d)
    IN  work <= d /\ power(n * d + work, n) <= 2 * power(n * d, n)

-----------------------------------------------------------------------------
\* Shorter period, higher priority; the longest period has priority 1.
RateMonotonic(p) == [t \in DOMAIN p |-> Cardinality({u \in DOMAIN p : p[u] >= p[t]})]

\* The sets of n tasks with distinct periods of pool, rate-monotonic priorities
\* and execution times from 1 to longest[period].
RateMonotonicSets(n, pool, longest) ==
    UNION { { [period |-> p, wcet |-> c, base_priority |-> RateMonotonic(p)] :
                c \in {c \in [0..n-1 -> 1..Max({longest[x] : x \in pool})] :
                          \A t \in 0..n-1 : c[t] <= longest[p[t]]} } :
            p \in Injection(0..n-1, pool) }

\* Sets that may be schedulable or overloaded.
random_rm_set(n, pool) ==
    RateMonotonicSets(n, pool, [p \in pool |-> AtLeast((2 * p) \div 3, 1)])

\* Sets within the rate-monotonic bound: the others are drawn again.
random_schedulable_set(n, pool) ==
    {ts \in RateMonotonicSets(n, pool, [p \in pool |-> AtLeast(p \div 3, 1)]) :
        within_rm_bound(ts)}
=============================================================================
