-------------------------- MODULE MCSchedulability --------------------------
(***************************************************************************)
(* Instances of the schedulability analysis for TLC: every task set the    *)
(* generators of workload.rs can draw from a pool of periods, run by the   *)
(* kernel for a hyperperiod and more.                                      *)
(***************************************************************************)
EXTENDS KernelSchedulability, Workload

\* A task set as a setup; a task the set does not have is never released.
Computing(priority, period_, phase, n) ==
    PeriodicTask(priority, period_, phase, << <<"Compute", n>> >>)

SetupOf(s) ==
    Scenario([i \in 1..Cardinality(Tasks) |->
                 IF i - 1 \in DOMAIN s.period
                 THEN Computing(s.base_priority[i-1], s.period[i-1], 1, s.wcet[i-1])
                 ELSE Computing(0, Never, Horizon + 1, 1)],
             TRUE)

ThreeTasks == 0..2

AnalysedSetups ==
    {SetupOf(s) : s \in random_rm_set(2, {10, 25})
                        \union random_rm_set(3, {4, 6, 8})
                        \union random_rm_set(3, {3, 5, 10})
                        \union random_schedulable_set(3, {6, 8, 12})}

\* Two tasks of one priority, which the analysis leaves out of account.
TiedSetups ==
    {SetupOf([period |-> [t \in 0..1 |-> 4], wcet |-> [t \in 0..1 |-> 3],
              base_priority |-> [t \in 0..1 |-> 5]])}
=============================================================================
