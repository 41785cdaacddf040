-------------------------- MODULE KernelScenarios --------------------------
(***************************************************************************)
(* What the scenarios promise when the kernel runs them.                   *)
(***************************************************************************)
EXTENDS KernelHistory, Stress

CONSTANT Schedulable    \* the setups that are meant to have time enough

ASSUME SchedulableAssumption == Schedulable \subseteq Setups

\* Whatever the tasks of such a setup share, none ever misses its deadline.
MeetsDeadlines ==
    (\E t \in Tasks : deadlines_missed[t] > 0) => setup \notin Schedulable

\* Liveness: there is a time by which every task that is released has completed
\* a job, unless it waits on a circle; one that only shares the processor with
\* such a circle is unharmed.
EveryTaskProgresses ==
    <>(\A t \in Tasks :
           setup.release_phase[t] <= Horizon => jobs_completed[t] > 0 \/ Deadlocked(t))

\* The one boss of the lockstorm is blocked for the section of one holder and
\* a hand-over, however many holders and hogs there are.
BossBlockingBounded ==
    setup.priority_inheritance =>
        \A t \in Tasks :
            base_priority(t) = 10 => WorstBlocking(t) <= LOCKSTORM_CS + 2

\* What makes the blocking of a boss that brief: its sections and those of the
\* others neither nest nor wait, and a job of a less urgent task needs at most
\* the section of a holder.
BriefSections ==
    /\ SectionsContained
    /\ \A t \in Tasks : \A i \in 1..Len(program(t)), m \in Mutexes :
          InsideAt(program(t), i - 1, m) => program(t)[i][1] # "Lock"
    /\ \A t \in Tasks : base_priority(t) = 10 =>
          \A u \in Tasks \ {t} :
              /\ base_priority(u) < 10
              /\ SumFunction(SectionWork(program(u))) <= LOCKSTORM_CS + 1
=============================================================================
