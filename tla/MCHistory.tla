----------------------------- MODULE MCHistory -----------------------------
(***************************************************************************)
(* Instances of the kernel with history for TLC.                           *)
(***************************************************************************)
EXTENDS KernelHistory, MCKernel, Workload

FourTasks == 0..3

\* The inversion scenarios for several lengths and arrival orders, the code's
\* own among them, and every mix of four tasks that lock in order or only
\* compute.  Every job is run once and can end.
ContendingPrograms ==
    { <<L(1), C(2), U(1), C(1)>>,
      <<C(1), L(1), L(2), C(1), U(1), C(1), U(2)>>,
      <<L(2), C(3), U(2), L(1), U(1)>>,
      <<C(6)>> }

InversionSetups ==
    {priority_inversion(1, section, burst, mid, high, TRUE) :
        section \in {1, 3, 6}, burst \in {2, 12}, mid \in 2..4, high \in 2..5}
    \union
    {nested_inversion(1, 2, section, 10, midh, high, noise, TRUE) :
        section \in {2, 6}, midh \in 1..3, high \in 2..5, noise \in 2..4}
    \union
    { [Plain EXCEPT !.base_priority = [t \in Tasks |-> 1 + 2 * t],
                    !.release_phase = [t \in Tasks |-> <<1, 3, 2, 4>>[t + 1]],
                    !.program = g] :
        g \in [Tasks -> ContendingPrograms] }
    \union
    { [Plain EXCEPT !.base_priority = [t \in Tasks |-> 1 + 2 * t],
                    !.release_phase = [t \in Tasks |-> 1 + ((3 * t) % 4)],
                    !.program = g,
                    !.priority_inheritance = FALSE] :
        g \in [Tasks -> OrderedPrograms] }

\* Semaphores and queues: the setups of MCKernel, where jobs run again and
\* again, and single jobs with maxima that saturate and that do not.
TransferSetups ==
    SyncSetups
    \union
    { [Plain EXCEPT !.base_priority = p,
                    !.release_phase = For(3, 2, 1),
                    !.program = g,
                    !.sem_initial = [s \in Semaphores |-> 1],
                    !.sem_max = [s \in Semaphores |-> n],
                    !.capacity = [q \in Queues |-> c]] :
        p \in { For(1, 2, 3) },
        g \in [Tasks -> SyncPrograms],
        n \in {1, 9}, c \in {1} }

\* A signal at the maximum of a semaphore.
SaturatingSetups ==
    { [Plain EXCEPT !.sem_initial = [s \in Semaphores |-> 1],
                    !.sem_max = [s \in Semaphores |-> 1],
                    !.program = [t \in Tasks |-> <<G("s"), C(1)>>]] }

\* A receiver waits; a more urgent one arrives in the tick after the send.
OvertakenSetups ==
    { [Plain EXCEPT !.base_priority = For(1, 2, 3),
                    !.release_phase = For(1, 2, 3),
                    !.program = For(<<R("q"), C(1)>>, <<S("q", 1), C(1)>>, <<R("q"), C(1)>>)] }
=============================================================================
