------------------------------ MODULE MCKernel ------------------------------
(***************************************************************************)
(* Instances of the kernel for TLC: the constants and the sets of setups   *)
(* each run enumerates.  Within a setup the kernel is deterministic, as the *)
(* program is; what a run explores is every setup of its set.              *)
(***************************************************************************)
EXTENDS KernelRefinesLocks, KernelRefinesProcessor

\* Three tasks; ids matter, ties go to the lowest.
MCTasks == 0..2
MCMutexes == 1..2

\* What the tasks of a setup have in common, to be overridden field by field.
Plain ==
    [ base_priority        |-> [t \in Tasks |-> 1 + t],
      period               |-> [t \in Tasks |-> Never],
      release_phase        |-> [t \in Tasks |-> 1],
      program              |-> [t \in Tasks |-> <<>>],
      priority_inheritance |-> TRUE,
      tick_reload          |-> 1,
      sem_initial          |-> [s \in Semaphores |-> 0],
      sem_max              |-> [s \in Semaphores |-> 2],
      capacity             |-> [q \in Queues |-> 1] ]

\* The values x, y and z for the tasks 0, 1 and 2.
For(x, y, z) == [t \in Tasks |-> <<x, y, z>>[t + 1]]

L(m) == <<"Lock", m>>
U(m) == <<"Unlock", m>>
C(n) == <<"Compute", n>>
D(n) == <<"Delay", n>>
W(s) == <<"SemWait", s>>
G(s) == <<"SemSignal", s>>
S(q, v) == <<"QueueSend", q, v>>
R(q) == <<"QueueRecv", q>>

-----------------------------------------------------------------------------
\* Mutexes: nesting in both orders, a lock kept over a delay, releases out of
\* order, an unlock by a task that owns nothing, a mutex taken twice, a job
\* that ends with a mutex held.
LockPrograms ==
    { <<L(1), C(2), U(1)>>,
      <<L(1), C(1), L(2), C(1), U(2), U(1), C(1)>>,
      <<L(2), C(1), L(1), C(1), U(2), U(1)>>,
      <<L(2), D(2), C(1), U(2)>>,
      <<U(1), L(2), C(1), U(2), C(1)>>,
      <<L(1), C(1), L(1), U(1)>>,
      <<D(2), L(1), C(1)>> }

LockSetups ==
    { [Plain EXCEPT !.base_priority = p,
                    !.release_phase = f,
                    !.period = r,
                    !.program = g,
                    !.priority_inheritance = i] :
        p \in { For(1, 5, 9), For(5, 9, 5) },
        f \in { For(1, 2, 3), For(3, 2, 1) },
        r \in { For(Never, Never, Never), For(6, Never, 4) },
        g \in [Tasks -> LockPrograms], i \in BOOLEAN }

-----------------------------------------------------------------------------
\* Semaphores and queues: producers and consumers that meet at full, empty and
\* one-unit objects, with delays so that every order of arrival happens.  Each
\* program also leaves a trace at the UART or on a pin.
SyncPrograms ==
    { <<W("s"), C(1), <<"Uart", "a">>, W("s"), <<"GpioToggle", 0>> >>,
      <<G("s"), C(1), G("s"), G("s"), <<"Uart", "b">> >>,
      <<D(1), <<"GpioToggle", 9>>, G("s"), W("s"), C(1)>>,
      <<S("q", 1), C(1), S("q", 2), <<"GpioToggle", 0>> >>,
      <<R("q"), <<"Uart", "a">>, R("q"), C(0), <<"GpioToggle", 1>> >>,
      <<D(2), S("q", 3), <<"Uart", "b">>, S("q", 1)>>,
      <<C(1), R("q"), <<"GpioSet", 1, TRUE>>, C(1)>>,
      <<S("q", 2), S("q", 3), G("s"), R("q")>> }

SyncSetups ==
    { [Plain EXCEPT !.base_priority = p,
                    !.release_phase = f,
                    !.period = r,
                    !.program = g,
                    !.sem_initial = [s \in Semaphores |-> n],
                    !.capacity = [q \in Queues |-> c]] :
        p \in { For(1, 2, 3), For(5, 5, 5) },
        f \in { For(3, 2, 1) },
        r \in { For(Never, Never, Never), For(3, Never, 3) },
        g \in [Tasks -> SyncPrograms],
        n \in {0, 3}, c \in {0, 2} }

-----------------------------------------------------------------------------
\* Time: periodic and one-shot tasks that compute and sleep, from light load to
\* permanent overrun, with tick timers that fire on every clock or less often.
\* What they do to the pins and the UART takes no time.
TimedPrograms ==
    { <<C(1)>>, <<C(3)>>,
      <<C(1), D(2), <<"GpioSet", 0, TRUE>>, C(0), <<"GpioToggle", 0>>, C(1)>>,
      <<D(0), <<"Uart", "a">>, C(2), D(1)>>,
      <<>> }

TimedSetups ==
    { [Plain EXCEPT !.period = r,
                    !.release_phase = f,
                    !.program = g,
                    !.tick_reload = k] :
        r \in { For(2, 5, 3), For(4, 3, Never), For(7, 0, 1), For(Never, 4, 5) },
        f \in { For(1, 1, 1), For(3, 1, 2) },
        g \in [Tasks -> TimedPrograms],
        k \in 0..3 }

\* Tasks that only compute, in one operation or several.
ComputePrograms == { <<C(1)>>, <<C(3)>>, <<C(0), C(2)>>, <<C(1), C(0), C(1)>>, <<C(2), C(3)>> }

ComputeSetups ==
    { [Plain EXCEPT !.base_priority = p,
                    !.period = r,
                    !.release_phase = f,
                    !.program = g,
                    !.tick_reload = k] :
        p \in { For(1, 2, 3), For(4, 4, 2) },
        r \in { For(2, 5, 3), For(7, 4, Never), For(12, 8, 6) },
        f \in { For(1, 1, 1), For(3, 1, 2) },
        g \in [Tasks -> ComputePrograms],
        k \in {1, 3} }

TimingSetups == TimedSetups \union ComputeSetups

\* Programs that take mutexes in order, run once: every job can end.
OrderedPrograms ==
    { <<L(1), C(2), U(1)>>,
      <<L(1), C(1), L(2), C(1), U(2), U(1), C(1)>>,
      <<L(2), D(2), C(1), U(2), L(1), U(1)>>,
      <<L(1), L(2), C(1), U(1), C(1), U(2)>> }

-----------------------------------------------------------------------------
\* A task whose job ends with an Unlock; one under a timer that fires on every
\* other clock.
OneTask == {0}

TrailingSetups ==
    { [Plain EXCEPT !.program = [t \in Tasks |-> <<L(1), C(2), U(1)>>]] }

CoarseSetups ==
    { [Plain EXCEPT !.period = [t \in Tasks |-> 3],
                    !.program = [t \in Tasks |-> <<C(4)>>],
                    !.tick_reload = 2] }
=============================================================================
