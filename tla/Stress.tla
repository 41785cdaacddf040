------------------------------- MODULE Stress -------------------------------
(***************************************************************************)
(* The scenarios of the stress harness, bin/stress.rs, as setups of the    *)
(* kernel.  They scale with the number of tasks asked for and the          *)
(* operations per job (the EMBERCHIP_STRESS_* environment); the task       *)
(* priorities and periods follow from those as in the code.                *)
(***************************************************************************)
EXTENDS Workload, SequencesExt

LOCKSTORM_CS == 3

Clamp(x, low, high) == AtMost(AtLeast(x, low), high)

\* Low holders with a section, compute hogs above them, and one boss above all
\* who wants the mutex.
build_lockstorm(m, n_tasks, inheritance) ==
    LET holders == Clamp(n_tasks \div 20, 3, 12)
        mids == Clamp(n_tasks \div 30, 2, 8)
        Section(n) == << <<"Compute", 1>>, <<"Lock", m>>, <<"Compute", n>>, <<"Unlock", m>> >>
    IN  Scenario(
            [i \in 1..holders |->
                PeriodicTask(1 + ((i - 1) % 3), holders * 10, 1, Section(LOCKSTORM_CS))]
              \o [i \in 1..mids |->
                PeriodicTask(5 + ((i - 1) % 3), mids * 20, 1, << <<"Compute", 2>> >>)]
              \o << PeriodicTask(10, 20, 1, Section(2)) >>,
            inheritance)

\* The period of the herd and of the queues: three times the demand.
wave(demand, reps) == AtLeast(3 * demand, 4 * reps)

\* op and then op2, reps times.
Repeated(op, op2, reps) == FlattenSeq([i \in 1..reps |-> <<op, op2>>])

\* Producers signal s and more urgent consumers wait for it, reps times a job.
\* The maximum is u32::MAX in the code, out of reach; so it is here.
scenario_herd(s, n_tasks, reps) ==
    LET n == AtLeast(n_tasks \div 2, 1)
        period_ == wave(2 * n * reps, reps)
    IN  [Scenario(
            [i \in 1..n |->
                PeriodicTask(1 + ((i - 1) % 4), period_, 1,
                             Repeated(<<"Compute", 1>>, <<"SemSignal", s>>, reps))]
              \o [i \in 1..n |->
                PeriodicTask(6 + ((i - 1) % 4), period_, 1,
                             Repeated(<<"SemWait", s>>, <<"Compute", 1>>, reps))],
            TRUE)
         EXCEPT !.sem_max[s] = n * reps * Horizon]

\* A producer and a more urgent consumer for each of the queues, numbered from
\* 0 as in the code; capacities cycle through 1, 2, 3, 4.
scenario_queuechurn(n_queues, reps) ==
    LET period_ == wave(2 * n_queues * reps, reps)
        Sender(q) == PeriodicTask(3, period_, 1, [i \in 1..reps |-> <<"QueueSend", q, i>>])
        Receiver(q) == PeriodicTask(8, period_, 1, [i \in 1..reps |-> <<"QueueRecv", q>>])
    IN  [Scenario(FlattenSeq([q \in 1..n_queues |-> <<Sender(q - 1), Receiver(q - 1)>>]), TRUE)
         EXCEPT !.capacity = [q \in Queues |-> 1 + (q % 4)]]

\* Every task has one role at one object: it computes, locks, takes and gives
\* back a unit, sends or receives, or toggles a pin.
ManyProgram(i) ==
    CASE i % 8 = 0 -> << <<"Compute", 2>> >>
      [] i % 8 \in {1, 5} -> << <<"Compute", 1>>, <<"Lock", i % 8>>, <<"Compute", 2>>,
                                <<"Unlock", i % 8>>, <<"Compute", 1>> >>
      [] i % 8 = 2 -> << <<"SemWait", i % 4>>, <<"Compute", 1>>, <<"SemSignal", i % 4>> >>
      [] i % 8 = 3 -> << <<"QueueSend", (i \div 8) % 4, i>>, <<"Compute", 1>> >>
      [] i % 8 = 4 -> << <<"QueueRecv", (i \div 8) % 4>>, <<"Compute", 1>> >>
      [] OTHER -> << <<"Compute", 1>>, <<"GpioToggle", i % 8>> >>

ManyCost(i) == CASE i % 8 = 0 -> 2
                 [] i % 8 \in {1, 5} -> 5
                 [] i % 8 = 2 -> 3
                 [] i % 8 \in {3, 4} -> 2
                 [] OTHER -> 1

build_manytasks(n_tasks) ==
    LET priority_(i) == IF i = 0 THEN 0
                        ELSE IF i = n_tasks - 1 THEN 255
                        ELSE ((i * 37) % 254) + 1
    IN  [Scenario([t \in 1..n_tasks |->
                      PeriodicTask(priority_(t - 1), AtLeast(ManyCost(t - 1) * n_tasks * 2, 4), 1,
                                   ManyProgram(t - 1))],
                  TRUE)
         EXCEPT !.sem_initial = [s \in Semaphores |-> 1],
                !.sem_max = [s \in Semaphores |-> 16],
                !.capacity = [q \in Queues |-> 1 + q]]

\* Two tasks take m1 and m2 in opposite orders and run into a cycle; a third
\* wants no mutex.
scenario_deadlock(m1, m2) ==
    LET Both(a, b) == << <<"Lock", a>>, <<"Compute", 2>>, <<"Lock", b>>, <<"Compute", 2>>,
                         <<"Unlock", b>>, <<"Unlock", a>> >>
    IN  Scenario(<< OneShot(5, 1, Both(m1, m2)),
                    OneShot(9, 3, Both(m2, m1)),
                    PeriodicTask(1, 20, 1, << <<"Compute", 3>> >>) >>,
                 TRUE)
=============================================================================
