------------------------------ MODULE Workload ------------------------------
(***************************************************************************)
(* The scenarios of workload.rs as setups of the kernel.  For the ones that *)
(* exhibit priority inversion the code fixes the lengths of the            *)
(* computations and the release ticks; here they are parameters, and the   *)
(* code's own scenario is one of the family.                               *)
(***************************************************************************)
EXTENDS TaskModel

\* The tasks 0, 1, ... of the sequence given; any further task is never released
\* within the horizon.
Scenario(tasks, inheritance) ==
    LET Among(t) == t + 1 \in DOMAIN tasks
    IN  [ base_priority        |-> [t \in Tasks |-> IF Among(t) THEN tasks[t+1].priority ELSE 0],
          period               |-> [t \in Tasks |-> IF Among(t) THEN tasks[t+1].period ELSE Never],
          release_phase        |-> [t \in Tasks |-> IF Among(t) THEN tasks[t+1].release
                                                                ELSE Horizon + 1],
          program              |-> [t \in Tasks |-> IF Among(t) THEN tasks[t+1].program ELSE <<>>],
          priority_inheritance |-> inheritance,
          tick_reload          |-> 1,
          sem_initial          |-> [s \in Semaphores |-> 0],
          sem_max              |-> [s \in Semaphores |-> 1],
          capacity             |-> [q \in Queues |-> 1] ]

PeriodicTask(priority, period_, release, program_) ==
    [priority |-> priority, period |-> period_, release |-> release, program |-> program_]

OneShot(priority, release, program_) == PeriodicTask(priority, Never, release, program_)

\* low holds m for section ticks; mid computes for burst ticks and wants no
\* mutex; high arrives late and wants m.
priority_inversion(m, section, burst, midRelease, highRelease, inheritance) ==
    Scenario(
        << OneShot(1, 1, << <<"Lock", m>>, <<"Compute", section>>, <<"Unlock", m>>,
                            <<"Compute", 1>> >>),
           OneShot(5, midRelease, << <<"Compute", burst>> >>),
           OneShot(9, highRelease, << <<"Compute", 1>>, <<"Lock", m>>, <<"Compute", 2>>,
                                      <<"Unlock", m>> >>) >>,
        inheritance)

\* low holds m2 for section ticks; the task released at midh takes m1 and then
\* wants m2; the one released at high wants m1; the one released at noise
\* computes for burst ticks and wants no mutex.
nested_inversion(m1, m2, section, burst, midh, high, noise, inheritance) ==
    Scenario(
        << OneShot(1, 1, << <<"Lock", m2>>, <<"Compute", section>>, <<"Unlock", m2>> >>),
           OneShot(5, midh,
                   << <<"Lock", m1>>, <<"Compute", 1>>, <<"Lock", m2>>, <<"Compute", 2>>,
                      <<"Unlock", m2>>, <<"Unlock", m1>> >>),
           OneShot(9, high, << <<"Compute", 1>>, <<"Lock", m1>>, <<"Compute", 1>>,
                                      <<"Unlock", m1>> >>),
           OneShot(6, noise, << <<"Compute", burst>> >>) >>,
        inheritance)

\* A blinking LED, a sensor, and two workers that share m.
demo(m, led, blink, sample) ==
    Scenario(
        << PeriodicTask(6, 8, 1, << <<"GpioToggle", led>>, <<"Uart", blink>>, <<"Compute", 1>> >>),
           PeriodicTask(5, 10, 1, << <<"Uart", sample>>, <<"Compute", 1>> >>),
           PeriodicTask(4, 20, 1, << <<"Compute", 1>>, <<"Lock", m>>, <<"Compute", 3>>,
                                     <<"Unlock", m>>, <<"Compute", 1>> >>),
           PeriodicTask(3, 25, 1, << <<"Compute", 1>>, <<"Lock", m>>, <<"Compute", 2>>,
                                     <<"Unlock", m>> >>) >>,
        TRUE)

\* A holder alone with m, then n workers of equal priority by fours, every third
\* of which wants m, and a most urgent task that wants it too.
contended_set(m, n) ==
    LET period_ == n * 10
        Section(before, inside) ==
            << <<"Compute", before>>, <<"Lock", m>>, <<"Compute", inside>>, <<"Unlock", m>> >>
        Worker(i) == PeriodicTask(3 + ((i \div 4) % 5), period_, 3,
                                  IF i % 3 = 0 THEN Section(1, 2) ELSE << <<"Compute", 2>> >>)
    IN  Scenario(
            << PeriodicTask(1, period_, 1, << <<"Lock", m>>, <<"Compute", 4>>, <<"Unlock", m>>,
                                              <<"Compute", 1>> >>) >>
              \o [i \in 1..n |-> Worker(i - 1)]
              \o << PeriodicTask(9, period_ \div 2, 3, Section(1, 1)) >>,
            TRUE)
=============================================================================
