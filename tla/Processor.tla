----------------------------- MODULE Processor -----------------------------
(***************************************************************************)
(* What the kernel promises to tasks that only compute: a processor that   *)
(* at every tick gives its one unit of work to the most urgent task that   *)
(* has some left.  It has no task states, no scheduler, no interrupts and  *)
(* no programs: a job is an amount of work, here in two steps per tick.    *)
(***************************************************************************)
EXTENDS TaskSets

VARIABLES
    time,       \* ticks begun
    turn,       \* "arrive", then "serve"
    left,       \* work left to do for the current job, 0 without one
    arrived,    \* jobs begun
    served,     \* jobs finished
    due_by,     \* when the current job is due, or Never
    late        \* jobs that were not finished when due

processorVars == <<setup, time, turn, left, arrived, served, due_by, late>>

cost(t) == compute_budget(program(t))

PInit ==
    /\ setup \in Setups
    /\ time = 0
    /\ turn = "arrive"
    /\ left = [t \in Tasks |-> 0]
    /\ arrived = [t \in Tasks |-> 0]
    /\ served = [t \in Tasks |-> 0]
    /\ due_by = [t \in Tasks |-> 0]
    /\ late = [t \in Tasks |-> 0]

\* Job number arrived[t] comes on the grid of periods, but not before the one
\* at hand is finished; one-shot tasks have one job.
Arrives(t) ==
    /\ left[t] = 0
    /\ IF period(t) = Never THEN arrived[t] = 0 /\ time' >= setup.release_phase[t]
       ELSE time' >= setup.release_phase[t] + arrived[t] * period(t)

\* A job that was there before this tick and is due at its end is late; with a
\* coarse clock that is noticed at the first tick of the clock after it.
Expires(t) ==
    /\ left[t] > 0
    /\ due_by[t] # Never
    /\ time' >= due_by[t]
    /\ time' - AtLeast(setup.tick_reload, 1) < due_by[t]

Arrive ==
    /\ turn = "arrive"
    /\ turn' = "serve"
    /\ time' = time + 1
    /\ IF time' % AtLeast(setup.tick_reload, 1) = 0
       THEN /\ left' = [t \in Tasks |-> IF Arrives(t) THEN cost(t) ELSE left[t]]
            /\ arrived' = [t \in Tasks |-> IF Arrives(t) THEN arrived[t] + 1 ELSE arrived[t]]
            /\ due_by' = [t \in Tasks |->
                  IF ~Arrives(t) THEN due_by[t]
                  ELSE IF period(t) = Never THEN Never ELSE time' + period(t)]
            /\ late' = [t \in Tasks |-> IF Expires(t) THEN late[t] + 1 ELSE late[t]]
       ELSE UNCHANGED <<left, arrived, due_by, late>>
    /\ UNCHANGED <<setup, served>>

\* The tasks with work, of which the most urgent is served.
Busy == {t \in Tasks : left[t] > 0}

Serve ==
    /\ turn = "serve"
    /\ turn' = "arrive"
    /\ LET first == Best(Busy, setup.base_priority)
       IN  /\ left' = [t \in Tasks |-> IF t \in first THEN left[t] - 1 ELSE left[t]]
           /\ served' = [t \in Tasks |-> IF t \in first /\ left[t] = 1 THEN served[t] + 1
                                                                      ELSE served[t]]
    /\ UNCHANGED <<setup, time, arrived, due_by, late>>

PNext == Arrive \/ Serve

PSpec == PInit /\ [][PNext]_processorVars
=============================================================================
