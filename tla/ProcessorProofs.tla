-------------------------- MODULE ProcessorProofs --------------------------
(***************************************************************************)
(* Theorems about the ideal processor and the schedulability analysis: the *)
(* response time of a task is the longest any of its jobs takes, for every *)
(* task set, every length of the schedule and every release phases.        *)
(***************************************************************************)
EXTENDS Processor, TaskSetProofs

task_set == TaskSetOf(setup)

phase(t) == setup.release_phase[t]

\* The tasks that delay t, and the work of theirs and of t in a window of r ticks.
more_urgent(t) == interferers(task_set, t)
asked(t, r) == demand(task_set, t, r)

\* What the analysis is about: a clock that ticks at every tick, nothing due
\* before the first of them, no two tasks of one priority if one is periodic, and
\* nothing more urgent than a periodic task that is not periodic itself.
Analysed ==
    /\ setup \in Setup
    /\ task_set \in TaskSet
    /\ setup.tick_reload <= 1
    /\ \A t \in Periodic(task_set) : setup.release_phase[t] >= 1
    /\ \A t \in Periodic(task_set) : \A u \in Tasks \ {t} :
          /\ base_priority(u) # base_priority(t)
          /\ base_priority(u) > base_priority(t) => period(u) # Never

PTyped ==
    /\ time \in Nat
    /\ turn \in {"arrive", "serve"}
    /\ left \in [Tasks -> Nat]
    /\ arrived \in [Tasks -> Nat]
    /\ served \in [Tasks -> Nat]
    /\ due_by \in [Tasks -> Nat \union {Never}]
    /\ late \in [Tasks -> Nat]

-----------------------------------------------------------------------------
(***************************************************************************)
(* The setup.                                                              *)
(***************************************************************************)
LEMMA SetupFacts ==
    ASSUME Analysed
    PROVE  /\ \A t \in Tasks : /\ cost(t) \in Nat \ {0} /\ cost(t) = task_set.wcet[t]
                               /\ phase(t) \in Nat /\ base_priority(t) \in Nat
                               /\ setup.base_priority[t] = base_priority(t)
           /\ AtLeast(setup.tick_reload, 1) = 1
           /\ \A x \in Nat : x % AtLeast(setup.tick_reload, 1) = 0
<1>1. ASSUME NEW t \in Tasks
      PROVE  /\ cost(t) \in Nat \ {0} /\ cost(t) = task_set.wcet[t]
             /\ phase(t) \in Nat /\ base_priority(t) \in Nat
             /\ setup.base_priority[t] = base_priority(t)
  <2>1. task_set.wcet[t] = compute_budget(setup.program[t]) /\ task_set.wcet[t] \in Nat \ {0}
    BY DEF Analysed, task_set, TaskSetOf, TaskSet
  <2>2. task_set.base_priority[t] \in Nat /\ task_set.base_priority[t] = setup.base_priority[t]
    BY DEF Analysed, task_set, TaskSetOf, TaskSet
  <2>3. setup.release_phase[t] \in Nat
    BY DEF Analysed, Setup
  <2> QED
    BY <2>1, <2>2, <2>3 DEF cost, program, phase, base_priority
<1>2. AtLeast(setup.tick_reload, 1) = 1
  <2>1. setup.tick_reload \in Nat /\ setup.tick_reload <= 1
    BY DEF Analysed, Setup
  <2> QED
    BY <2>1 DEF AtLeast
<1>3. \A x \in Nat : x % 1 = 0
  OBVIOUS
<1> QED
  BY <1>1, <1>2, <1>3

LEMMA PeriodicFacts ==
    ASSUME Analysed, NEW t \in Periodic(task_set)
    PROVE  /\ t \in Tasks /\ period(t) \in Nat \ {0} /\ period(t) # Never
           /\ period(t) = task_set.period[t]
           /\ more_urgent(t) \subseteq Periodic(task_set) /\ IsFiniteSet(more_urgent(t))
           /\ t \notin more_urgent(t)
           /\ \A u \in Tasks : u # t => (u \in more_urgent(t) <=> base_priority(u) > base_priority(t))
           /\ \A u \in Tasks : u # t /\ u \notin more_urgent(t) => base_priority(u) < base_priority(t)
<1>1. task_set \in TaskSet
  BY DEF Analysed
<1>2. t \in Tasks /\ task_set.period[t] \in Nat \ {0}
  BY <1>1, PeriodicTyped
<1>3. \A u : task_set.period[u] = period(u)
  BY DEF task_set, TaskSetOf, period
<1>4. \A u : task_set.base_priority[u] = base_priority(u)
  BY DEF task_set, TaskSetOf, base_priority
<1>5. \A u \in Tasks : base_priority(u) \in Nat
  BY SetupFacts
<1>6. period(t) # Never
  BY <1>2, <1>3, NeverAssumption
<1>7. more_urgent(t) \subseteq Periodic(task_set) /\ IsFiniteSet(more_urgent(t))
  BY <1>1, PeriodicTyped DEF more_urgent
<1>8. \A u : u \in more_urgent(t) <=> u \in Periodic(task_set) /\ base_priority(u) > base_priority(t)
  BY <1>4 DEF more_urgent, interferers
<1>9. \A u \in Tasks : u \in Periodic(task_set) <=> period(u) # Never
  <2>1. DOMAIN task_set.period = Tasks
    BY <1>1 DEF TaskSet
  <2> QED
    BY <2>1, <1>3 DEF Periodic
<1>10. \A u \in Tasks : u # t => /\ base_priority(u) # base_priority(t)
                                 /\ base_priority(u) > base_priority(t) => period(u) # Never
  BY DEF Analysed
<1>11. t \notin more_urgent(t)
  BY <1>2, <1>5, <1>8
<1>12. \A u \in Tasks : u # t => (u \in more_urgent(t) <=> base_priority(u) > base_priority(t))
  BY <1>8, <1>9, <1>10
<1>13. \A u \in Tasks : u # t /\ u \notin more_urgent(t) => base_priority(u) < base_priority(t)
  BY <1>2, <1>5, <1>10, <1>12
<1> QED
  BY <1>2, <1>3, <1>6, <1>7, <1>11, <1>12, <1>13

\* Nothing that depends on the setup alone changes.
LEMMA SetupStays ==
    ASSUME setup' = setup
    PROVE  /\ task_set' = task_set
           /\ \A t : /\ more_urgent(t)' = more_urgent(t) /\ cost(t)' = cost(t)
                     /\ period(t)' = period(t) /\ phase(t)' = phase(t)
                     /\ base_priority(t)' = base_priority(t)
           /\ \A t, r : asked(t, r)' = asked(t, r)
<1>1. task_set' = task_set
  BY DEF task_set, TaskSetOf
<1>2. ASSUME NEW t
      PROVE  /\ more_urgent(t)' = more_urgent(t) /\ cost(t)' = cost(t)
             /\ period(t)' = period(t) /\ phase(t)' = phase(t)
             /\ base_priority(t)' = base_priority(t)
  BY <1>1 DEF more_urgent, cost, program, period, phase, base_priority
<1>3. ASSUME NEW t, NEW r PROVE asked(t, r)' = asked(t, r)
  BY <1>1 DEF asked
<1> QED
  BY <1>1, <1>2, <1>3

LEMMA AnalysedStays == ASSUME setup' = setup PROVE Analysed' <=> Analysed
BY SetupStays DEF Analysed

-----------------------------------------------------------------------------
(***************************************************************************)
(* The steps, one periodic task at a time.                                 *)
(***************************************************************************)
\* When the next job of t is to come, and when the current one came.
next_due(t) == phase(t) + arrived[t] * period(t)
begun(t) == due_by[t] - period(t)

ArrivesNow(t) == left[t] = 0 /\ time + 1 >= next_due(t)

LEMMA ArriveEffect ==
    ASSUME Analysed, PTyped, Arrive, NEW t \in Periodic(task_set)
    PROVE  /\ turn = "arrive" /\ turn' = "serve" /\ time' = time + 1 /\ setup' = setup
           /\ served'[t] = served[t]
           /\ ArrivesNow(t) => /\ left'[t] = cost(t) /\ arrived'[t] = arrived[t] + 1
                               /\ due_by'[t] = time + 1 + period(t) /\ late'[t] = late[t]
           /\ ~ArrivesNow(t) => /\ left'[t] = left[t] /\ arrived'[t] = arrived[t]
                                /\ due_by'[t] = due_by[t]
           /\ late'[t] \in {late[t], late[t] + 1}
           /\ late'[t] = late[t] + 1 <=>
                left[t] > 0 /\ due_by[t] # Never /\ due_by[t] = time + 1
<1>1. t \in Tasks /\ period(t) # Never /\ time' = time + 1 /\ time + 1 \in Nat
  BY PeriodicFacts DEF Arrive, PTyped
<1>2. time' % AtLeast(setup.tick_reload, 1) = 0
  BY <1>1, SetupFacts
<1>3. Arrives(t) <=> ArrivesNow(t)
  BY <1>1 DEF Arrives, ArrivesNow, next_due, phase
<1>4. Expires(t) <=> left[t] > 0 /\ due_by[t] # Never /\ due_by[t] = time + 1
  <2>1. due_by[t] # Never => due_by[t] \in Nat
    BY <1>1 DEF PTyped
  <2> QED
    BY <1>1, <2>1, SetupFacts DEF Expires, PTyped
<1>5. /\ left'[t] = IF Arrives(t) THEN cost(t) ELSE left[t]
      /\ arrived'[t] = IF Arrives(t) THEN arrived[t] + 1 ELSE arrived[t]
      /\ due_by'[t] = IF ~Arrives(t) THEN due_by[t] ELSE time' + period(t)
      /\ late'[t] = IF Expires(t) THEN late[t] + 1 ELSE late[t]
  BY <1>1, <1>2 DEF Arrive
<1>6. turn = "arrive" /\ turn' = "serve" /\ setup' = setup /\ served' = served
  BY DEF Arrive
<1>7. late[t] \in Nat
  BY <1>1 DEF PTyped
<1>8. ArrivesNow(t) => ~Expires(t)
  BY <1>4, <1>1 DEF ArrivesNow, PTyped
<1> QED
  BY <1>1, <1>3, <1>4, <1>5, <1>6, <1>7, <1>8

\* The task served.
ServedNow(t) == t \in Best(Busy, setup.base_priority)

LEMMA ServeEffect ==
    ASSUME PTyped, Serve, NEW t \in Tasks
    PROVE  /\ turn = "serve" /\ turn' = "arrive" /\ time' = time /\ setup' = setup
           /\ arrived' = arrived /\ due_by' = due_by /\ late' = late
           /\ left'[t] = IF ServedNow(t) THEN left[t] - 1 ELSE left[t]
           /\ served'[t] = IF ServedNow(t) /\ left[t] = 1 THEN served[t] + 1 ELSE served[t]
           /\ ServedNow(t) => left[t] > 0
BY DEF Serve, ServedNow, Busy, PTyped, Best

\* If t or a more urgent task has work, one of them is served, and not t before
\* the others.
LEMMA WhoIsServed ==
    ASSUME Analysed, PTyped, NEW t \in Periodic(task_set),
           NEW w \in more_urgent(t) \union {t}, left[w] > 0
    PROVE  \E v \in more_urgent(t) \union {t} :
              /\ left[v] > 0
              /\ \A u \in Tasks : ServedNow(u) <=> u = v
              /\ v = t => \A u \in more_urgent(t) : left[u] = 0
<1> DEFINE prio == setup.base_priority
<1>1. more_urgent(t) \subseteq Tasks /\ t \in Tasks /\ t \notin more_urgent(t)
  BY PeriodicFacts, PeriodicTyped DEF Analysed
<1>2. Busy \subseteq Tasks /\ IsFiniteSet(Busy) /\ w \in Busy
  <2>1. Busy \subseteq Tasks /\ w \in Busy
    BY <1>1 DEF Busy
  <2> QED
    BY <2>1, FS_Subset, TasksAssumption
<1>3. \A x \in Tasks : prio[x] \in Nat /\ prio[x] = base_priority(x)
  BY SetupFacts
<1>4. PICK v \in Busy : Best(Busy, prio) = {v}
  <2>1. Busy \subseteq Nat /\ Busy # {}
    BY <1>2, TasksAssumption
  <2>2. \A x \in Busy : prio[x] \in Nat
    BY <1>2, <1>3
  <2> QED
    BY <1>2, <2>1, <2>2, BestExists
<1>5. \A x \in Busy : prio[x] <= prio[v]
  BY <1>2, <1>3, <1>4 DEF Best
<1>6. v \in Tasks /\ left[v] > 0 /\ v \in Busy
  BY <1>4 DEF Busy
<1>7. base_priority(w) <= base_priority(v) /\ base_priority(t) <= base_priority(w)
  BY <1>1, <1>2, <1>3, <1>5, <1>6, PeriodicFacts
<1>8. base_priority(t) <= base_priority(v)
  BY <1>1, <1>2, <1>3, <1>6, <1>7
<1>9. v \in more_urgent(t) \union {t}
  BY <1>1, <1>3, <1>6, <1>8, PeriodicFacts
<1>10. \A u \in Tasks : ServedNow(u) <=> u = v
  BY <1>4 DEF ServedNow
<1>11. ASSUME v = t, NEW u \in more_urgent(t), left[u] # 0 PROVE FALSE
  <2>1. u \in Tasks /\ u \in Busy /\ u # t
    BY <1>1, <1>11 DEF Busy, PTyped
  <2>2. base_priority(u) > base_priority(t)
    BY <2>1, PeriodicFacts
  <2> QED
    BY <1>1, <1>3, <1>5, <1>11, <2>1, <2>2
<1> QED
  BY <1>6, <1>9, <1>10, <1>11

-----------------------------------------------------------------------------
(***************************************************************************)
(* Types, and what relates the current job to the jobs before it.          *)
(***************************************************************************)
LEMMA TypedInit == PInit => PTyped
BY DEF PInit, PTyped

LEMMA TypedStep ==
    ASSUME Analysed, PTyped, [PNext]_processorVars
    PROVE  PTyped'
<1>1. CASE UNCHANGED processorVars
  BY <1>1 DEF PTyped, processorVars
<1>2. CASE Serve
  <2>1. \A t \in Tasks : /\ left'[t] \in Nat /\ served'[t] \in Nat
    BY <1>2, ServeEffect DEF PTyped
  <2>2. DOMAIN left' = Tasks /\ DOMAIN served' = Tasks
    BY <1>2 DEF Serve
  <2>3. left' = [t \in Tasks |-> left'[t]] /\ served' = [t \in Tasks |-> served'[t]]
    BY <1>2 DEF Serve
  <2>4. left' \in [Tasks -> Nat] /\ served' \in [Tasks -> Nat]
    BY <2>1, <2>3
  <2>5. turn' = "arrive" /\ time' = time /\ arrived' = arrived /\ due_by' = due_by /\ late' = late
    BY <1>2 DEF Serve
  <2> QED
    BY <2>4, <2>5 DEF PTyped
<1>3. CASE Arrive
  <2>1. time' \in Nat /\ time' % AtLeast(setup.tick_reload, 1) = 0
    BY <1>3, SetupFacts DEF Arrive, PTyped
  <2>2. \A t \in Tasks : cost(t) \in Nat /\ (period(t) = Never \/ period(t) \in Nat)
    <3>1. \A t \in Tasks : period(t) = task_set.period[t]
      BY DEF task_set, TaskSetOf, period
    <3>2. \A t \in Tasks : task_set.period[t] \in (Nat \ {0}) \union {Never}
      BY DEF Analysed, TaskSet
    <3> QED
      BY <3>1, <3>2, SetupFacts
  <2>3. /\ left' = [t \in Tasks |-> IF Arrives(t) THEN cost(t) ELSE left[t]]
        /\ arrived' = [t \in Tasks |-> IF Arrives(t) THEN arrived[t] + 1 ELSE arrived[t]]
        /\ due_by' = [t \in Tasks |->
              IF ~Arrives(t) THEN due_by[t]
              ELSE IF period(t) = Never THEN Never ELSE time' + period(t)]
        /\ late' = [t \in Tasks |-> IF Expires(t) THEN late[t] + 1 ELSE late[t]]
    BY <1>3, <2>1 DEF Arrive
  <2>4. left' \in [Tasks -> Nat] /\ arrived' \in [Tasks -> Nat] /\ late' \in [Tasks -> Nat]
    BY <2>2, <2>3 DEF PTyped
  <2>5. due_by' \in [Tasks -> Nat \union {Never}]
    BY <2>1, <2>2, <2>3 DEF PTyped
  <2>6. turn' = "serve" /\ served' = served
    BY <1>3 DEF Arrive
  <2> QED
    BY <2>1, <2>4, <2>5, <2>6 DEF PTyped
<1> QED
  BY <1>1, <1>2, <1>3 DEF PNext

\* A job comes no earlier than it is due to, and as soon as the one before it is
\* finished; the next one is counted when this one is finished.
Grid(t) ==
    /\ left[t] <= cost(t)
    /\ left[t] > 0 => /\ due_by[t] \in Nat /\ begun(t) \in 1..time
                      /\ arrived[t] = served[t] + 1
    /\ left[t] = 0 => arrived[t] = served[t]
    /\ arrived[t] > 0 => phase(t) + (arrived[t] - 1) * period(t) <= time
    /\ turn = "serve" /\ left[t] = 0 => next_due(t) > time

LEMMA GridInit ==
    ASSUME Analysed, PInit, NEW t \in Periodic(task_set)
    PROVE  Grid(t)
<1>1. t \in Tasks /\ cost(t) \in Nat
  BY PeriodicFacts, SetupFacts
<1>2. left[t] = 0 /\ arrived[t] = 0 /\ served[t] = 0 /\ turn = "arrive"
  BY <1>1 DEF PInit
<1> QED
  BY <1>1, <1>2 DEF Grid

\* The types of the numbers of one task.
LEMMA Numbers ==
    ASSUME Analysed, PTyped, NEW t \in Periodic(task_set)
    PROVE  /\ t \in Tasks /\ time \in Nat /\ left[t] \in Nat /\ arrived[t] \in Nat
           /\ served[t] \in Nat /\ late[t] \in Nat /\ due_by[t] \in Nat \union {Never}
           /\ cost(t) \in Nat \ {0} /\ period(t) \in Nat \ {0} /\ phase(t) \in Nat
           /\ \A k \in Int : k * period(t) \in Int /\ (k + 1) * period(t) = k * period(t) + period(t)
           /\ next_due(t) \in Nat
<1>1. t \in Tasks /\ period(t) \in Nat \ {0} /\ cost(t) \in Nat \ {0} /\ phase(t) \in Nat
  BY PeriodicFacts, SetupFacts
<1>2. \A k \in Int : k * period(t) \in Int /\ (k + 1) * period(t) = k * period(t) + period(t)
  BY <1>1
<1>3. arrived[t] * period(t) \in Nat
  BY <1>1 DEF PTyped
<1>4. next_due(t) \in Nat
  BY <1>1, <1>3 DEF next_due
<1>5. /\ time \in Nat /\ left[t] \in Nat /\ arrived[t] \in Nat
      /\ served[t] \in Nat /\ late[t] \in Nat /\ due_by[t] \in Nat \union {Never}
  BY <1>1 DEF PTyped
<1> QED
  BY <1>1, <1>2, <1>4, <1>5

LEMMA GridStep ==
    ASSUME Analysed, PTyped, [PNext]_processorVars, NEW t \in Periodic(task_set), Grid(t)
    PROVE  Grid(t)'
<1>1. CASE UNCHANGED processorVars
  BY <1>1, SetupStays DEF Grid, processorVars, begun, next_due
<1>2. CASE Serve
  <2>1. setup' = setup /\ t \in Tasks
    BY <1>2, PeriodicFacts DEF Serve
  <2>2. /\ turn = "serve" /\ turn' = "arrive" /\ time' = time
        /\ arrived' = arrived /\ due_by' = due_by
        /\ left'[t] = IF ServedNow(t) THEN left[t] - 1 ELSE left[t]
        /\ served'[t] = IF ServedNow(t) /\ left[t] = 1 THEN served[t] + 1 ELSE served[t]
        /\ ServedNow(t) => left[t] > 0
    BY <1>2, <2>1, ServeEffect
  <2>3. begun(t)' = begun(t) /\ cost(t)' = cost(t) /\ period(t)' = period(t) /\ phase(t)' = phase(t)
    BY <2>1, <2>2, SetupStays DEF begun
  <2>4. left[t] \in Nat /\ cost(t) \in Nat /\ served[t] \in Nat /\ arrived[t] \in Nat
    BY Numbers
  <2> QED
    BY <2>2, <2>3, <2>4 DEF Grid
<1>3. CASE Arrive
  <2>1. /\ turn = "arrive" /\ turn' = "serve" /\ time' = time + 1 /\ setup' = setup
        /\ served'[t] = served[t]
        /\ ArrivesNow(t) => /\ left'[t] = cost(t) /\ arrived'[t] = arrived[t] + 1
                            /\ due_by'[t] = time + 1 + period(t)
        /\ ~ArrivesNow(t) => /\ left'[t] = left[t] /\ arrived'[t] = arrived[t]
                             /\ due_by'[t] = due_by[t]
    BY <1>3, ArriveEffect
  <2>2. cost(t)' = cost(t) /\ period(t)' = period(t) /\ phase(t)' = phase(t)
    BY <2>1, SetupStays
  <2>3. begun(t)' = due_by'[t] - period(t) /\ next_due(t)' = phase(t) + arrived'[t] * period(t)
    BY <2>2 DEF begun, next_due
  <2>4. /\ time \in Nat /\ left[t] \in Nat /\ arrived[t] \in Nat /\ served[t] \in Nat
        /\ cost(t) \in Nat \ {0} /\ period(t) \in Nat \ {0} /\ phase(t) \in Nat
        /\ next_due(t) \in Nat
    BY Numbers
  <2>5. CASE ArrivesNow(t)
    <3>1. begun(t)' = time + 1 /\ due_by'[t] \in Nat
      BY <2>1, <2>3, <2>4, <2>5
    <3>2. left[t] = 0 /\ phase(t) + arrived[t] * period(t) <= time + 1
      BY <2>5, <2>4 DEF ArrivesNow, next_due
    <3>3. arrived'[t] - 1 = arrived[t]
      BY <2>1, <2>4, <2>5
    <3>4. arrived[t] = served[t]
      BY <3>2 DEF Grid
    <3>5. left'[t] = cost(t) /\ cost(t) > 0 /\ arrived'[t] = served[t] + 1
      BY <2>1, <2>4, <2>5, <3>4
    <3>6. begun(t)' \in 1..time'
      BY <2>1, <2>4, <3>1
    <3>7. phase(t)' + (arrived'[t] - 1) * period(t)' <= time'
      BY <2>1, <2>2, <3>2, <3>3
    <3> QED
      BY <2>1, <2>2, <2>4, <3>1, <3>5, <3>6, <3>7 DEF Grid
  <2>6. CASE ~ArrivesNow(t)
    <3>1. begun(t)' = begun(t) /\ next_due(t)' = next_due(t)
      BY <2>1, <2>3, <2>6 DEF begun, next_due
    <3>2. left[t] = 0 => next_due(t) > time + 1
      BY <2>4, <2>6 DEF ArrivesNow
    <3>3. left[t] > 0 => begun(t) \in 1..time'
      BY <2>1, <2>4 DEF Grid
    <3>4. arrived[t] > 0 => phase(t) + (arrived[t] - 1) * period(t) <= time'
      <4>1. (arrived[t] - 1) * period(t) \in Int
        <5>1. arrived[t] - 1 \in Int
          BY <2>4
        <5> QED
          BY <5>1, Numbers
      <4> QED
        BY <2>1, <2>4, <4>1 DEF Grid
    <3> QED
      BY <2>1, <2>2, <2>4, <2>6, <3>1, <3>2, <3>3, <3>4 DEF Grid
  <2> QED
    BY <2>5, <2>6
<1> QED
  BY <1>1, <1>2, <1>3 DEF PNext

Regular == \A t \in Periodic(task_set) : Grid(t)

\* The invariant of every schedule.
Schedule == PTyped /\ Regular

LEMMA ScheduleInit == PInit /\ Analysed => Schedule
BY TypedInit, GridInit DEF Schedule, Regular

LEMMA ScheduleStep == Analysed /\ Schedule /\ [PNext]_processorVars => Schedule' /\ Analysed'
<1> SUFFICES ASSUME Analysed, Schedule, [PNext]_processorVars PROVE Schedule' /\ Analysed'
  OBVIOUS
<1>1. setup' = setup
  BY DEF PNext, Arrive, Serve, processorVars
<1>2. PTyped'
  BY TypedStep DEF Schedule
<1>3. \A t \in Periodic(task_set) : Grid(t)'
  BY GridStep DEF Schedule, Regular
<1>4. task_set' = task_set /\ Analysed'
  BY <1>1, SetupStays, AnalysedStays
<1> QED
  BY <1>2, <1>3, <1>4 DEF Schedule, Regular

-----------------------------------------------------------------------------
(***************************************************************************)
(* Windows.  A window of t starts at a tick b before which no work of t or *)
(* of a more urgent task was left over: n[j] of the jobs of j came before  *)
(* b, and were finished.  Until t is finished the processor has served t   *)
(* and the more urgent tasks only, so the window is as long as the work    *)
(* done in it.                                                             *)
(***************************************************************************)
done_since(n) == [j \in Tasks |-> (arrived[j] - n[j]) * cost(j) - left[j]]
window_work(t, n) == SumFunctionOnSet(done_since(n), more_urgent(t))

\* The work done on the current job of t.
own_work(t) == IF left[t] > 0 THEN cost(t) - left[t] ELSE 0

\* The ticks served.
elapsed == IF turn = "arrive" THEN time ELSE time - 1

LEMMA DoneTyped ==
    ASSUME Analysed, Schedule, NEW n \in [Tasks -> Nat]
    PROVE  \A j \in Tasks : /\ done_since(n)[j] = (arrived[j] - n[j]) * cost(j) - left[j]
                            /\ (arrived[j] - n[j]) * cost(j) \in Int
                            /\ done_since(n)[j] \in Int
<1> SUFFICES ASSUME NEW j \in Tasks
             PROVE  /\ done_since(n)[j] = (arrived[j] - n[j]) * cost(j) - left[j]
                    /\ (arrived[j] - n[j]) * cost(j) \in Int
                    /\ done_since(n)[j] \in Int
  OBVIOUS
<1>1. arrived[j] - n[j] \in Int /\ cost(j) \in Nat /\ left[j] \in Nat
  BY SetupFacts DEF Schedule, PTyped
<1>2. (arrived[j] - n[j]) * cost(j) \in Int
  BY <1>1
<1> QED
  BY <1>1, <1>2 DEF done_since

LEMMA OneMore == ASSUME NEW a \in Int, NEW c \in Int PROVE (a + 1) * c = a * c + c
OBVIOUS

\* An arrival is no work done.
LEMMA WorkAtArrival ==
    ASSUME Analysed, Schedule, Arrive, NEW t \in Periodic(task_set), NEW n \in [Tasks -> Nat]
    PROVE  window_work(t, n)' = window_work(t, n)
<1> DEFINE f == done_since(n)
           g == done_since(n)'
<1>1. setup' = setup
  BY DEF Arrive
<1>2. more_urgent(t)' = more_urgent(t) /\ more_urgent(t) \subseteq Periodic(task_set)
      /\ IsFiniteSet(more_urgent(t))
  BY <1>1, SetupStays, PeriodicFacts
<1>3. ASSUME NEW j \in more_urgent(t) PROVE f[j] \in Int /\ g[j] = f[j]
  <2>1. j \in Periodic(task_set) /\ j \in Tasks
    BY <1>2, PeriodicFacts
  <2>2. f[j] \in Int /\ f[j] = (arrived[j] - n[j]) * cost(j) - left[j]
    BY <2>1, DoneTyped
  <2>3. g[j] = (arrived'[j] - n[j]) * cost(j) - left'[j]
    BY <1>1, <2>1, SetupStays DEF done_since
  <2>4. CASE ArrivesNow(j)
    <3>1. left[j] = 0 /\ left'[j] = cost(j) /\ arrived'[j] = arrived[j] + 1
      BY <2>1, <2>4, ArriveEffect DEF ArrivesNow, Schedule
    <3>2. arrived[j] \in Nat /\ cost(j) \in Nat /\ n[j] \in Nat
      BY <2>1, Numbers DEF Schedule
    <3>3. (arrived[j] + 1 - n[j]) * cost(j) = (arrived[j] - n[j]) * cost(j) + cost(j)
      <4>1. arrived[j] - n[j] \in Int /\ arrived[j] + 1 - n[j] = (arrived[j] - n[j]) + 1
        BY <3>2
      <4> QED
        BY <3>2, <4>1, OneMore
    <3> QED
      BY <2>2, <2>3, <3>1, <3>2, <3>3
  <2>5. CASE ~ArrivesNow(j)
    <3>1. left'[j] = left[j] /\ arrived'[j] = arrived[j]
      BY <2>1, <2>5, ArriveEffect DEF Schedule
    <3> QED
      BY <2>2, <2>3, <3>1
  <2> QED
    BY <2>4, <2>5
<1>4. SumFunctionOnSet(g, more_urgent(t)) = SumFunctionOnSet(f, more_urgent(t))
  <2> HIDE DEF f, g
  <2> QED
    BY <1>2, <1>3, SumSame
<1>5. window_work(t, n)' = SumFunctionOnSet(g, more_urgent(t))
  BY <1>2 DEF window_work
<1> QED
  BY <1>4, <1>5 DEF window_work

\* A tick served to a more urgent task is one of work done.
LEMMA WorkAtService ==
    ASSUME Analysed, Schedule, Serve, NEW t \in Periodic(task_set), NEW n \in [Tasks -> Nat],
           NEW v \in more_urgent(t) \union {t}, \A u \in Tasks : ServedNow(u) <=> u = v
    PROVE  window_work(t, n)' = window_work(t, n) + (IF v = t THEN 0 ELSE 1)
<1> DEFINE f == done_since(n)
           g == done_since(n)'
<1>1. setup' = setup /\ PTyped
  BY DEF Serve, Schedule
<1>2. more_urgent(t)' = more_urgent(t) /\ more_urgent(t) \subseteq Periodic(task_set)
      /\ IsFiniteSet(more_urgent(t)) /\ t \notin more_urgent(t)
  BY <1>1, SetupStays, PeriodicFacts
<1>3. ASSUME NEW j \in more_urgent(t)
      PROVE  /\ f[j] \in Int /\ g[j] \in Int
             /\ j # v => g[j] = f[j]
             /\ j = v => g[j] = f[j] + 1
  <2>1. j \in Tasks
    BY <1>2, PeriodicFacts
  <2>2. f[j] \in Int /\ f[j] = (arrived[j] - n[j]) * cost(j) - left[j]
        /\ (arrived[j] - n[j]) * cost(j) \in Int
    BY <2>1, DoneTyped
  <2>3. g[j] = (arrived[j] - n[j]) * cost(j) - left'[j]
    <3>1. arrived' = arrived
      BY <2>1, <1>1, ServeEffect
    <3> QED
      BY <1>1, <2>1, <3>1, SetupStays DEF done_since
  <2>4. left[j] \in Nat /\ left'[j] = IF j = v THEN left[j] - 1 ELSE left[j]
    BY <1>1, <2>1, ServeEffect DEF PTyped
  <2> QED
    BY <2>2, <2>3, <2>4
<1>4. SumFunctionOnSet(f, more_urgent(t)) \in Int
  <2> HIDE DEF f, g
  <2> QED
    BY <1>2, <1>3, SumTyped
<1>5. CASE v = t
  <2>1. \A j \in more_urgent(t) : f[j] \in Int /\ g[j] = f[j]
    BY <1>2, <1>3, <1>5
  <2>2. SumFunctionOnSet(g, more_urgent(t)) = SumFunctionOnSet(f, more_urgent(t))
    <3> HIDE DEF f, g
    <3> QED
      BY <1>2, <2>1, SumSame
  <2>3. window_work(t, n)' = SumFunctionOnSet(g, more_urgent(t))
    BY <1>2 DEF window_work
  <2>4. window_work(t, n) = SumFunctionOnSet(f, more_urgent(t))
    BY DEF window_work
  <2> HIDE DEF f, g
  <2> QED
    BY <1>4, <1>5, <2>2, <2>3, <2>4
<1>6. CASE v # t
  <2>1. v \in more_urgent(t)
    BY <1>6
  <2>2. \A j \in more_urgent(t) : f[j] \in Int /\ g[j] \in Int
    BY <1>3
  <2>3. \A j \in more_urgent(t) : j # v => g[j] = f[j]
    BY <1>3
  <2>4. SumFunctionOnSet(g, more_urgent(t)) = SumFunctionOnSet(f, more_urgent(t)) + (g[v] - f[v])
    <3> HIDE DEF f, g
    <3> QED
      BY <1>2, <2>1, <2>2, <2>3, SumChanges
  <2>5. g[v] - f[v] = 1
    <3>1. f[v] \in Int /\ g[v] = f[v] + 1
      BY <1>3, <2>1
    <3> HIDE DEF f, g
    <3> QED
      BY <3>1
  <2>6. window_work(t, n)' = SumFunctionOnSet(g, more_urgent(t))
    BY <1>2 DEF window_work
  <2>7. window_work(t, n) = SumFunctionOnSet(f, more_urgent(t))
    BY DEF window_work
  <2> HIDE DEF f, g
  <2> QED
    BY <1>4, <1>6, <2>4, <2>5, <2>6, <2>7
<1> QED
  BY <1>5, <1>6

LEMMA Difference ==
    ASSUME NEW a \in Int, NEW b \in Int, NEW c \in Int
    PROVE  (a - b) * c = a * c - b * c /\ a * c \in Int /\ b * c \in Int
OBVIOUS

\* Of the jobs before b each was due before b, and none since then is.
Opens(t, b, n) ==
    \A j \in more_urgent(t) : n[j] <= arrived[j] /\ b <= phase(j) + n[j] * period(j)

\* No more work of the more urgent tasks is done in a window than the analysis
\* counts, and less if some is left.
LEMMA WorkIsAsked ==
    ASSUME Analysed, Schedule, NEW t \in Periodic(task_set), NEW n \in [Tasks -> Nat],
           NEW b \in Nat \ {0}, b <= time, Opens(t, b, n)
    PROVE  /\ window_work(t, n) \in Int
           /\ window_work(t, n) <= interference(task_set, t, time - b + 1)
           /\ \A v \in more_urgent(t) :
                 left[v] > 0 => window_work(t, n) + 1 <= interference(task_set, t, time - b + 1)
<1> DEFINE d == time - b
           S == more_urgent(t)
           f == done_since(n)
           g == [o \in Periodic(task_set) |-> div_ceil(d + 1, task_set.period[o]) * task_set.wcet[o]]
<1>1. d \in Nat
  BY DEF Schedule, PTyped
<1>2. IsFiniteSet(S) /\ S \subseteq Periodic(task_set)
  BY PeriodicFacts
<1>3. ASSUME NEW j \in S
      PROVE  f[j] \in Int /\ g[j] \in Int /\ f[j] <= g[j] /\ (left[j] > 0 => f[j] + 1 <= g[j])
  <2> DEFINE T == period(j)
             c == cost(j)
             k == arrived[j] - n[j]
  <2>1. j \in Tasks /\ j \in Periodic(task_set)
    BY <1>2, PeriodicFacts
  <2>2. /\ T \in Nat \ {0} /\ c \in Nat \ {0} /\ arrived[j] \in Nat /\ left[j] \in Nat
        /\ phase(j) \in Nat /\ n[j] \in Nat /\ time \in Nat
    BY <2>1, Numbers DEF Schedule
  <2>3. f[j] = k * c - left[j] /\ k * c \in Int
    BY <2>1, DoneTyped
  <2>4. g[j] = div_ceil(d + 1, T) * c
    BY <2>1, PeriodicFacts, SetupFacts
  <2>5. n[j] <= arrived[j] /\ b <= phase(j) + n[j] * T
    BY DEF Opens
  <2>6. k \in Nat
    BY <2>2, <2>5
  <2>7. k <= div_ceil(d + 1, T)
    <3>1. CASE arrived[j] = 0
      <4>1. k = 0
        BY <2>2, <2>5, <3>1
      <4>2. div_ceil(d + 1, T) \in Nat
        BY <1>1, <2>2, CeilTyped
      <4> QED
        BY <4>1, <4>2
    <3>2. CASE arrived[j] > 0
      <4>1. phase(j) + (arrived[j] - 1) * T <= time
        BY <2>1, <3>2 DEF Schedule, Regular, Grid
      <4>2. (k - 1) * T = (arrived[j] - 1) * T - n[j] * T
            /\ (arrived[j] - 1) * T \in Int /\ n[j] * T \in Int
        <5>1. arrived[j] - 1 \in Int /\ n[j] \in Int /\ T \in Int
              /\ k - 1 = (arrived[j] - 1) - n[j]
          BY <2>2
        <5> HIDE DEF T, k
        <5> QED
          BY <5>1, Difference
      <4>3. (k - 1) * T <= d
        <5>1. ASSUME NEW x \in Int, NEW y \in Int, NEW p \in Nat,
                     p + x <= time, b <= p + y
              PROVE  x - y <= time - b
          BY <2>2, <5>1
        <5> QED
          BY <2>2, <2>5, <4>1, <4>2, <5>1
      <4>4. k \in Int
        BY <2>6
      <4> HIDE DEF T, k, d
      <4> QED
        BY <1>1, <2>2, <4>3, <4>4, CeilIsEnough
    <3> QED
      BY <2>2, <3>1, <3>2
  <2>8. div_ceil(d + 1, T) \in Nat
    BY <1>1, <2>2, CeilTyped
  <2>9. k * c <= div_ceil(d + 1, T) * c /\ div_ceil(d + 1, T) * c \in Int
    <3> DEFINE q == div_ceil(d + 1, T)
    <3>1. k \in Int /\ q \in Int /\ k <= q /\ c \in Nat
      BY <2>2, <2>6, <2>7, <2>8
    <3> HIDE DEF q, k, c
    <3>2. k * c <= q * c /\ q * c \in Int
      BY <3>1, ProductOrder
    <3> QED
      BY <3>2 DEF q
  <2> HIDE DEF f, g, k, c
  <2> QED
    BY <2>2, <2>3, <2>4, <2>9
<1>4. interference(task_set, t, time - b + 1) = SumFunctionOnSet(g, S)
  BY DEF interference, more_urgent
<1>5. window_work(t, n) = SumFunctionOnSet(f, S)
  BY DEF window_work
<1>6. SumFunctionOnSet(f, S) \in Int /\ SumFunctionOnSet(f, S) <= SumFunctionOnSet(g, S)
  <2>1. \A j \in S : f[j] \in Int
    BY <1>3
  <2>2. \A j \in S : f[j] \in Int /\ g[j] \in Int /\ f[j] <= g[j]
    BY <1>3
  <2> HIDE DEF f, g, S
  <2>3. SumFunctionOnSet(f, S) \in Int
    BY <1>2, <2>1, SumTyped
  <2>4. SumFunctionOnSet(f, S) <= SumFunctionOnSet(g, S)
    BY <1>2, <2>2, SumAtLeast
  <2> QED
    BY <2>3, <2>4
<1>7. ASSUME NEW v \in S, left[v] > 0
      PROVE  SumFunctionOnSet(f, S) + 1 <= SumFunctionOnSet(g, S)
  <2>1. \A j \in S : f[j] \in Int /\ g[j] \in Int /\ f[j] <= g[j]
    BY <1>3
  <2>2. f[v] + 1 <= g[v]
    BY <1>3, <1>7
  <2> HIDE DEF f, g, S
  <2> QED
    BY <1>2, <1>7, <2>1, <2>2, SumExceeds
<1> HIDE DEF f, g
<1> QED
  BY <1>4, <1>5, <1>6, <1>7

LEMMA AskedIs ==
    ASSUME Analysed, NEW t \in Periodic(task_set), NEW r \in Nat
    PROVE  /\ asked(t, r) = cost(t) + interference(task_set, t, r)
           /\ asked(t, r) \in Nat /\ interference(task_set, t, r) \in Nat
<1>1. t \in Tasks /\ task_set \in TaskSet /\ cost(t) = task_set.wcet[t]
  BY PeriodicFacts, SetupFacts DEF Analysed
<1>2. interference(task_set, t, r) \in Nat /\ demand(task_set, t, r) \in Nat
  BY <1>1, DemandTyped
<1> QED
  BY <1>1, <1>2 DEF asked, demand

\* The window so far was at no length long enough for what is asked in it.
Window(t, b, n) ==
    /\ b <= time
    /\ Opens(t, b, n)
    /\ left[t] > 0 => b <= begun(t)
    /\ elapsed - b + 1 = window_work(t, n) + own_work(t)
    /\ \A r \in Nat : 1 <= r /\ r <= elapsed - b + 1 => r < asked(t, r)

Pending(t) ==
    left[t] > 0 \/ \E j \in more_urgent(t) : left[j] > 0 \/ next_due(j) <= time

Windowed(t) ==
    Pending(t) => \E b \in Nat \ {0}, n \in [Tasks -> Nat] : Window(t, b, n)

\* With nothing pending a window opens at the next tick.
LEMMA WindowOpens ==
    ASSUME Analysed, Schedule, Arrive, NEW t \in Periodic(task_set), ~Pending(t),
           NEW b, b = time + 1, NEW n, n = arrived
    PROVE  b \in Nat \ {0} /\ n \in [Tasks -> Nat] /\ Window(t, b, n)'
<1>1. /\ time \in Nat /\ b \in Nat \ {0} /\ n \in [Tasks -> Nat] /\ setup' = setup /\ PTyped
      /\ turn' = "serve" /\ time' = time + 1
  BY DEF Schedule, PTyped, Arrive
<1>2. more_urgent(t)' = more_urgent(t) /\ more_urgent(t) \subseteq Periodic(task_set)
      /\ IsFiniteSet(more_urgent(t))
  BY <1>1, SetupStays, PeriodicFacts
<1>3. left[t] = 0 /\ \A j \in more_urgent(t) : left[j] = 0 /\ next_due(j) > time
  <2>1. left[t] = 0
    <3>1. left[t] \in Nat
      BY Numbers DEF Schedule
    <3> QED
      BY <3>1 DEF Pending
  <2>2. ASSUME NEW j \in more_urgent(t) PROVE left[j] = 0 /\ next_due(j) > time
    <3>1. left[j] \in Nat /\ next_due(j) \in Nat
      BY <1>2, Numbers DEF Schedule
    <3> QED
      BY <1>1, <3>1 DEF Pending
  <2> QED
    BY <2>1, <2>2
<1>4. \A j \in more_urgent(t) :
         n[j] <= arrived'[j] /\ b <= phase(j)' + n[j] * period(j)'
  <2> SUFFICES ASSUME NEW j \in more_urgent(t)
               PROVE  n[j] <= arrived'[j] /\ b <= phase(j)' + n[j] * period(j)'
    OBVIOUS
  <2>1. j \in Periodic(task_set) /\ arrived[j] \in Nat /\ next_due(j) \in Nat
    BY <1>2, Numbers DEF Schedule
  <2>2. arrived'[j] \in {arrived[j], arrived[j] + 1}
    BY <1>1, <2>1, ArriveEffect
  <2>3. phase(j)' = phase(j) /\ period(j)' = period(j)
    BY <1>1, SetupStays
  <2>4. b <= phase(j) + n[j] * period(j)
    BY <1>1, <1>3, <2>1 DEF next_due
  <2> QED
    BY <2>1, <2>2, <2>3, <2>4
<1>5. window_work(t, n) = 0
  <2>1. \A j \in more_urgent(t) : done_since(n)[j] = 0
    <3> SUFFICES ASSUME NEW j \in more_urgent(t) PROVE done_since(n)[j] = 0
      OBVIOUS
    <3>1. j \in Tasks /\ arrived[j] \in Nat /\ cost(j) \in Nat
      BY <1>2, Numbers DEF Schedule
    <3>2. done_since(n)[j] = (arrived[j] - n[j]) * cost(j) - left[j]
      BY <1>1, <3>1, DoneTyped
    <3>3. arrived[j] - n[j] = 0
      BY <3>1
    <3> QED
      BY <1>3, <3>1, <3>2, <3>3
  <2> QED
    BY <1>2, <2>1, SumOfZeros DEF window_work
<1>6. window_work(t, n)' = 0
  BY <1>1, <1>5, WorkAtArrival
<1>7. left'[t] > 0 => b <= begun(t)' /\ left'[t] = cost(t)
  <2>1. ArrivesNow(t) => due_by'[t] = time + 1 + period(t) /\ left'[t] = cost(t)
    BY <1>1, ArriveEffect
  <2>2. ~ArrivesNow(t) => left'[t] = left[t]
    BY <1>1, ArriveEffect
  <2>3. period(t)' = period(t) /\ period(t) \in Nat
    BY <1>1, SetupStays, Numbers
  <2>4. ArrivesNow(t) => begun(t)' = b
    BY <1>1, <2>1, <2>3 DEF begun
  <2> QED
    BY <1>1, <1>3, <2>1, <2>2, <2>4
<1>8. own_work(t)' = 0
  <2>1. cost(t)' = cost(t) /\ cost(t) \in Nat
    BY <1>1, SetupStays, Numbers
  <2> QED
    BY <1>7, <2>1 DEF own_work
<1>9. elapsed' - b + 1 = 0
  BY <1>1 DEF elapsed
<1>10. Opens(t, b, n)'
  BY <1>2, <1>4 DEF Opens
<1> QED
  BY <1>1, <1>6, <1>7, <1>8, <1>9, <1>10 DEF Window

\* Arrivals leave an open window as it is.
LEMMA WindowStays ==
    ASSUME Analysed, Schedule, Arrive, NEW t \in Periodic(task_set),
           NEW b \in Nat \ {0}, NEW n \in [Tasks -> Nat], Window(t, b, n)
    PROVE  Window(t, b, n)'
<1>1. /\ time \in Nat /\ setup' = setup /\ PTyped
      /\ turn = "arrive" /\ turn' = "serve" /\ time' = time + 1
  BY DEF Schedule, PTyped, Arrive
<1>2. more_urgent(t)' = more_urgent(t) /\ more_urgent(t) \subseteq Periodic(task_set)
  BY <1>1, SetupStays, PeriodicFacts
<1>3. Opens(t, b, n)'
  <2> SUFFICES ASSUME NEW j \in more_urgent(t)
               PROVE  n[j] <= arrived'[j] /\ b <= phase(j)' + n[j] * period(j)'
    BY <1>2 DEF Opens
  <2>1. j \in Periodic(task_set) /\ j \in Tasks /\ arrived[j] \in Nat
    BY <1>2, Numbers DEF Schedule
  <2>2. arrived'[j] \in {arrived[j], arrived[j] + 1}
    BY <1>1, <2>1, ArriveEffect
  <2>3. phase(j)' = phase(j) /\ period(j)' = period(j)
    BY <1>1, SetupStays
  <2>4. n[j] <= arrived[j] /\ b <= phase(j) + n[j] * period(j)
    BY DEF Window, Opens
  <2>5. n[j] \in Nat
    BY <2>1
  <2> QED
    BY <2>1, <2>2, <2>3, <2>4, <2>5
<1>4. /\ left'[t] > 0 => b <= begun(t)'
      /\ own_work(t)' = own_work(t)
  <2>1. /\ ArrivesNow(t) => left'[t] = cost(t) /\ due_by'[t] = time + 1 + period(t)
        /\ ~ArrivesNow(t) => left'[t] = left[t] /\ due_by'[t] = due_by[t]
    BY <1>1, ArriveEffect
  <2>2. period(t)' = period(t) /\ cost(t)' = cost(t) /\ period(t) \in Nat /\ cost(t) \in Nat \ {0}
    BY <1>1, SetupStays, Numbers
  <2>3. CASE ArrivesNow(t)
    <3>1. begun(t)' = time + 1 /\ left'[t] = cost(t) /\ left[t] = 0
      BY <1>1, <2>1, <2>2, <2>3 DEF begun, ArrivesNow
    <3>2. b <= time
      BY DEF Window
    <3> QED
      BY <1>1, <2>2, <3>1, <3>2 DEF own_work
  <2>4. CASE ~ArrivesNow(t)
    <3>1. begun(t)' = begun(t) /\ left'[t] = left[t]
      BY <2>1, <2>2, <2>4 DEF begun
    <3> QED
      BY <2>2, <3>1 DEF Window, own_work
  <2> QED
    BY <2>3, <2>4
<1>5. elapsed' = elapsed
  BY <1>1 DEF elapsed
<1>6. window_work(t, n)' = window_work(t, n)
  BY WorkAtArrival DEF Schedule
<1>7. \A r : asked(t, r)' = asked(t, r)
  BY <1>1, SetupStays
<1>8. /\ b <= time' /\ elapsed' - b + 1 = window_work(t, n)' + own_work(t)'
      /\ \A r \in Nat : 1 <= r /\ r <= elapsed' - b + 1 => r < asked(t, r)'
  <2>1. b <= time /\ elapsed - b + 1 = window_work(t, n) + own_work(t)
        /\ \A r \in Nat : 1 <= r /\ r <= elapsed - b + 1 => r < asked(t, r)
    BY DEF Window
  <2> QED
    BY <1>1, <1>4, <1>5, <1>6, <1>7, <2>1
<1> QED
  BY <1>3, <1>4, <1>8 DEF Window

\* While something is left the window grows by the tick served, and the new
\* length is not enough either.
LEMMA WindowGrows ==
    ASSUME Analysed, Schedule, Serve, NEW t \in Periodic(task_set),
           NEW b \in Nat \ {0}, NEW n \in [Tasks -> Nat], Window(t, b, n),
           NEW v \in more_urgent(t) \union {t}, left[v] > 0,
           \A u \in Tasks : ServedNow(u) <=> u = v,
           v = t => left'[t] > 0
    PROVE  Window(t, b, n)'
<1> DEFINE L == time - b + 1
<1>1. /\ time \in Nat /\ setup' = setup /\ PTyped /\ t \in Tasks
      /\ turn = "serve" /\ turn' = "arrive" /\ time' = time
  BY Numbers DEF Schedule, PTyped, Serve
<1>2. more_urgent(t)' = more_urgent(t) /\ t \notin more_urgent(t)
  BY <1>1, SetupStays, PeriodicFacts
<1>3. /\ arrived' = arrived /\ due_by' = due_by
      /\ left'[t] = IF t = v THEN left[t] - 1 ELSE left[t]
  BY <1>1, ServeEffect
<1>4. /\ cost(t)' = cost(t) /\ cost(t) \in Nat \ {0} /\ left[t] \in Nat /\ left[t] <= cost(t)
      /\ period(t)' = period(t)
  BY <1>1, SetupStays, Numbers DEF Schedule, Regular, Grid
<1>5. b <= time /\ Opens(t, b, n)
  BY DEF Window
<1>6. Opens(t, b, n)'
  BY <1>1, <1>2, <1>3, <1>5, SetupStays DEF Opens
<1>7. left'[t] > 0 => b <= begun(t)'
  <2>1. begun(t)' = begun(t)
    BY <1>3, <1>4 DEF begun
  <2>2. left'[t] > 0 => left[t] > 0
    BY <1>3, <1>4
  <2> QED
    BY <2>1, <2>2 DEF Window
<1>8. window_work(t, n)' = window_work(t, n) + (IF v = t THEN 0 ELSE 1)
  BY WorkAtService
<1>9. own_work(t)' = own_work(t) + (IF v = t THEN 1 ELSE 0)
  BY <1>3, <1>4 DEF own_work
<1>10. own_work(t)' < cost(t) /\ own_work(t)' \in Nat /\ own_work(t) \in Nat
  <2>1. left'[t] \in Nat
    BY <1>3, <1>4
  <2>2. own_work(t)' = IF left'[t] > 0 THEN cost(t) - left'[t] ELSE 0
    BY <1>4 DEF own_work
  <2> QED
    BY <1>3, <1>4, <2>1, <2>2 DEF own_work
<1>11. window_work(t, n) \in Int /\ window_work(t, n)' <= interference(task_set, t, L)
  <2>1. /\ window_work(t, n) \in Int
        /\ window_work(t, n) <= interference(task_set, t, L)
        /\ \A u \in more_urgent(t) :
              left[u] > 0 => window_work(t, n) + 1 <= interference(task_set, t, L)
    BY <1>5, WorkIsAsked
  <2> QED
    BY <1>8, <2>1
<1>12. elapsed - b + 1 = window_work(t, n) + own_work(t) /\ elapsed = time - 1 /\ elapsed' = time
  BY <1>1 DEF Window, elapsed
<1>13. elapsed' - b + 1 = window_work(t, n)' + own_work(t)' /\ elapsed' - b + 1 = L
  BY <1>1, <1>8, <1>9, <1>10, <1>11, <1>12
<1>14. L \in Nat /\ L < asked(t, L)
  <2>1. L \in Nat
    BY <1>1, <1>5
  <2>2. asked(t, L) = cost(t) + interference(task_set, t, L) /\ interference(task_set, t, L) \in Nat
    BY <2>1, AskedIs
  <2>3. L = window_work(t, n)' + own_work(t)' /\ window_work(t, n)' \in Int
    BY <1>8, <1>11, <1>13
  <2> HIDE DEF L
  <2> QED
    BY <1>4, <1>10, <1>11, <2>1, <2>2, <2>3
<1>15. ASSUME NEW r \in Nat, 1 <= r, r <= elapsed' - b + 1 PROVE r < asked(t, r)'
  <2>1. asked(t, r)' = asked(t, r)
    BY <1>1, SetupStays
  <2>2. CASE r <= elapsed - b + 1
    BY <1>15, <2>1, <2>2 DEF Window
  <2>3. CASE ~(r <= elapsed - b + 1)
    <3>1. r = L
      BY <1>1, <1>12, <1>15, <2>3
    <3> QED
      BY <1>14, <2>1, <3>1
  <2> QED
    BY <2>2, <2>3
<1> QED
  BY <1>1, <1>5, <1>6, <1>7, <1>13, <1>15 DEF Window

LEMMA WindowedInit ==
    ASSUME Analysed, PInit, NEW t \in Periodic(task_set)
    PROVE  Windowed(t)
<1> SUFFICES ASSUME Pending(t) PROVE FALSE
  BY DEF Windowed
<1>1. time = 0 /\ t \in Tasks /\ more_urgent(t) \subseteq Periodic(task_set)
  BY PeriodicFacts DEF PInit
<1>2. left[t] = 0
  BY <1>1 DEF PInit
<1>3. PICK j \in more_urgent(t) : left[j] > 0 \/ next_due(j) <= time
  BY <1>2 DEF Pending
<1>4. j \in Tasks /\ j \in Periodic(task_set) /\ period(j) \in Nat /\ phase(j) \in Nat
  BY <1>1, PeriodicFacts, SetupFacts
<1>5. left[j] = 0 /\ arrived[j] = 0
  BY <1>4 DEF PInit
<1>6. next_due(j) = phase(j)
  BY <1>4, <1>5 DEF next_due
<1>7. phase(j) >= 1
  BY <1>4 DEF Analysed, phase
<1> QED
  BY <1>1, <1>3, <1>4, <1>5, <1>6, <1>7

\* What is pending after a tick was left before it, and t was not the task that
\* finished: then nothing would be.
LEMMA StillPending ==
    ASSUME Analysed, Schedule, Serve, NEW t \in Periodic(task_set), Pending(t)'
    PROVE  /\ Pending(t)
           /\ \E v \in more_urgent(t) \union {t} :
                 /\ left[v] > 0
                 /\ \A u \in Tasks : ServedNow(u) <=> u = v
                 /\ v = t => left'[t] > 0
<1>1. /\ time \in Nat /\ setup' = setup /\ PTyped /\ t \in Tasks
      /\ turn = "serve" /\ time' = time
  BY Numbers DEF Schedule, PTyped, Serve
<1>2. more_urgent(t)' = more_urgent(t) /\ more_urgent(t) \subseteq Periodic(task_set)
      /\ t \notin more_urgent(t)
  BY <1>1, SetupStays, PeriodicFacts
<1>3. ASSUME NEW j \in more_urgent(t) \union {t}
      PROVE  /\ j \in Tasks /\ left[j] \in Nat /\ left'[j] <= left[j]
             /\ next_due(j)' = next_due(j) /\ (left[j] = 0 => next_due(j) > time)
             /\ next_due(j) \in Nat
  <2>1. j \in Periodic(task_set) /\ j \in Tasks
    BY <1>2, PeriodicFacts
  <2>2. left[j] \in Nat /\ next_due(j) \in Nat
    BY <2>1, Numbers DEF Schedule
  <2>3. left[j] = 0 => next_due(j) > time
    BY <1>1, <2>1 DEF Schedule, Regular, Grid
  <2>4. next_due(j)' = next_due(j)
    <3>1. arrived' = arrived
      BY <1>1, ServeEffect
    <3> QED
      BY <1>1, <3>1, SetupStays DEF next_due
  <2>5. left'[j] <= left[j]
    BY <1>1, <2>1, <2>2, ServeEffect
  <2> QED
    BY <2>1, <2>2, <2>3, <2>4, <2>5
<1>4. \E w \in more_urgent(t) \union {t} : left[w] > 0
  <2>1. CASE left'[t] > 0
    <3>1. left[t] > 0
      <4>1. left[t] \in Nat /\ left'[t] <= left[t] /\ left'[t] \in Int
        BY <1>1, <1>3, ServeEffect
      <4> QED
        BY <2>1, <4>1
    <3> QED
      BY <3>1
  <2>2. CASE ~(left'[t] > 0)
    <3>1. PICK j \in more_urgent(t) : left'[j] > 0 \/ next_due(j) <= time
      BY <1>1, <1>2, <1>3, <2>2 DEF Pending
    <3>2. left[j] > 0
      <4>1. left[j] \in Nat /\ left'[j] <= left[j] /\ next_due(j) \in Nat
            /\ (left[j] = 0 => next_due(j) > time)
        BY <1>3
      <4>2. left'[j] \in Int
        BY <1>1, <1>3, ServeEffect
      <4> QED
        BY <1>1, <3>1, <4>1, <4>2
    <3> QED
      BY <3>2
  <2> QED
    BY <2>1, <2>2
<1>5. PICK v \in more_urgent(t) \union {t} :
              /\ left[v] > 0
              /\ \A u \in Tasks : ServedNow(u) <=> u = v
              /\ v = t => \A u \in more_urgent(t) : left[u] = 0
  BY <1>1, <1>4, WhoIsServed
<1>6. ASSUME v = t PROVE left'[t] > 0
  <2>1. ASSUME NEW j \in more_urgent(t) PROVE ~(left'[j] > 0 \/ next_due(j) <= time)
    <3>1. left[j] = 0 /\ next_due(j) > time /\ next_due(j) \in Nat
      BY <1>3, <1>5, <1>6
    <3>2. left'[j] <= 0 /\ left'[j] \in Int
      BY <1>1, <1>3, <3>1, ServeEffect
    <3> QED
      BY <1>1, <3>1, <3>2
  <2> QED
    BY <1>1, <1>2, <1>3, <2>1 DEF Pending
<1>7. Pending(t)
  BY <1>4 DEF Pending
<1> QED
  BY <1>5, <1>6, <1>7

LEMMA WindowedStep ==
    ASSUME Analysed, Schedule, [PNext]_processorVars, NEW t \in Periodic(task_set), Windowed(t)
    PROVE  Windowed(t)'
<1> SUFFICES ASSUME Pending(t)'
             PROVE  \E b \in Nat \ {0}, n \in [Tasks -> Nat] : Window(t, b, n)'
  BY DEF Windowed
<1>1. CASE UNCHANGED processorVars
  <2>1. Pending(t)
    BY <1>1, SetupStays DEF processorVars, Pending, next_due
  <2>2. PICK b \in Nat \ {0}, n \in [Tasks -> Nat] : Window(t, b, n)
    BY <2>1 DEF Windowed
  <2>3. setup' = setup /\ arrived' = arrived /\ left' = left /\ time' = time /\ turn' = turn
        /\ due_by' = due_by
    BY <1>1 DEF processorVars
  <2>4. /\ more_urgent(t)' = more_urgent(t) /\ begun(t)' = begun(t) /\ own_work(t)' = own_work(t)
        /\ elapsed' = elapsed /\ \A r : asked(t, r)' = asked(t, r)
    BY <2>3, SetupStays DEF begun, own_work, elapsed
  <2>5. done_since(n)' = done_since(n)
    BY <2>3, SetupStays DEF done_since
  <2>6. window_work(t, n)' = window_work(t, n)
    BY <2>4, <2>5 DEF window_work
  <2>7. Opens(t, b, n)' <=> Opens(t, b, n)
    BY <2>3, <2>4, SetupStays DEF Opens
  <2>8. Window(t, b, n)'
    BY <2>2, <2>3, <2>4, <2>6, <2>7 DEF Window
  <2> QED
    BY <2>8
<1>2. CASE Arrive /\ Pending(t)
  <2>1. PICK b \in Nat \ {0}, n \in [Tasks -> Nat] : Window(t, b, n)
    BY <1>2 DEF Windowed
  <2> QED
    BY <1>2, <2>1, WindowStays
<1>3. CASE Arrive /\ ~Pending(t)
  <2>1. PICK b, n : b = time + 1 /\ n = arrived
    OBVIOUS
  <2>2. b \in Nat \ {0} /\ n \in [Tasks -> Nat] /\ Window(t, b, n)'
    BY <1>3, <2>1, WindowOpens
  <2> QED
    BY <2>2
<1>4. CASE Serve
  <2>1. Pending(t)
    BY <1>4, StillPending
  <2>2. PICK v \in more_urgent(t) \union {t} :
                 /\ left[v] > 0
                 /\ \A u \in Tasks : ServedNow(u) <=> u = v
                 /\ v = t => left'[t] > 0
    BY <1>4, StillPending
  <2>3. PICK b \in Nat \ {0}, n \in [Tasks -> Nat] : Window(t, b, n)
    BY <2>1 DEF Windowed
  <2>4. Window(t, b, n)'
    BY <1>4, <2>2, <2>3, WindowGrows
  <2> QED
    BY <2>4
<1> QED
  BY <1>1, <1>2, <1>3, <1>4 DEF PNext

-----------------------------------------------------------------------------
(***************************************************************************)
(* A window with room for what is asked in it is never filled.             *)
(***************************************************************************)
Fits(t, R) == R \in Nat \ {0} /\ R <= period(t) /\ asked(t, R) <= R

LEMMA ShortWindow ==
    ASSUME Analysed, Schedule, NEW t \in Periodic(task_set), Windowed(t), left[t] > 0,
           NEW R, R \in Nat \ {0}, asked(t, R) <= R
    PROVE  elapsed - begun(t) + 1 < R
<1>1. PICK b \in Nat \ {0}, n \in [Tasks -> Nat] : Window(t, b, n)
  BY DEF Windowed, Pending
<1>2. b <= begun(t) /\ \A r \in Nat : 1 <= r /\ r <= elapsed - b + 1 => r < asked(t, r)
  BY <1>1 DEF Window
<1>3. asked(t, R) \in Nat
  BY AskedIs
<1>4. elapsed \in Int /\ begun(t) \in Int
  <2>1. due_by[t] \in Nat /\ period(t) \in Nat /\ time \in Nat
    BY Numbers DEF Schedule, Regular, Grid
  <2> QED
    BY <2>1 DEF elapsed, begun
<1> QED
  BY <1>2, <1>3, <1>4

\* Every job comes when it is due to, and has come to its end before the next.
OnTime(t) ==
    /\ late[t] = 0
    /\ left[t] > 0 => due_by[t] = next_due(t)
    /\ left[t] = 0 => next_due(t) > time

LEMMA OnTimeInit ==
    ASSUME Analysed, PInit, NEW t \in Periodic(task_set)
    PROVE  OnTime(t)
<1>1. t \in Tasks /\ period(t) \in Nat /\ phase(t) \in Nat
  BY PeriodicFacts, SetupFacts
<1>2. time = 0 /\ left[t] = 0 /\ late[t] = 0 /\ arrived[t] = 0
  BY <1>1 DEF PInit
<1>3. next_due(t) = phase(t)
  BY <1>1, <1>2 DEF next_due
<1>4. phase(t) >= 1
  BY DEF Analysed, phase
<1> QED
  BY <1>1, <1>2, <1>3, <1>4 DEF OnTime

LEMMA OnTimeStep ==
    ASSUME Analysed, Schedule, [PNext]_processorVars, NEW t \in Periodic(task_set),
           Windowed(t), NEW R, Fits(t, R), OnTime(t)
    PROVE  OnTime(t)'
<1>1. left[t] > 0 => elapsed + 1 < due_by[t]
  <2> SUFFICES ASSUME left[t] > 0 PROVE elapsed + 1 < due_by[t]
    OBVIOUS
  <2>1. elapsed - begun(t) + 1 < R /\ R \in Nat /\ R <= period(t)
    BY ShortWindow DEF Fits
  <2>2. elapsed \in Int /\ due_by[t] \in Nat /\ period(t) \in Nat
    <3>1. due_by[t] \in Nat /\ period(t) \in Nat /\ time \in Nat
      BY Numbers DEF Schedule, Regular, Grid
    <3> QED
      BY <3>1 DEF elapsed
  <2> QED
    BY <2>1, <2>2 DEF begun
<1>2. /\ t \in Tasks /\ time \in Nat /\ left[t] \in Nat /\ late[t] \in Nat
      /\ next_due(t) \in Nat /\ period(t) \in Nat \ {0} /\ arrived[t] \in Nat /\ phase(t) \in Nat
      /\ cost(t) \in Nat \ {0}
  BY Numbers DEF Schedule
<1>3. left[t] > 0 => due_by[t] \in Nat
  BY DEF Schedule, Regular, Grid
<1>4. CASE UNCHANGED processorVars
  BY <1>4, SetupStays DEF OnTime, processorVars, next_due
<1>5. CASE Serve
  <2>1. /\ turn = "serve" /\ time' = time /\ setup' = setup
        /\ arrived' = arrived /\ due_by' = due_by /\ late' = late
        /\ left'[t] = IF ServedNow(t) THEN left[t] - 1 ELSE left[t]
        /\ ServedNow(t) => left[t] > 0
    BY <1>2, <1>5, ServeEffect DEF Schedule
  <2>2. next_due(t)' = next_due(t)
    BY <2>1, SetupStays DEF next_due
  <2>3. left[t] > 0 => time < due_by[t]
    BY <1>1, <1>2, <1>3, <2>1 DEF elapsed
  <2> QED
    BY <1>2, <2>1, <2>2, <2>3 DEF OnTime
<1>6. CASE Arrive
  <2>1. /\ turn = "arrive" /\ time' = time + 1 /\ setup' = setup
        /\ ArrivesNow(t) => /\ left'[t] = cost(t) /\ arrived'[t] = arrived[t] + 1
                            /\ due_by'[t] = time + 1 + period(t)
        /\ ~ArrivesNow(t) => /\ left'[t] = left[t] /\ arrived'[t] = arrived[t]
                             /\ due_by'[t] = due_by[t]
        /\ late'[t] \in {late[t], late[t] + 1}
        /\ late'[t] = late[t] + 1 <=>
             left[t] > 0 /\ due_by[t] # Never /\ due_by[t] = time + 1
    BY <1>6, ArriveEffect DEF Schedule
  <2>2. late'[t] = 0
    BY <1>1, <1>2, <1>3, <2>1 DEF OnTime, elapsed
  <2>3. next_due(t)' = phase(t) + arrived'[t] * period(t)
    BY <2>1, SetupStays DEF next_due
  <2>4. CASE ArrivesNow(t)
    <3>1. left[t] = 0 /\ next_due(t) = time + 1
      BY <1>2, <2>4 DEF ArrivesNow, OnTime
    <3>2. next_due(t)' = next_due(t) + period(t)
      <4>1. (arrived[t] + 1) * period(t) = arrived[t] * period(t) + period(t)
            /\ arrived[t] * period(t) \in Int
        BY <1>2, Numbers DEF Schedule
      <4> QED
        BY <1>2, <2>1, <2>3, <2>4, <4>1 DEF next_due
    <3> QED
      BY <1>2, <2>1, <2>2, <2>4, <3>1, <3>2 DEF OnTime
  <2>5. CASE ~ArrivesNow(t)
    <3>1. next_due(t)' = next_due(t)
      BY <2>1, <2>3, <2>5 DEF next_due
    <3>2. left[t] = 0 => next_due(t) > time + 1
      BY <1>2, <2>5 DEF ArrivesNow
    <3> QED
      BY <2>1, <2>2, <2>5, <3>1, <3>2 DEF OnTime
  <2> QED
    BY <2>4, <2>5
<1> QED
  BY <1>4, <1>5, <1>6 DEF PNext

LEMMA FitsStays == ASSUME setup' = setup, NEW t, NEW R PROVE Fits(t, R)' <=> Fits(t, R)
BY SetupStays DEF Fits

Sound(t) == Windowed(t) /\ \A R : Fits(t, R) => OnTime(t)

\* The invariant.
Punctual == Schedule /\ \A t \in Periodic(task_set) : Sound(t)

LEMMA PunctualInit == PInit /\ Analysed => Punctual
BY ScheduleInit, WindowedInit, OnTimeInit DEF Punctual, Sound

LEMMA PunctualStep == Analysed /\ Punctual /\ [PNext]_processorVars => Punctual' /\ Analysed'
<1> SUFFICES ASSUME Analysed, Punctual, [PNext]_processorVars PROVE Punctual' /\ Analysed'
  OBVIOUS
<1>1. Schedule' /\ Analysed' /\ Schedule
  BY ScheduleStep DEF Punctual
<1>2. setup' = setup
  BY DEF PNext, Arrive, Serve, processorVars
<1>3. ASSUME NEW t \in Periodic(task_set) PROVE Sound(t)'
  <2>1. Windowed(t)'
    BY <1>1, WindowedStep DEF Punctual, Sound
  <2>2. ASSUME NEW R, Fits(t, R)' PROVE OnTime(t)'
    <3>1. Fits(t, R)
      BY <1>2, <2>2, FitsStays
    <3> QED
      BY <1>1, <3>1, OnTimeStep DEF Punctual, Sound
  <2> QED
    BY <2>1, <2>2 DEF Sound
<1> QED
  BY <1>1, <1>2, <1>3, SetupStays DEF Punctual

\* The response time is a bound: no job of a task with one is late, and a job
\* that is not finished at the end of a tick has been there for less.
ResponseBounds(t) ==
    LET R == response_time(task_set, t)
    IN  R # Never =>
            /\ late[t] = 0
            /\ turn = "arrive" /\ left[t] > 0 => time - begun(t) + 1 < R

LEMMA ResponseFits ==
    ASSUME Analysed, NEW t \in Periodic(task_set), response_time(task_set, t) # Never
    PROVE  Fits(t, response_time(task_set, t))
<1> DEFINE R == response_time(task_set, t)
<1>1. R \in Nat \ {0} /\ R <= task_set.period[t] /\ demand(task_set, t, R) = R
  BY ResponseTimeIsLeast DEF Analysed
<1>2. period(t) = task_set.period[t]
  BY PeriodicFacts
<1> HIDE DEF R
<1>3. asked(t, R) = R
  BY <1>1 DEF asked
<1>4. Fits(t, R)
  BY <1>1, <1>2, <1>3 DEF Fits
<1> QED
  BY <1>4 DEF R

LEMMA PunctualBounds == Analysed /\ Punctual => \A t \in Periodic(task_set) : ResponseBounds(t)
<1> SUFFICES ASSUME Analysed, Punctual, NEW t \in Periodic(task_set),
                    response_time(task_set, t) # Never
             PROVE  /\ late[t] = 0
                    /\ turn = "arrive" /\ left[t] > 0 =>
                         time - begun(t) + 1 < response_time(task_set, t)
  BY DEF ResponseBounds
<1> DEFINE R == response_time(task_set, t)
<1>1. Fits(t, R)
  BY ResponseFits
<1> HIDE DEF R
<1>2. late[t] = 0
  BY <1>1 DEF Punctual, Sound, OnTime
<1>3. ASSUME turn = "arrive", left[t] > 0 PROVE time - begun(t) + 1 < R
  <2>1. elapsed - begun(t) + 1 < R
    BY <1>1, <1>3, ShortWindow DEF Punctual, Sound, Fits
  <2> QED
    BY <1>3, <2>1 DEF elapsed
<1> QED
  BY <1>2, <1>3 DEF R

\* For every release phases the analysis is sound: a set it accepts misses no
\* deadline, and no job takes longer than the response time.
THEOREM AnalysisSound ==
    PSpec => [](Analysed => \A t \in Periodic(task_set) : ResponseBounds(t))
<1>1. PInit /\ Analysed => Punctual
  BY PunctualInit
<1>2. Analysed /\ Punctual /\ [PNext]_processorVars => Punctual' /\ Analysed'
  BY PunctualStep
<1>3. ~Analysed /\ [PNext]_processorVars => ~Analysed'
  <2> SUFFICES ASSUME [PNext]_processorVars PROVE Analysed' => Analysed
    OBVIOUS
  <2>1. setup' = setup
    BY DEF PNext, Arrive, Serve, processorVars
  <2> QED
    BY <2>1, AnalysedStays
<1>4. Analysed /\ Punctual => \A t \in Periodic(task_set) : ResponseBounds(t)
  BY PunctualBounds
<1> QED
  BY <1>1, <1>2, <1>3, <1>4, PTL DEF PSpec

-----------------------------------------------------------------------------
(***************************************************************************)
(* All released at tick 1: the first job takes the whole response time, so *)
(* the analysis does not promise too little.                               *)
(***************************************************************************)
Together == \A t \in Periodic(task_set) : phase(t) = 1

Zeros == [j \in Tasks |-> 0]

\* The first job is in the window that starts at tick 1 until it is finished, and
\* then the work asked for has been done.
FirstJob(t) ==
    /\ time = 0 => turn = "arrive"
    /\ time >= 1 /\ served[t] = 0 =>
          /\ left[t] > 0 /\ arrived[t] = 1 /\ due_by[t] = 1 + period(t)
          /\ elapsed = window_work(t, Zeros) + (cost(t) - left[t])
    /\ served[t] > 0 => \E x \in Nat \ {0} : x <= elapsed /\ asked(t, x) <= x

LEMMA FirstJobInit ==
    ASSUME Analysed, PInit, NEW t \in Periodic(task_set)
    PROVE  FirstJob(t)
<1>1. t \in Tasks
  BY PeriodicFacts
<1>2. time = 0 /\ turn = "arrive" /\ served[t] = 0
  BY <1>1 DEF PInit
<1> QED
  BY <1>2 DEF FirstJob

\* With everything finished that was released, all that is asked for is done.
LEMMA WorkIsReached ==
    ASSUME Analysed, Schedule, Together, NEW t \in Periodic(task_set), time >= 1,
           \A j \in more_urgent(t) : left[j] = 0 /\ next_due(j) > time
    PROVE  interference(task_set, t, time) <= window_work(t, Zeros)
<1> DEFINE S == more_urgent(t)
           f == done_since(Zeros)
           g == [o \in Periodic(task_set) |-> div_ceil(time, task_set.period[o]) * task_set.wcet[o]]
<1>1. IsFiniteSet(S) /\ S \subseteq Periodic(task_set)
  BY PeriodicFacts
<1>2. ASSUME NEW j \in S PROVE f[j] \in Int /\ g[j] \in Int /\ g[j] <= f[j]
  <2> DEFINE T == period(j)
             c == cost(j)
             k == arrived[j]
             q == div_ceil(time, T)
  <2>1. j \in Tasks /\ j \in Periodic(task_set)
    BY <1>1, PeriodicFacts
  <2>2. T \in Nat \ {0} /\ c \in Nat \ {0} /\ k \in Nat /\ time \in Nat
    BY <2>1, Numbers DEF Schedule
  <2>3. Zeros \in [Tasks -> Nat] /\ Zeros[j] = 0
    BY <2>1 DEF Zeros
  <2>4. f[j] = k * c - 0 /\ k * c \in Int
    <3>1. f[j] = (arrived[j] - Zeros[j]) * cost(j) - left[j]
      BY <2>1, <2>3, DoneTyped
    <3>2. arrived[j] - Zeros[j] = k /\ left[j] = 0
      BY <2>2, <2>3
    <3> QED
      BY <2>2, <3>1, <3>2
  <2>5. g[j] = q * c
    BY <2>1, PeriodicFacts, SetupFacts
  <2>6. q <= k
    <3>1. 1 + k * T > time /\ k * T \in Int
      <4>1. next_due(j) > time /\ phase(j) = 1
        BY <2>1 DEF Together
      <4> QED
        BY <2>2, <4>1 DEF next_due
    <3>2. time <= k * T
      <4> HIDE DEF k, T
      <4> QED
        BY <2>2, <3>1
    <3> HIDE DEF k, T
    <3> QED
      BY <2>2, <3>2, CeilIsReached
  <2>7. q \in Nat
    BY <2>2, CeilTyped
  <2> HIDE DEF f, g, q, k, c
  <2>8. q * c <= k * c /\ q * c \in Int
    BY <2>2, <2>6, <2>7, ProductOrder
  <2> QED
    BY <2>2, <2>4, <2>5, <2>8
<1>3. interference(task_set, t, time) = SumFunctionOnSet(g, S)
  BY DEF interference, more_urgent
<1>4. window_work(t, Zeros) = SumFunctionOnSet(f, S)
  BY DEF window_work
<1>5. SumFunctionOnSet(g, S) <= SumFunctionOnSet(f, S)
  <2>1. \A j \in S : g[j] \in Int /\ f[j] \in Int /\ g[j] <= f[j]
    BY <1>2
  <2> HIDE DEF f, g, S
  <2> QED
    BY <1>1, <2>1, SumAtLeast
<1> HIDE DEF f, g
<1> QED
  BY <1>3, <1>4, <1>5

LEMMA FirstArrival ==
    ASSUME Analysed, Schedule, Together, Arrive, NEW t \in Periodic(task_set), time = 0
    PROVE  /\ left'[t] > 0 /\ arrived'[t] = 1 /\ due_by'[t] = 1 + period(t) /\ served'[t] = 0
           /\ window_work(t, Zeros)' = 0 /\ left'[t] = cost(t) /\ elapsed' = 0
<1>1. ASSUME NEW j \in Periodic(task_set)
      PROVE  arrived[j] = 0 /\ left[j] = 0 /\ served[j] = 0 /\ next_due(j) = 1 /\ j \in Tasks
  <2>1. phase(j) = 1 /\ arrived[j] \in Nat /\ period(j) \in Nat \ {0} /\ left[j] \in Nat /\ j \in Tasks
    BY Numbers DEF Schedule, Together
  <2>2. arrived[j] = 0
    <3> SUFFICES ASSUME arrived[j] > 0 PROVE FALSE
      BY <2>1
    <3>1. phase(j) + (arrived[j] - 1) * period(j) <= time
      BY DEF Schedule, Regular, Grid
    <3>2. 0 * period(j) <= (arrived[j] - 1) * period(j) /\ (arrived[j] - 1) * period(j) \in Int
      <4>1. 0 <= arrived[j] - 1 /\ arrived[j] - 1 \in Int /\ period(j) \in Nat
        BY <2>1
      <4> QED
        BY <4>1, ProductOrder
    <3>3. 0 * period(j) = 0
      BY <2>1
    <3> QED
      BY <2>1, <3>1, <3>2, <3>3
  <2>3. left[j] = 0
    BY <2>1 DEF Schedule, Regular, Grid
  <2>4. served[j] = 0
    BY <2>2, <2>3 DEF Schedule, Regular, Grid
  <2>5. next_due(j) = 1
    BY <2>1, <2>2 DEF next_due
  <2> QED
    BY <2>1, <2>2, <2>3, <2>4, <2>5
<1>2. ArrivesNow(t)
  BY <1>1 DEF ArrivesNow
<1>3. /\ turn' = "serve" /\ time' = 1 /\ served'[t] = 0
      /\ left'[t] = cost(t) /\ arrived'[t] = 1 /\ due_by'[t] = 1 + period(t)
  BY <1>1, <1>2, ArriveEffect DEF Schedule
<1>4. cost(t) \in Nat \ {0}
  BY Numbers DEF Schedule
<1>5. Zeros \in [Tasks -> Nat] /\ \A j \in Tasks : Zeros[j] = 0
  BY DEF Zeros
<1>6. window_work(t, Zeros) = 0
  <2>1. IsFiniteSet(more_urgent(t)) /\ more_urgent(t) \subseteq Periodic(task_set)
    BY PeriodicFacts
  <2>2. \A j \in more_urgent(t) : done_since(Zeros)[j] = 0
    <3> SUFFICES ASSUME NEW j \in more_urgent(t) PROVE done_since(Zeros)[j] = 0
      OBVIOUS
    <3>1. j \in Tasks /\ arrived[j] - Zeros[j] = 0 /\ left[j] = 0
      BY <1>1, <1>5, <2>1
    <3>2. cost(j) \in Nat
      BY <3>1, SetupFacts
    <3> QED
      BY <3>1, <3>2 DEF done_since
  <2> QED
    BY <2>1, <2>2, SumOfZeros DEF window_work
<1>7. window_work(t, Zeros)' = window_work(t, Zeros)
  BY <1>5, WorkAtArrival
<1> QED
  BY <1>3, <1>4, <1>6, <1>7 DEF elapsed

LEMMA FirstJobArrive ==
    ASSUME Analysed, Schedule, Together, Arrive, NEW t \in Periodic(task_set), FirstJob(t)
    PROVE  FirstJob(t)'
<1>1. /\ time \in Nat /\ setup' = setup /\ PTyped /\ turn = "arrive" /\ turn' = "serve"
      /\ time' = time + 1 /\ served'[t] = served[t]
  BY ArriveEffect DEF Schedule, PTyped
<1>2. /\ cost(t)' = cost(t) /\ period(t)' = period(t) /\ cost(t) \in Nat \ {0}
      /\ \A r : asked(t, r)' = asked(t, r)
      /\ served[t] \in Nat /\ left[t] \in Nat /\ arrived[t] \in Nat
  BY <1>1, SetupStays, Numbers
<1>3. elapsed' = elapsed
  BY <1>1 DEF elapsed
<1>4. CASE time = 0
  <2>1. /\ left'[t] > 0 /\ arrived'[t] = 1 /\ due_by'[t] = 1 + period(t) /\ served'[t] = 0
        /\ window_work(t, Zeros)' = 0 /\ left'[t] = cost(t) /\ elapsed' = 0
    BY <1>4, FirstArrival
  <2> QED
    BY <1>1, <1>2, <1>4, <2>1 DEF FirstJob
<1>5. CASE time >= 1 /\ served[t] = 0
  <2>1. left[t] > 0 /\ arrived[t] = 1 /\ due_by[t] = 1 + period(t)
        /\ elapsed = window_work(t, Zeros) + (cost(t) - left[t])
    BY <1>5 DEF FirstJob
  <2>2. ~ArrivesNow(t)
    BY <2>1 DEF ArrivesNow
  <2>3. left'[t] = left[t] /\ arrived'[t] = arrived[t] /\ due_by'[t] = due_by[t]
    BY <1>1, <2>2, ArriveEffect
  <2>4. window_work(t, Zeros)' = window_work(t, Zeros)
    <3>1. Zeros \in [Tasks -> Nat]
      BY DEF Zeros
    <3> QED
      BY <3>1, WorkAtArrival
  <2> QED
    BY <1>1, <1>2, <1>3, <1>5, <2>1, <2>3, <2>4 DEF FirstJob
<1>6. CASE served[t] > 0
  <2>1. \E x \in Nat \ {0} : x <= elapsed' /\ asked(t, x)' <= x
    BY <1>2, <1>3, <1>6 DEF FirstJob
  <2> QED
    BY <1>1, <1>2, <1>6, <2>1 DEF FirstJob
<1> QED
  BY <1>1, <1>2, <1>4, <1>5, <1>6

LEMMA FirstJobServe ==
    ASSUME Analysed, Schedule, Together, Serve, NEW t \in Periodic(task_set), FirstJob(t)
    PROVE  FirstJob(t)'
<1>1. /\ time \in Nat /\ setup' = setup /\ PTyped /\ turn = "serve" /\ turn' = "arrive"
      /\ time' = time /\ t \in Tasks /\ time >= 1
  <2>1. /\ time \in Nat /\ setup' = setup /\ PTyped /\ turn = "serve" /\ turn' = "arrive"
        /\ time' = time
    BY DEF Schedule, PTyped, Serve
  <2>2. time # 0
    BY <2>1 DEF FirstJob
  <2> QED
    BY <2>1, <2>2, Numbers
<1>2. /\ cost(t)' = cost(t) /\ period(t)' = period(t) /\ cost(t) \in Nat \ {0}
      /\ \A r : asked(t, r)' = asked(t, r)
      /\ served[t] \in Nat /\ left[t] \in Nat /\ arrived[t] \in Nat
  BY <1>1, SetupStays, Numbers
<1>3. elapsed = time - 1 /\ elapsed' = time
  BY <1>1 DEF elapsed
<1>4. /\ arrived' = arrived /\ due_by' = due_by
      /\ left'[t] = IF ServedNow(t) THEN left[t] - 1 ELSE left[t]
      /\ served'[t] = IF ServedNow(t) /\ left[t] = 1 THEN served[t] + 1 ELSE served[t]
  BY <1>1, ServeEffect
<1>5. CASE served[t] > 0
  <2>1. PICK x \in Nat \ {0} : x <= elapsed /\ asked(t, x) <= x
    BY <1>5 DEF FirstJob
  <2>2. x <= elapsed' /\ asked(t, x)' <= x
    BY <1>1, <1>2, <1>3, <2>1
  <2>3. served'[t] > 0
    BY <1>2, <1>4, <1>5
  <2> QED
    BY <1>1, <2>2, <2>3 DEF FirstJob
<1>6. CASE served[t] = 0
  <2>1. left[t] > 0 /\ arrived[t] = 1 /\ due_by[t] = 1 + period(t)
        /\ elapsed = window_work(t, Zeros) + (cost(t) - left[t])
    BY <1>1, <1>6 DEF FirstJob
  <2>2. PICK v \in more_urgent(t) \union {t} :
              /\ left[v] > 0
              /\ \A u \in Tasks : ServedNow(u) <=> u = v
              /\ v = t => \A u \in more_urgent(t) : left[u] = 0
    BY <1>1, <2>1, WhoIsServed
  <2>3. Zeros \in [Tasks -> Nat]
    BY DEF Zeros
  <2>4. window_work(t, Zeros)' = window_work(t, Zeros) + (IF v = t THEN 0 ELSE 1)
    BY <2>2, <2>3, WorkAtService
  <2>5. window_work(t, Zeros) \in Int
    <3>1. Opens(t, 1, Zeros)
      <4> SUFFICES ASSUME NEW j \in more_urgent(t)
                   PROVE  Zeros[j] <= arrived[j] /\ 1 <= phase(j) + Zeros[j] * period(j)
        BY DEF Opens
      <4>1. j \in Periodic(task_set)
        BY PeriodicFacts
      <4>2. j \in Tasks /\ arrived[j] \in Nat /\ period(j) \in Nat /\ phase(j) = 1
        BY <1>1, <4>1, Numbers DEF Together
      <4>3. Zeros[j] = 0
        BY <4>2 DEF Zeros
      <4> QED
        BY <4>2, <4>3
    <3>2. 1 \in Nat \ {0}
      OBVIOUS
    <3> QED
      BY <1>1, <2>3, <3>1, <3>2, WorkIsAsked
  <2>6. CASE v # t \/ left[t] # 1
    <3>1. served'[t] = 0 /\ left'[t] > 0
      BY <1>1, <1>2, <1>4, <1>6, <2>1, <2>2, <2>6
    <3>2. elapsed' = window_work(t, Zeros)' + (cost(t) - left'[t])
      BY <1>1, <1>2, <1>3, <1>4, <2>1, <2>2, <2>4, <2>5
    <3> QED
      BY <1>1, <1>2, <1>4, <2>1, <3>1, <3>2 DEF FirstJob
  <2>7. CASE v = t /\ left[t] = 1
    <3>1. served'[t] = 1
      BY <1>1, <1>4, <1>6, <2>2, <2>7
    <3>2. time = window_work(t, Zeros) + cost(t)
      BY <1>1, <1>2, <1>3, <2>1, <2>5, <2>7
    <3>3. \A j \in more_urgent(t) : left[j] = 0 /\ next_due(j) > time
      <4> SUFFICES ASSUME NEW j \in more_urgent(t) PROVE left[j] = 0 /\ next_due(j) > time
        OBVIOUS
      <4>1. left[j] = 0 /\ j \in Periodic(task_set)
        BY <2>2, <2>7, PeriodicFacts
      <4> QED
        BY <1>1, <4>1 DEF Schedule, Regular, Grid
    <3>4. interference(task_set, t, time) <= window_work(t, Zeros)
      BY <1>1, <3>3, WorkIsReached
    <3>5. asked(t, time) = cost(t) + interference(task_set, t, time)
          /\ interference(task_set, t, time) \in Nat
      BY <1>1, AskedIs
    <3>6. asked(t, time) <= time
      BY <1>1, <1>2, <2>5, <3>2, <3>4, <3>5
    <3>7. \E x \in Nat \ {0} : x <= elapsed' /\ asked(t, x)' <= x
      <4>1. PICK x : x = time
        OBVIOUS
      <4>2. x \in Nat \ {0} /\ x <= elapsed' /\ asked(t, x)' <= x
        BY <1>1, <1>2, <1>3, <3>6, <4>1
      <4> QED
        BY <4>2
    <3> QED
      BY <1>1, <3>1, <3>7 DEF FirstJob
  <2> QED
    BY <2>6, <2>7
<1> QED
  BY <1>2, <1>5, <1>6

\* A first job for which no window up to its deadline is enough is late.
Misses(t) ==
    (\A x \in Nat \ {0} : x <= period(t) => x < asked(t, x)) /\ time > period(t) => late[t] >= 1

LEMMA MissesKept ==
    ASSUME Analysed, Schedule, [PNext]_processorVars, NEW t \in Periodic(task_set),
           FirstJob(t), Misses(t)
    PROVE  Misses(t)'
<1>1. /\ t \in Tasks /\ time \in Nat /\ late[t] \in Nat /\ period(t) \in Nat \ {0}
      /\ served[t] \in Nat
  BY Numbers DEF Schedule
<1>2. setup' = setup
  BY DEF PNext, Arrive, Serve, processorVars
<1>3. period(t)' = period(t) /\ \A r : asked(t, r)' = asked(t, r)
  BY <1>2, SetupStays
<1> SUFFICES ASSUME \A x \in Nat \ {0} : x <= period(t) => x < asked(t, x), time' > period(t)
             PROVE  late'[t] >= 1
  BY <1>3 DEF Misses
<1>4. CASE UNCHANGED processorVars
  BY <1>4 DEF Misses, processorVars
<1>5. CASE Serve
  <2>1. time' = time /\ late' = late
    BY <1>5 DEF Serve
  <2> QED
    BY <2>1 DEF Misses
<1>6. CASE Arrive
  <2>1. /\ turn = "arrive" /\ time' = time + 1
        /\ late'[t] \in {late[t], late[t] + 1}
        /\ late'[t] = late[t] + 1 <=>
             left[t] > 0 /\ due_by[t] # Never /\ due_by[t] = time + 1
    BY <1>6, ArriveEffect DEF Schedule
  <2>2. CASE time > period(t)
    <3>1. late[t] >= 1
      BY <2>2 DEF Misses
    <3> QED
      BY <1>1, <2>1, <3>1
  <2>3. CASE ~(time > period(t))
    <3>1. time = period(t)
      BY <1>1, <2>1, <2>3
    <3>2. served[t] = 0
      <4> SUFFICES ASSUME served[t] > 0 PROVE FALSE
        BY <1>1
      <4>1. PICK x \in Nat \ {0} : x <= elapsed /\ asked(t, x) <= x
        BY DEF FirstJob
      <4>2. x <= period(t)
        BY <2>1, <3>1, <4>1 DEF elapsed
      <4>3. asked(t, x) \in Nat
        BY AskedIs
      <4> QED
        BY <4>1, <4>2, <4>3
    <3>3. left[t] > 0 /\ due_by[t] = 1 + period(t)
      BY <1>1, <3>1, <3>2 DEF FirstJob
    <3>4. due_by[t] # Never
      BY <1>1, <3>3, NeverAssumption
    <3> QED
      BY <1>1, <2>1, <3>1, <3>3, <3>4
  <2> QED
    BY <2>2, <2>3
<1> QED
  BY <1>4, <1>5, <1>6 DEF PNext

\* The response time is reached: the first job ends on that tick and not before,
\* and a task without one is late with it.
ResponseReached(t) ==
    LET R == response_time(task_set, t)
    IN  /\ R # Never /\ served[t] > 0 => R <= elapsed
        /\ R = Never /\ time > period(t) => late[t] >= 1

\* At a multiple of the period the task is where it was at the start.
Repeats(t) ==
    response_time(task_set, t) # Never /\ turn = "arrive" =>
        \A k \in Nat : time = k * period(t) =>
            left[t] = 0 /\ served[t] = k /\ next_due(t) = time + 1

LEMMA PunctualRepeats ==
    ASSUME Analysed, Punctual, Together, NEW t \in Periodic(task_set),
           response_time(task_set, t) # Never, turn = "arrive",
           NEW k \in Nat, time = k * period(t)
    PROVE  left[t] = 0 /\ served[t] = k /\ next_due(t) = time + 1
<1> DEFINE T == period(t)
           a == arrived[t]
<1>1. /\ time \in Nat /\ T \in Nat \ {0} /\ a \in Nat /\ left[t] \in Nat /\ phase(t) = 1
      /\ a * T \in Int /\ k * T \in Int /\ (a - 1) * T \in Int /\ (a + 1) * T = a * T + T
      /\ (a - 1) * T = a * T - T /\ time = k * T
  <2>1. /\ time \in Nat /\ T \in Nat \ {0} /\ a \in Nat /\ left[t] \in Nat /\ phase(t) = 1
    BY Numbers DEF Punctual, Schedule, Together
  <2>4. time = k * T
    OBVIOUS
  <2> HIDE DEF T, a
  <2>2. (a + 1) * T = a * T + T /\ a * T \in Int /\ k * T \in Int
    BY <2>1, OneMore
  <2>3. a * T = (a - 1) * T + T /\ (a - 1) * T \in Int
    <3>1. a - 1 \in Int /\ (a - 1) + 1 = a /\ T \in Int
      BY <2>1
    <3>2. ((a - 1) + 1) * T = (a - 1) * T + T
      BY <3>1, OneMore
    <3> QED
      BY <3>1, <3>2
  <2> QED
    BY <2>1, <2>2, <2>3, <2>4
<1>2. Fits(t, response_time(task_set, t))
  BY ResponseFits
<1>3. OnTime(t) /\ Windowed(t) /\ Grid(t)
  BY <1>2 DEF Punctual, Sound, Schedule, Regular
<1>4. next_due(t) = 1 + a * T
  BY <1>1 DEF next_due
<1>5. a > 0 => (a - 1) * T < k * T
  <2>1. a > 0 => 1 + (a - 1) * T <= time
    BY <1>1, <1>3 DEF Grid
  <2> HIDE DEF T, a
  <2> QED
    BY <1>1, <2>1
<1>6. a > 0 => a <= k
  <2> SUFFICES ASSUME a > 0 PROVE a <= k
    OBVIOUS
  <2> HIDE DEF T, a
  <2>1. a - 1 \in Int /\ k \in Int /\ T \in Nat
    BY <1>1
  <2>2. a - 1 < k
    BY <1>5, <2>1, ProductOrder
  <2> QED
    BY <1>1, <2>2
<1>7. ASSUME left[t] > 0 PROVE FALSE
  <2>1. due_by[t] = 1 + a * T
    BY <1>3, <1>4, <1>7 DEF OnTime
  <2>2. elapsed - begun(t) + 1 < response_time(task_set, t)
        /\ response_time(task_set, t) \in Nat /\ response_time(task_set, t) <= T
    BY <1>2, <1>3, <1>7, ShortWindow DEF Fits, Punctual
  <2>3. begun(t) = 1 + a * T - T /\ elapsed = time
    BY <1>1, <2>1 DEF begun, elapsed
  <2> HIDE DEF T, a
  <2>4. k * T < a * T
    BY <1>1, <2>2, <2>3
  <2>5. k < a
    BY <1>1, <2>4, ProductOrder
  <2> QED
    BY <1>1, <1>6, <2>5
<1>8. left[t] = 0
  BY <1>1, <1>7
<1>9. k <= a
  <2>1. 1 + a * T > time
    BY <1>3, <1>4, <1>8 DEF OnTime
  <2> HIDE DEF T, a
  <2>2. k * T < (a + 1) * T
    BY <1>1, <2>1
  <2>3. k < a + 1
    <3>1. k \in Int /\ a + 1 \in Int /\ T \in Nat
      BY <1>1
    <3> QED
      BY <2>2, <3>1, ProductOrder
  <2> QED
    BY <1>1, <2>3
<1>10. a = k
  <2> HIDE DEF a
  <2> QED
    BY <1>1, <1>6, <1>9
<1>11. served[t] = a
  BY <1>3, <1>8 DEF Grid
<1> QED
  BY <1>1, <1>4, <1>8, <1>10, <1>11

\* The invariant when all are released at tick 1.
Tight == Punctual /\ \A t \in Periodic(task_set) : FirstJob(t) /\ Misses(t)

LEMMA TightInit == PInit /\ Analysed => Tight
<1> SUFFICES ASSUME PInit, Analysed PROVE Tight
  OBVIOUS
<1>1. ASSUME NEW t \in Periodic(task_set) PROVE Misses(t)
  <2>1. time = 0 /\ period(t) \in Nat
    BY PeriodicFacts DEF PInit
  <2> QED
    BY <2>1 DEF Misses
<1> QED
  BY <1>1, PunctualInit, FirstJobInit DEF Tight

LEMMA TightStep ==
    Analysed /\ Together /\ Tight /\ [PNext]_processorVars => Tight' /\ Analysed' /\ Together'
<1> SUFFICES ASSUME Analysed, Together, Tight, [PNext]_processorVars
             PROVE  Tight' /\ Analysed' /\ Together'
  OBVIOUS
<1>1. Punctual' /\ Analysed' /\ Schedule
  BY PunctualStep DEF Tight, Punctual
<1>2. setup' = setup
  BY DEF PNext, Arrive, Serve, processorVars
<1>3. Together'
  BY <1>2, SetupStays DEF Together
<1>4. ASSUME NEW t \in Periodic(task_set) PROVE FirstJob(t)' /\ Misses(t)'
  <2>1. FirstJob(t) /\ Misses(t)
    BY DEF Tight
  <2>2. Misses(t)'
    BY <1>1, <2>1, MissesKept
  <2>3. CASE UNCHANGED processorVars
    <3>1. window_work(t, Zeros)' = window_work(t, Zeros)
      <4>1. done_since(Zeros)' = done_since(Zeros)
        BY <2>3, SetupStays DEF done_since, processorVars, Zeros
      <4> QED
        BY <1>2, <4>1, SetupStays DEF window_work
    <3>2. cost(t)' = cost(t) /\ period(t)' = period(t) /\ \A r : asked(t, r)' = asked(t, r)
      BY <1>2, SetupStays
    <3> QED
      BY <2>1, <2>2, <2>3, <3>1, <3>2 DEF FirstJob, processorVars, elapsed
  <2>4. CASE Arrive
    BY <1>1, <2>1, <2>2, <2>4, FirstJobArrive
  <2>5. CASE Serve
    BY <1>1, <2>1, <2>2, <2>5, FirstJobServe
  <2> QED
    BY <2>3, <2>4, <2>5 DEF PNext
<1> QED
  BY <1>1, <1>2, <1>3, <1>4, SetupStays DEF Tight

LEMMA TightReaches ==
    Analysed /\ Together /\ Tight =>
        \A t \in Periodic(task_set) : ResponseReached(t) /\ Repeats(t)
<1> SUFFICES ASSUME Analysed, Together, Tight, NEW t \in Periodic(task_set)
             PROVE  ResponseReached(t) /\ Repeats(t)
  OBVIOUS
<1> DEFINE R == response_time(task_set, t)
<1>1. /\ R # Never => /\ R \in Nat \ {0}
                      /\ \A r \in Nat : r < R => r < demand(task_set, t, r)
      /\ R = Never => \A r \in Nat : r <= task_set.period[t] => r < demand(task_set, t, r)
  BY ResponseTimeIsLeast DEF Analysed
<1>2. period(t) = task_set.period[t]
  BY PeriodicFacts
<1>3. FirstJob(t) /\ Misses(t) /\ Schedule
  BY DEF Tight, Punctual
<1>4. ASSUME R # Never, served[t] > 0 PROVE R <= elapsed
  <2>1. PICK x \in Nat \ {0} : x <= elapsed /\ asked(t, x) <= x
    BY <1>3, <1>4 DEF FirstJob
  <2>2. asked(t, x) \in Nat
    BY <2>1, AskedIs
  <2>3. elapsed \in Int
    BY <1>3, Numbers DEF elapsed, Schedule
  <2> HIDE DEF R
  <2>4. ~(x < R)
    BY <1>1, <1>4, <2>1, <2>2 DEF asked
  <2> QED
    BY <1>1, <1>4, <2>1, <2>3, <2>4
<1>5. ASSUME R = Never, time > period(t) PROVE late[t] >= 1
  <2>1. \A x \in Nat \ {0} : x <= period(t) => x < asked(t, x)
    BY <1>1, <1>2, <1>5 DEF asked
  <2> QED
    BY <1>3, <1>5, <2>1 DEF Misses
<1>6. Repeats(t)
  BY PunctualRepeats DEF Repeats, Tight
<1> QED
  BY <1>4, <1>5, <1>6 DEF ResponseReached

\* With all released at tick 1 the analysis is exact: what it rejects is late,
\* and the schedule of what it accepts repeats.
THEOREM AnalysisTight ==
    PSpec => [](Analysed /\ Together =>
                    \A t \in Periodic(task_set) : ResponseReached(t) /\ Repeats(t))
<1>1. PInit /\ Analysed => Tight
  BY TightInit
<1>2. Analysed /\ Together /\ Tight /\ [PNext]_processorVars => Tight' /\ Analysed' /\ Together'
  BY TightStep
<1>3. ~(Analysed /\ Together) /\ [PNext]_processorVars => ~(Analysed /\ Together)'
  <2> SUFFICES ASSUME [PNext]_processorVars, Analysed', Together' PROVE Analysed /\ Together
    OBVIOUS
  <2>1. setup' = setup
    BY DEF PNext, Arrive, Serve, processorVars
  <2> QED
    BY <2>1, AnalysedStays, SetupStays DEF Together
<1>4. Analysed /\ Together /\ Tight =>
        \A t \in Periodic(task_set) : ResponseReached(t) /\ Repeats(t)
  BY TightReaches
<1> QED
  BY <1>1, <1>2, <1>3, <1>4, PTL DEF PSpec
=============================================================================
