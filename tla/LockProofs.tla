----------------------------- MODULE LockProofs -----------------------------
(***************************************************************************)
(* Theorems about mutexes and priority inheritance, for every value of the *)
(* constants: critical sections, circles of waiting tasks, the order of    *)
(* locks, the kernel as a lock service, and boosts along chains of any     *)
(* length.                                                                 *)
(***************************************************************************)
EXTENDS WorkProofs, KernelRefinesLocks

-----------------------------------------------------------------------------
(***************************************************************************)
(* How a step moves a task through its program.                            *)
(***************************************************************************)
Unmoved(u) == pc'[u] = pc[u] /\ (job_active[u] => job_active'[u])

Restarted(u) == pc'[u] = 0 /\ ~job_active[u]

Ended(u) ==
    /\ pc'[u] = 0
    /\ \/ AtEnd(u)
       \/ pc[u] + 1 = Len(program(u)) /\ current_op(u)[1] = "Compute"

\* u moved past its operation, with what that means for the mutexes: a task
\* past a Lock owns the mutex, a task past an Unlock does not.
Moved(u) ==
    /\ ~AtEnd(u)
    /\ pc'[u] = pc[u] + 1
    /\ job_active'[u]
    /\ \A m \in Mutexes :
          /\ current_op(u) = <<"Lock", m>> => owner'[m] = u
          /\ current_op(u) = <<"Unlock", m>> => owner'[m] # u

\* u goes on owning what it owned, except the mutex its operation is about.
OwnsAsBefore(u) ==
    \A m \in Mutexes : owner'[m] = u <=> owner[m] = u

OwnsOthersAsBefore(u) ==
    \A m \in Mutexes :
        current_op(u) \notin {<<"Lock", m>>, <<"Unlock", m>>} =>
            (owner'[m] = u <=> owner[m] = u)

MovedWell(u) ==
    \/ (Unmoved(u) \/ Restarted(u) \/ Ended(u)) /\ OwnsAsBefore(u)
    \/ Moved(u) /\ OwnsOthersAsBefore(u)

LEMMA MovedByIsr ==
    ASSUME TypeOK, ServiceInterrupts, NEW u \in Tasks
    PROVE  MovedWell(u)
<1>1. OwnsAsBefore(u)
  BY DEF ServiceInterrupts, syncVars, mutexVars, OwnsAsBefore
<1>2. CASE "Timer" \notin pending
  BY <1>1, <1>2 DEF ServiceInterrupts, jobVars, MovedWell, Unmoved
<1>3. CASE "Timer" \in pending
  <2>1. /\ pc'[u] = IF u \in Due THEN 0 ELSE pc[u]
        /\ job_active'[u] = (u \in Due \/ job_active[u])
        /\ u \in Due => ~job_active[u]
    BY <1>3 DEF ServiceInterrupts, on_tick, Due
  <2> QED
    BY <1>1, <2>1 DEF MovedWell, Unmoved, Restarted
<1> QED
  BY <1>2, <1>3

LEMMA MovedByLocal ==
    ASSUME TypeOK, Agreement, NEW t \in Tasks,
           EndOfProgram(t) \/ Compute(t) \/ Delay(t) \/ Peripheral(t),
           NEW u \in Tasks
    PROVE  MovedWell(u)
<1>1. /\ pc \in [Tasks -> Nat] /\ job_active \in [Tasks -> BOOLEAN]
      /\ Len(program(t)) \in Nat
  <2>1. pc \in [Tasks -> Nat] /\ job_active \in [Tasks -> BOOLEAN]
    BY DEF TypeOK, TaskTypeOK, JobTypeOK
  <2> QED
    BY <2>1, ProgramTyped
<1>2. owner' = owner
  BY DEF EndOfProgram, Compute, Delay, Peripheral, syncVars, mutexVars
<1>3. OwnsAsBefore(u) /\ OwnsOthersAsBefore(u)
  BY <1>2 DEF OwnsAsBefore, OwnsOthersAsBefore
<1>4. CASE u # t
  <2>1. pc'[u] = pc[u] /\ job_active'[u] = job_active[u]
    BY <1>1, <1>4 DEF EndOfProgram, Compute, Delay, Peripheral, complete_job, Advance,
       jobVars, opVars
  <2> QED
    BY <1>3, <2>1 DEF MovedWell, Unmoved
<1>5. CASE u = t /\ EndOfProgram(t)
  <2>1. pc'[t] = 0 /\ AtEnd(t)
    BY <1>1, <1>5 DEF EndOfProgram, complete_job
  <2> QED
    BY <1>3, <1>5, <2>1 DEF MovedWell, Ended
<1>6. CASE u = t /\ (Compute(t) \/ Delay(t) \/ Peripheral(t))
  <2>1. job_active[t] /\ ~AtEnd(t)
    BY <1>6, ActiveTasks DEF Compute, Delay, Peripheral, Executing
  <2>2. current_op(t)[1] \notin {"Lock", "Unlock"}
    BY <1>6 DEF Compute, Delay, Peripheral
  <2>3. \A m \in Mutexes : current_op(t) \notin {<<"Lock", m>>, <<"Unlock", m>>}
    BY <2>2
  <2>4. CASE complete_job(t) /\ Compute(t)
    <3>1. pc'[t] = 0
      BY <1>1, <2>4 DEF complete_job
    <3>2. current_op(t)[1] = "Compute" /\ pc[t] + 1 = Len(program(t))
      <4>1. pc[t] + 1 >= Len(program(t))
        BY <1>1, <2>1, <2>4, <3>1 DEF Compute, Advance, EndQuantum, complete_job, computeVars, jobVars
      <4> QED
        BY <1>1, <2>1, <2>4, <4>1 DEF Compute, AtEnd
    <3> QED
      BY <1>3, <1>6, <3>1, <3>2 DEF MovedWell, Ended
  <2>5. CASE UNCHANGED jobVars /\ (Advance(t) \/ pc' = pc)
    <3>1. job_active'[t]
      BY <2>1, <2>5 DEF jobVars
    <3>2. CASE pc' = pc
      BY <1>3, <1>6, <3>1, <3>2 DEF MovedWell, Unmoved
    <3>3. CASE Advance(t)
      <4>1. pc'[t] = pc[t] + 1
        BY <1>1, <3>3 DEF Advance
      <4> QED
        BY <1>3, <1>6, <2>1, <2>3, <3>1, <4>1 DEF MovedWell, Moved
    <3> QED
      BY <2>5, <3>2, <3>3
  <2> QED
    BY <1>6, <2>4, <2>5 DEF Compute, Delay, Peripheral, opVars
<1> QED
  BY <1>4, <1>5, <1>6

\* The mutexes when t releases m: it passes to next, or is free.
LEMMA MovedByMutex ==
    ASSUME TypeOK, Agreement, BlockedAtItsOperation, NEW t \in Tasks, NEW m \in Mutexes,
           Lock(t, m) \/ BlockOnMutex(t, m) \/ Unlock(t, m),
           NEW u \in Tasks
    PROVE  MovedWell(u)
<1>1. /\ pc \in [Tasks -> Nat] /\ job_active' = job_active /\ job_active[t] /\ ~AtEnd(t)
      /\ owner \in [Mutexes -> Tasks \union {NoTask}] /\ NoTask \notin Tasks
  <2>1. pc \in [Tasks -> Nat] /\ owner \in [Mutexes -> Tasks \union {NoTask}]
    BY DEF TypeOK, TaskTypeOK, MutexTypeOK
  <2>2. job_active[t] /\ ~AtEnd(t)
    BY ActiveTasks DEF Lock, BlockOnMutex, Unlock, Executing
  <2> QED
    BY <2>1, <2>2, TasksAssumption DEF Lock, BlockOnMutex, Unlock, jobVars
<1>2. CASE Lock(t, m)
  <2>1. /\ pc' = [pc EXCEPT ![t] = @ + 1] /\ current_op(t) = <<"Lock", m>>
        /\ owner[m] = NoTask /\ owner' = [owner EXCEPT ![m] = t]
    BY <1>2 DEF Lock, Advance, try_acquire, is_free
  <2>2. \A n \in Mutexes : owner'[n] = IF n = m THEN t ELSE owner[n]
    BY <1>1, <2>1
  <2>3. CASE u = t
    <3>1. \A n \in Mutexes : /\ current_op(t) = <<"Lock", n>> <=> n = m
                             /\ current_op(t) # <<"Unlock", n>>
      BY <2>1
    <3> QED
      BY <1>1, <2>1, <2>2, <2>3, <3>1 DEF MovedWell, Moved, OwnsOthersAsBefore
  <2>4. CASE u # t
    BY <1>1, <2>1, <2>2, <2>4 DEF MovedWell, Unmoved, OwnsAsBefore
  <2> QED
    BY <2>3, <2>4
<1>3. CASE BlockOnMutex(t, m)
  BY <1>1, <1>3 DEF BlockOnMutex, add_waiter, MovedWell, Unmoved, OwnsAsBefore
<1>4. CASE Unlock(t, m)
  <2>1. PICK next \in Tasks \union {NoTask} :
           release(m, t, eff_priority, next) /\ AdvanceBoth(t, next)
    BY <1>4 DEF Unlock
  <2>2. /\ current_op(t) = <<"Unlock", m>>
        /\ \A x \in Tasks : pc'[x] = IF x \in {t, next} THEN pc[x] + 1 ELSE pc[x]
    BY <1>4, <2>1 DEF Unlock, AdvanceBoth
  <2>3. /\ \A n \in Mutexes : owner'[n] = IF n = m /\ owner[m] = t THEN next ELSE owner[n]
        /\ next \in Tasks => owner[m] = t /\ next \in waiters[m]
    BY <1>1, <2>1, BestSubset DEF release, mutexVars
  <2>4. next \in Tasks => blocked_on[next] = <<"Mutex", m>>
    BY <2>3 DEF Agreement, MutexConsistent
  <2>5. next # t
    BY <1>1, <1>4, <2>4, ReasonsDiffer DEF Unlock, Executing, Agreement, SingleRunner
  <2>6. CASE u = t
    <3>1. \A n \in Mutexes : /\ current_op(t) = <<"Unlock", n>> <=> n = m
                             /\ current_op(t) # <<"Lock", n>>
      BY <2>2
    <3> QED
      BY <1>1, <2>2, <2>3, <2>5, <2>6, <3>1 DEF MovedWell, Moved, OwnsOthersAsBefore
  <2>7. CASE u = next
    <3>1. ~AtEnd(next) /\ current_op(next)[1] = "Lock" /\ current_op(next)[2] = m
      <4>1. BlocksFor(next, blocked_on[next])
        BY <2>4, <2>7, ReasonsDiffer DEF BlockedAtItsOperation, BlocksFor
      <4> QED
        BY <2>4, <2>7, <4>1 DEF BlocksFor
    <3>2. \A n \in Mutexes : /\ current_op(next) = <<"Lock", n>> => n = m
                             /\ current_op(next) # <<"Unlock", n>>
      BY <3>1
    <3>3. current_op(next) = <<"Lock", m>>
      <4>1. BlocksFor(next, blocked_on[next])
        BY <2>4, <2>7, ReasonsDiffer DEF BlockedAtItsOperation, BlocksFor
      <4>2. current_op(next) \in Op
        BY <1>1, <2>7, <3>1, CurrentOpTyped DEF TypeOK
      <4> QED
        BY <3>1, <4>2 DEF Op
    <3>4. job_active[next]
      BY <2>4, <2>7, ActiveTasks, ReasonsDiffer
    <3> QED
      BY <1>1, <2>2, <2>3, <2>7, <3>1, <3>2, <3>3, <3>4
      DEF MovedWell, Moved, OwnsOthersAsBefore
  <2>8. CASE u \notin {t, next}
    BY <1>1, <2>2, <2>3, <2>8 DEF MovedWell, Unmoved, OwnsAsBefore
  <2> QED
    BY <2>6, <2>7, <2>8
<1> QED
  BY <1>2, <1>3, <1>4

\* Semaphores and queues move tasks and leave the mutexes alone.
LEMMA MovedByObject ==
    ASSUME TypeOK, Agreement, BlockedAtItsOperation, NEW t \in Tasks,
           \/ \E s \in Semaphores : SemWait(t, s) \/ SemSignal(t, s)
           \/ \E q \in Queues : QueueSend(t, q) \/ QueueRecv(t, q),
           NEW u \in Tasks
    PROVE  MovedWell(u)
<1> DEFINE Kinds == {"SemWait", "SemSignal", "QueueSend", "QueueRecv"}
<1>1. /\ pc \in [Tasks -> Nat] /\ job_active' = job_active /\ job_active[t] /\ ~AtEnd(t)
      /\ owner' = owner
  <2>1. pc \in [Tasks -> Nat]
    BY DEF TypeOK, TaskTypeOK
  <2>2. job_active[t] /\ ~AtEnd(t)
    BY ActiveTasks DEF SemWait, SemSignal, QueueSend, QueueRecv, Executing
  <2> QED
    BY <2>1, <2>2 DEF SemWait, SemSignal, QueueSend, QueueRecv, opVars, jobVars, mutexVars
<1>2. OwnsAsBefore(u) /\ OwnsOthersAsBefore(u)
  BY <1>1 DEF OwnsAsBefore, OwnsOthersAsBefore
<1>3. current_op(t)[1] \in Kinds
  <2>1. ASSUME NEW s \in Semaphores, SemWait(t, s) \/ SemSignal(t, s)
        PROVE  current_op(t)[1] \in {"SemWait", "SemSignal"}
    BY <2>1 DEF SemWait, SemSignal
  <2>2. ASSUME NEW q \in Queues, QueueSend(t, q) \/ QueueRecv(t, q)
        PROVE  current_op(t)[1] \in {"QueueSend", "QueueRecv"}
    <3>1. QueueSend(t, q) => current_op(t)[1] = "QueueSend"
      BY DEF QueueSend
    <3>2. QueueRecv(t, q) => current_op(t)[1] = "QueueRecv"
      BY DEF QueueRecv
    <3> QED
      BY <2>2, <3>1, <3>2
  <2> QED
    BY <2>1, <2>2
<1>4. ASSUME NEW x \in Tasks, pc'[x] = pc[x] + 1, ~AtEnd(x), job_active[x],
             current_op(x)[1] \in Kinds, u = x
      PROVE  MovedWell(u)
  <2>1. \A m \in Mutexes : current_op(x) \notin {<<"Lock", m>>, <<"Unlock", m>>}
    BY <1>4
  <2> QED
    BY <1>1, <1>2, <1>4, <2>1 DEF MovedWell, Moved
<1>5. CASE pc'[u] = pc[u]
  BY <1>1, <1>2, <1>5 DEF MovedWell, Unmoved
<1>6. CASE u = t /\ pc'[t] = pc[t] + 1
  BY <1>1, <1>3, <1>4, <1>6
<1>7. ASSUME NEW s \in Semaphores, NEW woken \in Tasks, signal(s, eff_priority, woken),
             AdvanceBoth(t, woken), u = woken
      PROVE  MovedWell(u)
  <2>1. woken \in sem_waiters[s]
    BY <1>7, BestSubset, TasksAssumption DEF signal
  <2>2. blocked_on[woken] = <<"Semaphore", s>>
    BY <2>1 DEF Agreement, WaitListsConsistent
  <2>3. BlocksFor(woken, blocked_on[woken])
    BY <2>2, ReasonsDiffer DEF BlockedAtItsOperation, BlocksFor
  <2>4. ~AtEnd(woken) /\ current_op(woken)[1] = "SemWait"
    BY <2>2, <2>3 DEF BlocksFor
  <2>5. job_active[woken]
    BY <2>2, ActiveTasks, ReasonsDiffer
  <2>6. pc'[woken] = pc[woken] + 1
    BY <1>7 DEF AdvanceBoth
  <2> QED
    BY <1>4, <1>7, <2>4, <2>5, <2>6
<1>8. ASSUME NEW s \in Semaphores, SemWait(t, s) \/ SemSignal(t, s)
      PROVE  MovedWell(u)
  <2>1. CASE SemWait(t, s)
    BY <1>1, <1>5, <1>6, <2>1 DEF SemWait, Advance
  <2>2. CASE SemSignal(t, s)
    <3>1. PICK woken \in Tasks \union {NoTask} :
             signal(s, eff_priority, woken) /\ AdvanceBoth(t, woken)
      BY <2>2 DEF SemSignal
    <3>2. CASE u = woken
      BY <1>7, <3>1, <3>2
    <3>3. CASE u # woken
      BY <1>1, <1>5, <1>6, <3>1, <3>3 DEF AdvanceBoth
    <3> QED
      BY <3>2, <3>3
  <2> QED
    BY <1>8, <2>1, <2>2
<1>9. ASSUME NEW q \in Queues, QueueSend(t, q) \/ QueueRecv(t, q)
      PROVE  MovedWell(u)
  BY <1>1, <1>5, <1>6, <1>9 DEF QueueSend, QueueRecv, Advance
<1> QED
  BY <1>8, <1>9

LEMMA MovedStep ==
    ASSUME TypeOK, Agreement, BlockedAtItsOperation, [Next]_vars, NEW u \in Tasks
    PROVE  MovedWell(u)
<1>1. CASE UNCHANGED vars \/ Tick \/ Idle \/ Finished \/ \E t \in Tasks : Dispatch(t)
  BY <1>1 DEF Tick, Idle, Finished, Dispatch, vars, jobVars, syncVars, mutexVars, MovedWell,
     Unmoved, OwnsAsBefore
<1>2. CASE ServiceInterrupts
  BY <1>2, MovedByIsr
<1>3. ASSUME NEW t \in Tasks, RunQuantum(t) PROVE MovedWell(u)
  BY <1>3, MovedByLocal, MovedByMutex, MovedByObject DEF RunQuantum
<1> QED
  BY <1>1, <1>2, <1>3 DEF Next

-----------------------------------------------------------------------------
(***************************************************************************)
(* Sections of a program.                                                  *)
(***************************************************************************)
\* One operation further, only the operation passed makes a difference.
LEMMA InsideNext ==
    ASSUME NEW prog, NEW p \in Nat, NEW m
    PROVE  InsideAt(prog, p + 1, m) <=>
             \/ prog[p + 1] = <<"Lock", m>>
             \/ InsideAt(prog, p, m) /\ prog[p + 1] # <<"Unlock", m>>
<1>1. ASSUME prog[p + 1] = <<"Lock", m>> PROVE InsideAt(prog, p + 1, m)
  <2>1. p + 1 \in 1..(p + 1) /\ \A j \in (p + 1)..(p + 1) : j = p + 1
    OBVIOUS
  <2> QED
    BY <1>1, <2>1 DEF InsideAt
<1>2. ASSUME InsideAt(prog, p, m), prog[p + 1] # <<"Unlock", m>>
      PROVE  InsideAt(prog, p + 1, m)
  <2>1. PICK i \in 1..p : prog[i] = <<"Lock", m>> /\ \A j \in i..p : prog[j] # <<"Unlock", m>>
    BY <1>2 DEF InsideAt
  <2>2. i \in 1..(p + 1) /\ \A j \in i..(p + 1) : j \in i..p \/ j = p + 1
    OBVIOUS
  <2> QED
    BY <1>2, <2>1, <2>2 DEF InsideAt
<1>3. ASSUME InsideAt(prog, p + 1, m), prog[p + 1] # <<"Lock", m>>
      PROVE  InsideAt(prog, p, m) /\ prog[p + 1] # <<"Unlock", m>>
  <2>1. PICK i \in 1..(p + 1) :
           prog[i] = <<"Lock", m>> /\ \A j \in i..(p + 1) : prog[j] # <<"Unlock", m>>
    BY <1>3 DEF InsideAt
  <2>2. i # p + 1
    BY <1>3, <2>1
  <2>3. i \in 1..p /\ p + 1 \in i..(p + 1) /\ \A j \in i..p : j \in i..(p + 1)
    BY <2>2
  <2> QED
    BY <2>1, <2>3 DEF InsideAt
<1> QED
  BY <1>1, <1>2, <1>3

\* A program that releases what it takes ends outside its sections.
LEMMA OutsideAtEnd ==
    ASSUME NEW prog \in Seq(Op), LocksInOrder(prog), NEW p \in Nat, NEW m,
           \/ p = Len(prog)
           \/ p + 1 = Len(prog) /\ prog[p + 1][1] = "Compute"
    PROVE  ~InsideAt(prog, p, m)
<1> SUFFICES ASSUME NEW i \in 1..p, prog[i] = <<"Lock", m>>,
                    \A j \in i..p : prog[j] # <<"Unlock", m>>
             PROVE  FALSE
  BY DEF InsideAt
<1>1. i \in 1..Len(prog) /\ prog[i][1] = "Lock" /\ prog[i][2] = m
  OBVIOUS
<1>2. PICK j \in i+1..Len(prog) : prog[j] = <<"Unlock", prog[i][2]>>
  BY <1>1 DEF LocksInOrder
<1>3. prog[j] = <<"Unlock", m>> /\ prog[j][1] = "Unlock"
  BY <1>1, <1>2
<1>4. j # p + 1 \/ p = Len(prog)
  BY <1>3
<1>5. j \in i..p
  BY <1>4
<1> QED
  BY <1>3, <1>5

\* A program that takes mutexes in order takes only greater ones inside a
\* section.
LEMMA GreaterInside ==
    ASSUME NEW prog \in Seq(Op), LocksInOrder(prog), NEW p \in Nat, p < Len(prog),
           NEW k, NEW m, InsideAt(prog, p, k), prog[p + 1] = <<"Lock", m>>
    PROVE  m > k
<1>1. PICK i \in 1..p : prog[i] = <<"Lock", k>> /\ \A j \in i..p : prog[j] # <<"Unlock", k>>
  BY DEF InsideAt
<1>2. i \in 1..Len(prog) /\ prog[i][1] = "Lock" /\ prog[i][2] = k
  BY <1>1
<1>3. PICK j \in i+1..Len(prog) :
         /\ prog[j] = <<"Unlock", prog[i][2]>>
         /\ \A n \in i+1..j-1 : prog[n][1] = "Lock" => prog[n][2] > prog[i][2]
  BY <1>2 DEF LocksInOrder
<1>4. prog[j] = <<"Unlock", k>> /\ prog[j][1] = "Unlock"
  BY <1>2, <1>3
<1>5. prog[p + 1][1] = "Lock" /\ prog[p + 1][2] = m
  OBVIOUS
<1>6. j \notin i..p /\ j # p + 1
  BY <1>1, <1>4, <1>5
<1>7. p + 1 \in i+1..j-1
  BY <1>6
<1> QED
  BY <1>2, <1>3, <1>5, <1>7

-----------------------------------------------------------------------------
(***************************************************************************)
(* Sections and ownership.                                                 *)
(***************************************************************************)
LockOrder == \A t \in Tasks : LocksInOrder(program(t))

\* Where a task stands tells what it owns: it owns the mutexes of the sections
\* it is in, and no others if every program releases what it takes.  A task
\* without a job stands at the start of its program.
StandsWell(u) ==
    /\ pc[u] <= Len(program(u))
    /\ ~job_active[u] => pc[u] = 0

OwnsWell(u, m) ==
    /\ InsideAt(program(u), pc[u], m) => owner[m] = u
    /\ LockOrder /\ owner[m] = u => InsideAt(program(u), pc[u], m)

Sections ==
    /\ \A u \in Tasks : StandsWell(u)
    /\ \A u \in Tasks, m \in Mutexes : OwnsWell(u, m)

LEMMA SectionInit == Init => Sections
<1> SUFFICES ASSUME Init PROVE Sections
  OBVIOUS
<1>1. TypeOK
  BY TypeInit
<1>2. ASSUME NEW u \in Tasks PROVE StandsWell(u)
  BY <1>1, ProgramTyped DEF Init, StandsWell
<1>3. ASSUME NEW u \in Tasks, NEW m \in Mutexes PROVE OwnsWell(u, m)
  <2>1. pc[u] = 0 /\ owner[m] # u
    BY TasksAssumption DEF Init, MutexInit
  <2>2. ~InsideAt(program(u), 0, m)
    BY DEF InsideAt
  <2> QED
    BY <2>1, <2>2 DEF OwnsWell
<1> QED
  BY <1>2, <1>3 DEF Sections

LEMMA SectionStep ==
    TypeOK /\ Agreement /\ BlockedAtItsOperation /\ Sections /\ [Next]_vars => Sections'
<1> SUFFICES ASSUME TypeOK, Agreement, BlockedAtItsOperation, Sections, [Next]_vars
             PROVE  Sections'
  OBVIOUS
<1>1. setup' = setup /\ LockOrder' = LockOrder /\ \A u \in Tasks : program(u)' = program(u)
  BY McuFrame DEF LockOrder, LocksInOrder, program
<1>2. ASSUME NEW u \in Tasks PROVE StandsWell(u)'
  <2>1. /\ Len(program(u)) \in Nat /\ pc[u] \in Nat /\ pc[u] <= Len(program(u))
        /\ ~job_active[u] => pc[u] = 0
    BY ProgramTyped DEF TypeOK, TaskTypeOK, Sections, StandsWell
  <2>2. CASE Unmoved(u)
    BY <1>1, <2>1, <2>2 DEF Unmoved, StandsWell
  <2>3. CASE Restarted(u) \/ Ended(u)
    BY <1>1, <2>1, <2>3 DEF Restarted, Ended, StandsWell
  <2>4. CASE Moved(u)
    BY <1>1, <2>1, <2>4 DEF Moved, AtEnd, StandsWell
  <2> QED
    BY <2>2, <2>3, <2>4, MovedStep DEF MovedWell
<1>3. ASSUME NEW u \in Tasks, NEW m \in Mutexes PROVE OwnsWell(u, m)'
  <2> DEFINE prog == program(u)
             p == pc[u]
  <2>1. prog \in Seq(Op) /\ Len(prog) \in Nat /\ p \in Nat /\ p <= Len(prog)
    BY ProgramTyped DEF TypeOK, TaskTypeOK, Sections, StandsWell
  <2>2. /\ InsideAt(prog, p, m) => owner[m] = u
        /\ LockOrder /\ owner[m] = u => InsideAt(prog, p, m)
    BY DEF Sections, OwnsWell
  <2>3. ~InsideAt(prog, 0, m)
    BY DEF InsideAt
  <2>4. ASSUME NEW n, pc'[u] = n,
               InsideAt(prog, n, m) => owner'[m] = u,
               LockOrder /\ owner'[m] = u => InsideAt(prog, n, m)
        PROVE  OwnsWell(u, m)'
    BY <1>1, <2>4 DEF OwnsWell, InsideAt
  <2>5. ~job_active[u] => p = 0
    BY DEF Sections, StandsWell
  <2>6. CASE Unmoved(u) /\ OwnsAsBefore(u)
    BY <2>2, <2>4, <2>6 DEF Unmoved, OwnsAsBefore
  <2>7. CASE Restarted(u) /\ OwnsAsBefore(u)
    BY <2>2, <2>4, <2>5, <2>7 DEF Restarted, OwnsAsBefore
  <2>8. CASE Ended(u) /\ OwnsAsBefore(u)
    <3>1. LockOrder => ~InsideAt(prog, p, m)
      <4>1. \/ p = Len(prog)
            \/ p + 1 = Len(prog) /\ prog[p + 1][1] = "Compute"
        BY <2>1, <2>8 DEF Ended, AtEnd, current_op
      <4>2. LockOrder => LocksInOrder(prog)
        BY DEF LockOrder
      <4> HIDE DEF prog, p
      <4> QED
        BY <2>1, <4>1, <4>2, OutsideAtEnd
    <3>2. LockOrder => owner'[m] # u
      BY <2>2, <2>8, <3>1 DEF OwnsAsBefore
    <3> QED
      BY <2>3, <2>4, <2>8, <3>2 DEF Ended
  <2>9. CASE Moved(u) /\ OwnsOthersAsBefore(u)
    <3>1. pc'[u] = p + 1 /\ current_op(u) = prog[p + 1]
      BY <2>9 DEF Moved, current_op
    <3>2. /\ prog[p + 1] = <<"Lock", m>> => owner'[m] = u
          /\ prog[p + 1] = <<"Unlock", m>> => owner'[m] # u
          /\ prog[p + 1] \notin {<<"Lock", m>>, <<"Unlock", m>>} =>
               (owner'[m] = u <=> owner[m] = u)
      BY <2>9, <3>1 DEF Moved, OwnsOthersAsBefore
    <3>3. InsideAt(prog, p + 1, m) <=>
            \/ prog[p + 1] = <<"Lock", m>>
            \/ InsideAt(prog, p, m) /\ prog[p + 1] # <<"Unlock", m>>
      BY <2>1, InsideNext
    <3> QED
      BY <2>2, <2>4, <3>1, <3>2, <3>3
  <2> QED
    BY <2>6, <2>7, <2>8, <2>9, MovedStep DEF MovedWell
<1> QED
  BY <1>2, <1>3 DEF Sections

LEMMA SectionInvariant == Spec => []Sections
<1>1. TypeOK /\ Agreement /\ BlockedAtItsOperation /\ Sections /\ [Next]_vars => Sections'
  BY SectionStep
<1> QED
  BY <1>1, SectionInit, TypeCorrect, AgreementCorrect, BlockedInPlace, PTL DEF Spec

\* Two tasks are never inside the section of one mutex, for any programs, also
\* for programs that unlock what they do not own, lock twice or keep a mutex.
THEOREM MutualExclusionHolds == Spec => []MutualExclusion
<1>1. Sections => MutualExclusion
  <2> SUFFICES ASSUME Sections, NEW m \in Mutexes, NEW t \in Tasks, NEW u \in Tasks,
                      Inside(t, m), Inside(u, m)
               PROVE  t = u
    BY DEF MutualExclusion
  <2>1. owner[m] = t /\ owner[m] = u
    BY DEF Sections, OwnsWell, Inside, InsideAt
  <2> QED
    BY <2>1
<1> QED
  BY <1>1, SectionInvariant, PTL

-----------------------------------------------------------------------------
(***************************************************************************)
(* Circles.                                                                *)
(***************************************************************************)

\* Tasks that take mutexes in order wait for mutexes above all they own.
LEMMA WaitsAbove ==
    ASSUME TypeOK, BlockedAtItsOperation, Sections, LockOrder,
           NEW u \in Tasks, NEW m \in Mutexes, NEW k \in Mutexes,
           blocked_on[u] = <<"Mutex", m>>, owner[k] = u
    PROVE  m > k
<1>1. /\ program(u) \in Seq(Op) /\ Len(program(u)) \in Nat /\ pc[u] \in Nat
      /\ pc[u] <= Len(program(u))
  BY ProgramTyped DEF TypeOK, TaskTypeOK, Sections, StandsWell
<1>2. InsideAt(program(u), pc[u], k)
  BY DEF Sections, OwnsWell
<1>3. BlocksFor(u, blocked_on[u])
  BY ReasonsDiffer DEF BlockedAtItsOperation, BlocksFor
<1>4. ~AtEnd(u) /\ current_op(u)[1] = "Lock" /\ current_op(u)[2] = m
  BY <1>3 DEF BlocksFor
<1>5. current_op(u) \in Op
  BY <1>1, <1>4, CurrentOpTyped DEF TypeOK
<1>6. current_op(u) = <<"Lock", m>>
  BY <1>4, <1>5 DEF Op
<1>7. pc[u] < Len(program(u)) /\ program(u)[pc[u] + 1] = <<"Lock", m>>
  BY <1>1, <1>4, <1>6 DEF AtEnd, current_op
<1>8. LocksInOrder(program(u))
  BY DEF LockOrder
<1> QED
  BY <1>1, <1>2, <1>7, <1>8, GreaterInside

\* Down a chain the mutexes waited for grow, so it never comes back.
LEMMA OrderedStep ==
    ASSUME TypeOK, BlockedAtItsOperation, Sections
    PROVE  OrderedLocksNeverDeadlock
<1> SUFFICES ASSUME LockOrder, NEW t \in Tasks, t \in ChainFrom(t) PROVE FALSE
  BY DEF OrderedLocksNeverDeadlock, LockOrder
<1>1. Owners \subseteq Tasks
  BY DEF Owners
<1>2. ASSUME NEW S \in SUBSET Owners,
             \A x \in S \union {t}, y \in Owners : WaitsOn(x, y) => y \in S
      PROVE  t \in S
  BY <1>2 DEF ChainFrom
<1>3. PICK y \in Owners : WaitsOn(t, y)
  <2>1. t \notin {} /\ {} \in SUBSET Owners
    OBVIOUS
  <2> QED
    BY <1>2, <2>1
<1>4. PICK m \in Mutexes : blocked_on[t] = <<"Mutex", m>>
  BY <1>3 DEF WaitsOn
<1> DEFINE S == {o \in Owners : \E k \in Mutexes : owner[k] = o /\ k >= m}
<1>5. ASSUME NEW x \in S \union {t}, NEW z \in Owners, WaitsOn(x, z) PROVE z \in S
  <2>1. PICK n \in Mutexes : blocked_on[x] = <<"Mutex", n>> /\ owner[n] = z
    BY <1>5 DEF WaitsOn
  <2>2. n >= m
    <3>1. m \in Nat /\ n \in Nat
      BY MutexesAssumption
    <3>2. CASE x = t
      BY <1>4, <2>1, <3>1, <3>2, ReasonsDiffer
    <3>3. CASE x \in S
      <4>1. PICK k \in Mutexes : owner[k] = x /\ k >= m
        BY <3>3
      <4>2. n > k
        BY <1>1, <2>1, <3>3, <4>1, WaitsAbove
      <4> QED
        BY <3>1, <4>1, <4>2, MutexesAssumption
    <3> QED
      BY <1>5, <3>2, <3>3
  <2> QED
    BY <2>1, <2>2
<1>6. t \in S
  <2>1. S \in SUBSET Owners
    OBVIOUS
  <2> HIDE DEF S
  <2> QED
    BY <1>2, <1>5, <2>1
<1>7. PICK k \in Mutexes : owner[k] = t /\ k >= m
  BY <1>6
<1>8. m > k
  BY <1>4, <1>7, WaitsAbove
<1> QED
  BY <1>7, <1>8, MutexesAssumption

\* Mutexes taken in one order exclude deadlock, for any number of tasks and
\* mutexes: no task ever waits, directly or through others, for itself.
THEOREM OrderExcludesDeadlock == Spec => []OrderedLocksNeverDeadlock
<1>1. TypeOK /\ BlockedAtItsOperation /\ Sections => OrderedLocksNeverDeadlock
  BY OrderedStep
<1> QED
  BY <1>1, TypeCorrect, BlockedInPlace, SectionInvariant, PTL

\* The state of a task that waits for one which cannot run.
Stuck(t) ==
    /\ blocked_on'[t] = blocked_on[t]
    /\ held_mutexes'[t] = held_mutexes[t]
    /\ pc'[t] = pc[t]

\* Only the owner of the mutex it waits for moves a task.
LEMMA StuckStep ==
    ASSUME TypeOK, Agreement, BlockedAtItsOperation, [Next]_vars,
           NEW t \in Tasks, NEW o \in Tasks, NEW m \in Mutexes,
           blocked_on[t] = <<"Mutex", m>>, owner[m] = o, blocked_on[o] # None
    PROVE  Stuck(t)
<1>1. blocked_on[t] \notin {None, Sleep, WaitPeriod} /\ job_active[t]
  BY ActiveTasks, ReasonsDiffer
<1>2. /\ pc \in [Tasks -> Nat] /\ blocked_on \in [Tasks -> BlockReason]
      /\ held_mutexes \in [Tasks -> SUBSET Mutexes]
  BY DEF TypeOK, TaskTypeOK, PriorityTypeOK
<1>3. ASSUME NEW u \in Tasks, mode = "quantum", running = u PROVE u # t /\ u # o
  BY <1>1, <1>3 DEF Agreement, SingleRunner
<1>4. CASE UNCHANGED vars \/ Tick \/ Idle \/ Finished \/ \E u \in Tasks : Dispatch(u)
  BY <1>4 DEF Tick, Idle, Finished, Dispatch, vars, schedVars, lockVars, Stuck
<1>5. CASE ServiceInterrupts
  <2>1. CASE "Timer" \notin pending
    BY <1>5, <2>1 DEF ServiceInterrupts, lockVars, Stuck
  <2>2. CASE "Timer" \in pending
    <3>1. /\ held_mutexes' = held_mutexes
          /\ blocked_on'[t] = IF t \in Due \union Awake THEN None ELSE blocked_on[t]
          /\ pc'[t] = IF t \in Due THEN 0 ELSE pc[t]
      BY <1>5, <2>2 DEF ServiceInterrupts, on_tick, lockVars
    <3>2. t \notin Due \union Awake
      BY <1>1 DEF Due, Awake
    <3> QED
      BY <3>1, <3>2 DEF Stuck
  <2> QED
    BY <2>1, <2>2
<1>6. ASSUME NEW u \in Tasks,
             EndOfProgram(u) \/ Compute(u) \/ Delay(u) \/ Peripheral(u)
      PROVE  Stuck(t)
  <2>1. u # t
    BY <1>3, <1>6 DEF EndOfProgram, Compute, Delay, Peripheral, Executing
  <2>2. pc'[t] = pc[t]
    BY <1>2, <1>6, <2>1 DEF EndOfProgram, Compute, Delay, Peripheral, complete_job, Advance
  <2>3. blocked_on'[t] = blocked_on[t]
    BY <1>2, <1>6, <2>1 DEF EndOfProgram, Compute, Delay, Peripheral, complete_job, Block,
       Continue, EndQuantum, schedVars
  <2>4. held_mutexes' = held_mutexes
    BY <1>6 DEF EndOfProgram, Compute, Delay, Peripheral, opVars, lockVars
  <2> QED
    BY <2>2, <2>3, <2>4 DEF Stuck
<1>7. ASSUME NEW u \in Tasks, NEW n \in Mutexes, Lock(u, n) \/ BlockOnMutex(u, n)
      PROVE  Stuck(t)
  <2>1. u # t
    BY <1>3, <1>7 DEF Lock, BlockOnMutex, Executing
  <2> QED
    BY <1>2, <1>7, <2>1 DEF Lock, BlockOnMutex, Continue, schedVars, Advance, Block, Stuck
<1>8. ASSUME NEW u \in Tasks, NEW n \in Mutexes, Unlock(u, n) PROVE Stuck(t)
  <2>1. u # t /\ u # o
    BY <1>3, <1>8 DEF Unlock, Executing
  <2>2. PICK next \in Tasks \union {NoTask} :
           /\ release(n, u, eff_priority, next)
           /\ held_mutexes' = [x \in Tasks |->
                 IF x = next THEN held_mutexes[x] \union {n}
                 ELSE IF x = u THEN held_mutexes[x] \ {n}
                 ELSE held_mutexes[x]]
           /\ Wake(next) /\ AdvanceBoth(u, next)
    BY <1>8 DEF Unlock
  <2>3. next # t
    <3>1. next \in Tasks => owner[n] = u /\ next \in waiters[n]
      BY <2>2, BestSubset, TasksAssumption DEF release
    <3>2. t \in waiters[n] => n = m
      BY ReasonsDiffer DEF Agreement, MutexConsistent
    <3> QED
      BY <2>1, <3>1, <3>2
  <2> QED
    BY <2>1, <2>2, <2>3 DEF Wake, AdvanceBoth, Stuck
<1>9. ASSUME NEW u \in Tasks, NEW s \in Semaphores, SemWait(u, s) \/ SemSignal(u, s)
      PROVE  Stuck(t)
  <2>1. u # t /\ held_mutexes' = held_mutexes
    BY <1>3, <1>9 DEF SemWait, SemSignal, Executing, opVars, lockVars
  <2>2. CASE SemWait(u, s)
    BY <1>2, <2>1, <2>2 DEF SemWait, Continue, schedVars, Advance, Block, Stuck
  <2>3. CASE SemSignal(u, s)
    <3>1. PICK woken \in Tasks \union {NoTask} :
             signal(s, eff_priority, woken) /\ Wake(woken) /\ AdvanceBoth(u, woken)
      BY <2>3 DEF SemSignal
    <3>2. woken \in Tasks => blocked_on[woken] = <<"Semaphore", s>>
      BY <3>1, BestSubset, TasksAssumption DEF signal, Agreement, WaitListsConsistent
    <3>3. woken # t
      BY <3>2, ReasonsDiffer
    <3> QED
      BY <2>1, <3>1, <3>3 DEF Wake, AdvanceBoth, Stuck
  <2> QED
    BY <1>9, <2>2, <2>3
<1>10. ASSUME NEW u \in Tasks, NEW q \in Queues, QueueSend(u, q) \/ QueueRecv(u, q)
       PROVE  Stuck(t)
  <2>1. u # t /\ held_mutexes' = held_mutexes
    BY <1>3, <1>10 DEF QueueSend, QueueRecv, Executing, opVars, lockVars
  <2>2. ASSUME NEW w \in Tasks \union {NoTask}, Wake(w), Advance(u),
               w \in Tasks => \E kind \in {"QueueSend", "QueueRecv"} : blocked_on[w] = <<kind, q>>
        PROVE  Stuck(t)
    <3>1. w # t
      BY <2>2, ReasonsDiffer
    <3> QED
      BY <1>2, <2>1, <2>2, <3>1 DEF Wake, Advance, Stuck
  <2>3. ASSUME NEW kind, Block(u, <<kind, q>>), pc' = pc PROVE Stuck(t)
    BY <1>2, <2>1, <2>3 DEF Block, Stuck
  <2>4. CASE QueueSend(u, q)
    <3>1. CASE Block(u, <<"QueueSend", q>>) /\ pc' = pc
      BY <2>3, <3>1
    <3>2. ASSUME NEW r \in Tasks \union {NoTask}, wake_receiver(q, eff_priority, r),
                 Wake(r), Advance(u)
          PROVE  Stuck(t)
      <4>1. r \in Tasks => r \in recv_waiters[q]
        BY <3>2, BestSubset, TasksAssumption DEF wake_receiver, pop_best
      <4>2. r \in Tasks => blocked_on[r] = <<"QueueRecv", q>>
        BY <4>1 DEF Agreement, WaitListsConsistent
      <4> QED
        BY <2>2, <3>2, <4>2
    <3> QED
      BY <2>4, <3>1, <3>2 DEF QueueSend
  <2>5. CASE QueueRecv(u, q)
    <3>1. CASE Block(u, <<"QueueRecv", q>>) /\ pc' = pc
      BY <2>3, <3>1
    <3>2. ASSUME NEW r \in Tasks \union {NoTask}, wake_sender(q, eff_priority, r),
                 Wake(r), Advance(u)
          PROVE  Stuck(t)
      <4>1. r \in Tasks => r \in send_waiters[q]
        BY <3>2, BestSubset, TasksAssumption DEF wake_sender, pop_best
      <4>2. r \in Tasks => blocked_on[r] = <<"QueueSend", q>>
        BY <4>1 DEF Agreement, WaitListsConsistent
      <4> QED
        BY <2>2, <3>2, <4>2
    <3> QED
      BY <2>5, <3>1, <3>2 DEF QueueRecv
  <2> QED
    BY <1>10, <2>4, <2>5
<1> QED
  BY <1>4, <1>5, <1>6, <1>7, <1>8, <1>9, <1>10 DEF Next, RunQuantum

\* A circle of waiting tasks, and whoever waits on it, never moves again and
\* loses nothing, whatever the other tasks and the interrupt do.
THEOREM CirclesStay == Spec => CycleContained
<1>1. ASSUME TypeOK, Agreement, BlockedAtItsOperation, [Next]_vars,
             NEW t \in Tasks, Deadlocked(t)
      PROVE  Stuck(t)
  <2>1. PICK S \in SUBSET Owners : \A x \in S \union {t} : \E y \in S : WaitsOn(x, y)
    BY <1>1 DEF Deadlocked
  <2>2. PICK o \in S : WaitsOn(t, o)
    BY <2>1
  <2>3. PICK m \in Mutexes : blocked_on[t] = <<"Mutex", m>> /\ owner[m] = o
    BY <2>2 DEF WaitsOn
  <2>4. o \in Tasks /\ blocked_on[o] # None
    <3>1. \A n : <<"Mutex", n>> # None
      BY DEF None
    <3> QED
      BY <2>1, <2>2, <3>1 DEF Owners, WaitsOn
  <2> QED
    BY <1>1, <2>3, <2>4, StuckStep
<1>2. TypeOK /\ Agreement /\ BlockedAtItsOperation /\ [Next]_vars =>
        [\A t \in Tasks : Deadlocked(t) =>
            /\ blocked_on'[t] = blocked_on[t]
            /\ held_mutexes'[t] = held_mutexes[t]
            /\ pc'[t] = pc[t]]_vars
  BY <1>1 DEF Stuck
<1> QED
  BY <1>2, TypeCorrect, AgreementCorrect, BlockedInPlace, PTL DEF Spec, CycleContained

-----------------------------------------------------------------------------
(***************************************************************************)
(* The kernel implements the lock service: initial states are initial states *)
(* of the service, and every step is one of its steps or leaves it alone.  *)
(***************************************************************************)

\* The service's actions, in terms of the kernel.
LEMMA MappedActions ==
    ASSUME NEW c \in Tasks, NEW m \in Mutexes
    PROVE  /\ LockServiceOf!Acquire(c, m) <=>
                /\ wanted_mutexes[c] = {}
                /\ \A t \in Tasks : m \notin held_mutexes[t]
                /\ held_mutexes' = [held_mutexes EXCEPT ![c] = @ \union {m}]
                /\ wanted_mutexes' = wanted_mutexes
           /\ LockServiceOf!Request(c, m) <=>
                /\ wanted_mutexes[c] = {}
                /\ ~(\A t \in Tasks : m \notin held_mutexes[t])
                /\ wanted_mutexes' = [wanted_mutexes EXCEPT ![c] = {m}]
                /\ held_mutexes' = held_mutexes
           /\ LockServiceOf!Release(c, m) <=>
                /\ wanted_mutexes[c] = {}
                /\ m \in held_mutexes[c]
                /\ \A t \in Tasks : m \notin wanted_mutexes[t]
                /\ held_mutexes' = [held_mutexes EXCEPT ![c] = @ \ {m}]
                /\ wanted_mutexes' = wanted_mutexes
           /\ \A w \in Tasks : LockServiceOf!HandOver(c, w, m) <=>
                /\ wanted_mutexes[c] = {}
                /\ m \in held_mutexes[c]
                /\ m \in wanted_mutexes[w]
                /\ held_mutexes' = [held_mutexes EXCEPT ![c] = @ \ {m}, ![w] = @ \union {m}]
                /\ wanted_mutexes' = [wanted_mutexes EXCEPT ![w] = {}]
BY DEF LockServiceOf!Acquire, LockServiceOf!Request, LockServiceOf!Release,
   LockServiceOf!HandOver, LockServiceOf!Free, LockServiceOf!Wanted

\* What a task wants is told by the wait lists as well as by its reason.
LEMMA WantedIsListed ==
    ASSUME MutexConsistent
    PROVE  wanted_mutexes = [t \in Tasks |-> {m \in Mutexes : t \in waiters[m]}]
BY DEF MutexConsistent, wanted_mutexes

\* The running task wants nothing.
LEMMA RunnerWantsNothing ==
    ASSUME Agreement, NEW t \in Tasks, Executing(t)
    PROVE  wanted_mutexes[t] = {} /\ blocked_on[t] = None
<1>1. blocked_on[t] = None
  BY DEF Agreement, SingleRunner, Executing
<1> QED
  BY <1>1 DEF wanted_mutexes, None

\* Taking a free mutex is an Acquire.
LEMMA LockAcquires ==
    ASSUME TypeOK, Agreement, NEW t \in Tasks, NEW m \in Mutexes, Lock(t, m)
    PROVE  LockServiceOf!Acquire(t, m)
<1>1. wanted_mutexes[t] = {}
  BY RunnerWantsNothing DEF Lock
<1>2. \A u \in Tasks : m \notin held_mutexes[u]
  BY TasksAssumption DEF Lock, try_acquire, is_free, Agreement, MutexConsistent
<1>3. blocked_on' = blocked_on
  BY DEF Lock, Continue, schedVars
<1>4. wanted_mutexes' = wanted_mutexes
  BY <1>3 DEF wanted_mutexes
<1> QED
  BY <1>1, <1>2, <1>4, MappedActions DEF Lock

\* Blocking on an owned one is a Request.
LEMMA BlockRequests ==
    ASSUME TypeOK, Agreement, NEW t \in Tasks, NEW m \in Mutexes, BlockOnMutex(t, m)
    PROVE  LockServiceOf!Request(t, m)
<1>1. wanted_mutexes[t] = {} /\ blocked_on[t] = None
  BY RunnerWantsNothing DEF BlockOnMutex
<1>2. owner[m] \in Tasks
  BY DEF BlockOnMutex, is_free, TypeOK, MutexTypeOK
<1>3. m \in held_mutexes[owner[m]]
  BY <1>2 DEF Agreement, MutexConsistent
<1>4. blocked_on' = [blocked_on EXCEPT ![t] = <<"Mutex", m>>]
  BY DEF BlockOnMutex, Block
<1>5. wanted_mutexes' = [wanted_mutexes EXCEPT ![t] = {m}]
  <2>1. \A u \in Tasks : blocked_on'[u] = IF u = t THEN <<"Mutex", m>> ELSE blocked_on[u]
    BY <1>4 DEF TypeOK, TaskTypeOK
  <2>2. \A u \in Tasks : {n \in Mutexes : blocked_on'[u] = <<"Mutex", n>>}
                         = IF u = t THEN {m} ELSE wanted_mutexes[u]
    BY <2>1 DEF wanted_mutexes
  <2> QED
    BY <2>2 DEF wanted_mutexes
<1>6. held_mutexes' = held_mutexes
  BY DEF BlockOnMutex
<1> QED
  BY <1>1, <1>2, <1>3, <1>5, <1>6, MappedActions

\* Giving one up is a Release, a HandOver, or, by a task that does not own it,
\* nothing.
LEMMA UnlockReleases ==
    ASSUME TypeOK, Agreement, NEW t \in Tasks, NEW m \in Mutexes, Unlock(t, m)
    PROVE  \/ held_mutexes' = held_mutexes /\ wanted_mutexes' = wanted_mutexes
           \/ LockServiceOf!Release(t, m)
           \/ \E w \in Tasks : LockServiceOf!HandOver(t, w, m)
<1> USE DEF TypeOK, MutexTypeOK, PriorityTypeOK, TaskTypeOK, Agreement
<1>1. PICK next \in Tasks \union {NoTask} :
         /\ release(m, t, eff_priority, next)
         /\ held_mutexes' = [x \in Tasks |->
               IF x = next THEN held_mutexes[x] \union {m}
               ELSE IF x = t THEN held_mutexes[x] \ {m}
               ELSE held_mutexes[x]]
         /\ Wake(next)
  BY DEF Unlock
<1>2. wanted_mutexes[t] = {} /\ blocked_on[t] = None
  BY RunnerWantsNothing DEF Unlock
<1>3. \A u \in Tasks : blocked_on'[u] = IF u = next THEN None ELSE blocked_on[u]
  BY <1>1 DEF Wake
<1>4. CASE next = NoTask
  <2>1. wanted_mutexes' = wanted_mutexes
    BY <1>3, <1>4, TasksAssumption DEF wanted_mutexes
  <2>2. \A u \in Tasks : held_mutexes'[u] = IF u = t THEN held_mutexes[u] \ {m}
                                                     ELSE held_mutexes[u]
    BY <1>1, <1>4, TasksAssumption
  <2>3. CASE owner[m] # t
    <3>1. m \notin held_mutexes[t]
      BY <2>3 DEF MutexConsistent
    <3>2. \A u \in Tasks : held_mutexes'[u] = held_mutexes[u]
      <4>1. held_mutexes[t] \ {m} = held_mutexes[t]
        BY <3>1
      <4> QED
        BY <2>2, <4>1
    <3>3. held_mutexes' \in [Tasks -> SUBSET Mutexes]
      BY <1>1
    <3>4. held_mutexes' = held_mutexes
      BY <3>2, <3>3
    <3> QED
      BY <2>1, <3>4
  <2>4. CASE owner[m] = t
    <3>1. waiters[m] = {}
      BY <1>1, <1>4, <2>4, BestSubset, TasksAssumption DEF release
    <3>2. m \in held_mutexes[t] /\ \A u \in Tasks : m \notin wanted_mutexes[u]
      BY <2>4, <3>1 DEF MutexConsistent, wanted_mutexes
    <3>3. held_mutexes' = [held_mutexes EXCEPT ![t] = @ \ {m}]
      BY <1>1, <1>4, TasksAssumption
    <3> QED
      BY <1>2, <2>1, <3>2, <3>3, MappedActions
  <2> QED
    BY <2>3, <2>4
<1>5. CASE next \in Tasks
  <2>1. owner[m] = t /\ next \in waiters[m]
    BY <1>1, <1>5, BestSubset, TasksAssumption DEF release
  <2>2. m \in held_mutexes[t] /\ blocked_on[next] = <<"Mutex", m>>
    BY <1>5, <2>1 DEF MutexConsistent
  <2>3. next # t
    BY <1>2, <2>2 DEF None
  <2>4. held_mutexes' = [held_mutexes EXCEPT ![t] = @ \ {m}, ![next] = @ \union {m}]
    BY <1>1, <1>5, <2>3
  <2>5. wanted_mutexes' = [wanted_mutexes EXCEPT ![next] = {}]
    <3>1. \A u \in Tasks : {n \in Mutexes : blocked_on'[u] = <<"Mutex", n>>}
                           = IF u = next THEN {} ELSE wanted_mutexes[u]
      BY <1>3 DEF wanted_mutexes, None
    <3> QED
      BY <3>1 DEF wanted_mutexes
  <2>6. m \in wanted_mutexes[next]
    BY <1>5, <2>2 DEF wanted_mutexes
  <2> QED
    BY <1>2, <1>5, <2>2, <2>4, <2>5, <2>6, MappedActions
<1> QED
  BY <1>4, <1>5

LEMMA ServiceInit == Init => LockServiceOf!Init
<1> SUFFICES ASSUME Init PROVE LockServiceOf!Init
  OBVIOUS
<1>1. held_mutexes = [t \in Tasks |-> {}]
  BY DEF Init
<1>2. wanted_mutexes = [t \in Tasks |-> {}]
  BY DEF Init, wanted_mutexes, None
<1> QED
  BY <1>1, <1>2 DEF LockServiceOf!Init

LEMMA ServiceStep ==
    TypeOK /\ Agreement /\ [Next]_vars =>
        [LockServiceOf!Next]_(LockServiceOf!lockServiceVars)
<1> SUFFICES ASSUME TypeOK, Agreement, [Next]_vars
             PROVE  \/ LockServiceOf!Next
                    \/ held_mutexes' = held_mutexes /\ wanted_mutexes' = wanted_mutexes
  BY DEF LockServiceOf!lockServiceVars
<1>1. CASE UNCHANGED <<mutexVars, lockVars>>
  <2>1. MutexConsistent /\ MutexConsistent'
    BY AgreementStep DEF Agreement
  <2>2. wanted_mutexes' = [t \in Tasks |-> {m \in Mutexes : t \in waiters'[m]}]
    BY <2>1 DEF MutexConsistent, wanted_mutexes
  <2> QED
    BY <1>1, <2>1, <2>2, WantedIsListed DEF mutexVars, lockVars
<1>2. ASSUME NEW t \in Tasks, NEW m \in Mutexes,
             Lock(t, m) \/ BlockOnMutex(t, m) \/ Unlock(t, m)
      PROVE  \/ LockServiceOf!Next
             \/ held_mutexes' = held_mutexes /\ wanted_mutexes' = wanted_mutexes
  BY <1>2, LockAcquires, BlockRequests, UnlockReleases DEF LockServiceOf!Next
<1> QED
  BY <1>1, <1>2, MutexFrame

\* The kernel implements the lock service: a task that wants a mutex gets it
\* from its holder or not at all, and no interrupt, job end or preemption takes
\* a mutex away or wakes a task out of the wait for one.
THEOREM LocksImplemented == Spec => ImplementsLockService
<1>1. TypeOK /\ Agreement /\ [Next]_vars =>
        [LockServiceOf!Next]_(LockServiceOf!lockServiceVars)
  BY ServiceStep
<1> QED
  BY <1>1, ServiceInit, TypeCorrect, AgreementCorrect, PTL
     DEF Spec, ImplementsLockService, LockServiceOf!Spec

-----------------------------------------------------------------------------
(***************************************************************************)
(* The invariant, one task at a time.                                      *)
(***************************************************************************)

\* The tasks that wait for a mutex h holds.
WaitersOf(h) == {w \in Tasks : \E m \in held_mutexes[h] : w \in waiters[m]}

\* The priority of h is the greatest of its own and its waiters'.
ExactFor(h) ==
    /\ \/ eff_priority[h] = base_priority(h)
       \/ \E w \in WaitersOf(h) : eff_priority[h] = eff_priority[w]
    /\ eff_priority[h] >= base_priority(h)
    /\ \A w \in WaitersOf(h) : eff_priority[h] >= eff_priority[w]

LEMMA ExactMeans ==
    ASSUME TypeOK
    PROVE  InheritanceExact <=>
             IF setup.priority_inheritance THEN \A h \in Tasks : ExactFor(h)
             ELSE \A h \in Tasks : eff_priority[h] = base_priority(h)
<1>1. ASSUME NEW h \in Tasks
      PROVE  UNION {{eff_priority[w] : w \in waiters[m]} : m \in held_mutexes[h]}
             = {eff_priority[w] : w \in WaitersOf(h)}
  BY DEF TypeOK, MutexTypeOK, PriorityTypeOK, WaitersOf
<1> DEFINE claims(h) ==
             {base_priority(h)} \union
               UNION {{eff_priority[w] : w \in waiters[m]} : m \in held_mutexes[h]}
<1>2. ASSUME NEW h \in Tasks
      PROVE  (eff_priority[h] \in claims(h) /\ \A p \in claims(h) : eff_priority[h] >= p)
               <=> ExactFor(h)
  <2> DEFINE theirs == {eff_priority[w] : w \in WaitersOf(h)}
  <2>1. claims(h) = {base_priority(h)} \union theirs
    BY <1>1
  <2> HIDE DEF claims
  <2>2. eff_priority[h] \in claims(h)
          <=> \/ eff_priority[h] = base_priority(h)
              \/ \E w \in WaitersOf(h) : eff_priority[h] = eff_priority[w]
    BY <2>1
  <2>3. (\A p \in claims(h) : eff_priority[h] >= p)
          <=> /\ eff_priority[h] >= base_priority(h)
              /\ \A w \in WaitersOf(h) : eff_priority[h] >= eff_priority[w]
    BY <2>1
  <2> QED
    BY <2>2, <2>3 DEF ExactFor
<1> QED
  BY <1>2 DEF InheritanceExact

\* Who waits for h is told by the tasks as well as by the mutexes.
LEMMA WaitersAreBlocked ==
    ASSUME TypeOK, MutexConsistent, NEW h \in Tasks, NEW w \in Tasks
    PROVE  w \in WaitersOf(h)
             <=> \E m \in Mutexes : blocked_on[w] = <<"Mutex", m>> /\ owner[m] = h
BY DEF TypeOK, MutexTypeOK, PriorityTypeOK, WaitersOf, MutexConsistent

\* Nobody waits for two tasks.
LEMMA OneOwner ==
    ASSUME TypeOK, MutexConsistent, NEW h \in Tasks, NEW g \in Tasks, NEW w \in Tasks,
           w \in WaitersOf(h), w \in WaitersOf(g)
    PROVE  h = g
BY WaitersAreBlocked, ReasonsDiffer

LEMMA PrioritiesTyped ==
    ASSUME TypeOK
    PROVE  /\ eff_priority \in [Tasks -> Priority]
           /\ \A x \in Tasks : eff_priority[x] \in Int
           /\ \A x \in Tasks : base_priority(x) \in Int /\ base_priority(x) \in Priority
<1>1. eff_priority \in [Tasks -> Priority]
  BY DEF TypeOK, PriorityTypeOK
<1>2. setup.base_priority \in [Tasks -> Priority]
  BY DEF TypeOK, Setup
<1> QED
  BY <1>1, <1>2 DEF Priority, base_priority

-----------------------------------------------------------------------------
(***************************************************************************)
(* Blocking: the boost.                                                    *)
(***************************************************************************)

\* What the least set of boosted owners is like: it is closed, it has nobody
\* who was as urgent as t, and everybody in it is waited for from within.
LEMMA BoostedProperties ==
    ASSUME TypeOK, NEW t \in Tasks
    PROVE  /\ Boosted(t) \subseteq Tasks
           /\ \A x \in Boosted(t) \union {t}, o \in Tasks :
                 WaitsFor(x, o) /\ eff_priority[t] > eff_priority[o] => o \in Boosted(t)
           /\ \A o \in Boosted(t) : eff_priority[t] > eff_priority[o]
           /\ \A o \in Boosted(t) : \E x \in Boosted(t) \union {t} : WaitsFor(x, o)
<1> DEFINE B == Boosted(t)
<1>1. B \subseteq Owners /\ Owners \subseteq Tasks
  BY DEF Boosted, Owners
<1>2. Carries(t, B)
  <2> SUFFICES ASSUME NEW x \in B \union {t}, NEW o \in Tasks, WaitsFor(x, o),
                      eff_priority[t] > eff_priority[o]
               PROVE  o \in B
    BY DEF Carries
  <2>1. ASSUME NEW S \in SUBSET Owners, Carries(t, S) PROVE o \in S
    <3>1. x \in S \union {t}
      BY <2>1 DEF Boosted
    <3> QED
      BY <2>1, <3>1 DEF Carries
  <2>2. o \in Owners
    BY DEF WaitsFor, Owners
  <2> QED
    BY <2>1, <2>2 DEF Boosted
<1>3. ASSUME NEW S \in SUBSET Owners, Carries(t, S) PROVE B \subseteq S
  BY <1>3 DEF Boosted
<1>4. \A o \in B : eff_priority[t] > eff_priority[o]
  <2> DEFINE S == {o \in B : eff_priority[t] > eff_priority[o]}
  <2>1. Carries(t, S)
    BY <1>2 DEF Carries
  <2>2. S \in SUBSET Owners
    BY <1>1
  <2>3. B \subseteq S
    BY <1>3, <2>1, <2>2
  <2> QED
    BY <2>3
<1>5. \A o \in B : \E x \in B \union {t} : WaitsFor(x, o)
  <2> DEFINE S == {o \in B : \E x \in B \union {t} : WaitsFor(x, o)}
  <2>1. Carries(t, S)
    BY <1>2 DEF Carries
  <2>2. S \in SUBSET Owners
    BY <1>1
  <2>3. B \subseteq S
    BY <1>3, <2>1, <2>2
  <2> QED
    BY <2>3
<1> QED
  BY <1>1, <1>2, <1>4, <1>5 DEF Carries

LEMMA ExactAfterBlock ==
    ASSUME TypeOK, Agreement, setup.priority_inheritance,
           \A h \in Tasks : ExactFor(h),
           NEW t \in Tasks, NEW m \in Mutexes, BlockOnMutex(t, m), NEW h \in Tasks
    PROVE  ExactFor(h)'
<1> DEFINE B == Boosted(t)
           p == eff_priority[t]
<1>1. /\ eff_priority \in [Tasks -> Priority]
      /\ \A x \in Tasks : eff_priority[x] \in Int
      /\ \A x \in Tasks : base_priority(x) \in Int
  BY PrioritiesTyped
<1>2. \A x \in Tasks : eff_priority'[x] = IF x \in B THEN p ELSE eff_priority[x]
  BY DEF BlockOnMutex, apply_inheritance
<1>3. base_priority(h)' = base_priority(h)
  BY DEF BlockOnMutex, quantumFrame, base_priority
<1>4. /\ MutexConsistent /\ MutexConsistent' /\ TypeOK'
  <2>1. [Next]_vars
    BY DEF Next, RunQuantum
  <2> QED
    BY <2>1, AgreementStep, TypeStep DEF Agreement
<1>5. \A x, o \in Tasks : WaitsFor(x, o) <=> x \in WaitersOf(o)'
  <2>1. owner' = owner
    BY DEF BlockOnMutex, add_waiter
  <2>2. ASSUME NEW x \in Tasks, NEW o \in Tasks
        PROVE  x \in WaitersOf(o)'
                 <=> \E n \in Mutexes : blocked_on'[x] = <<"Mutex", n>> /\ owner'[n] = o
    BY <1>4 DEF TypeOK, MutexTypeOK, PriorityTypeOK, WaitersOf, MutexConsistent
  <2> QED
    BY <2>1, <2>2 DEF WaitsFor
<1>6. \A w \in Tasks : w \in WaitersOf(h)' <=> w \in WaitersOf(h) \/ (w = t /\ WaitsFor(t, h))
  <2>1. /\ held_mutexes' = held_mutexes
        /\ waiters' = [waiters EXCEPT ![m] = @ \union {t}]
    BY DEF BlockOnMutex, add_waiter
  <2>2. \A w \in Tasks \ {t} : w \in WaitersOf(h)' <=> w \in WaitersOf(h)
    BY <2>1 DEF WaitersOf, TypeOK, MutexTypeOK, PriorityTypeOK
  <2>3. t \notin WaitersOf(h)
    <3>1. blocked_on[t] = None
      BY DEF BlockOnMutex, Executing, Agreement, SingleRunner
    <3> QED
      BY <1>4, <3>1, WaitersAreBlocked, ReasonsDiffer
  <2> QED
    BY <1>5, <2>2, <2>3
<1>7. /\ t \notin B /\ B \subseteq Tasks
      /\ \A x \in B \union {t} : WaitsFor(x, h) /\ p > eff_priority[h] => h \in B
      /\ h \in B => p > eff_priority[h] /\ \E x \in B \union {t} : WaitsFor(x, h)
  BY <1>1, BoostedProperties
<1>8. ExactFor(h)
  OBVIOUS
<1>9. CASE h \in B
  <2>1. eff_priority'[h] = p /\ p > eff_priority[h]
    BY <1>2, <1>7, <1>9
  <2>2. \E w \in WaitersOf(h)' : eff_priority'[w] = p
    BY <1>2, <1>5, <1>7, <1>9
  <2>3. \A w \in WaitersOf(h)' : p >= eff_priority'[w]
    <3>1. ASSUME NEW w \in WaitersOf(h)' PROVE p >= eff_priority'[w]
      <4>1. w \in Tasks
        BY DEF WaitersOf
      <4>2. CASE w \in WaitersOf(h)
        <5>1. eff_priority[h] >= eff_priority[w]
          BY <1>8, <4>2 DEF ExactFor
        <5> QED
          BY <1>1, <1>2, <2>1, <4>1, <5>1
      <4>3. CASE w = t
        BY <1>1, <1>2, <1>7, <4>3
      <4> QED
        BY <1>6, <4>1, <4>2, <4>3
    <3> QED
      BY <3>1
  <2>4. p >= base_priority(h)
    BY <1>1, <1>8, <2>1 DEF ExactFor
  <2> QED
    BY <1>3, <2>1, <2>2, <2>3, <2>4 DEF ExactFor
<1>10. CASE h \notin B
  <2>1. eff_priority'[h] = eff_priority[h]
    BY <1>2, <1>10
  <2>2. \A w \in WaitersOf(h)' : eff_priority[h] >= eff_priority'[w]
    <3>1. ASSUME NEW w \in WaitersOf(h)' PROVE eff_priority[h] >= eff_priority'[w]
      <4>1. w \in Tasks /\ WaitsFor(w, h)
        BY <1>5 DEF WaitersOf
      <4>2. CASE w \in B \union {t}
        <5>1. eff_priority'[w] = p
          BY <1>2, <1>7, <4>1, <4>2
        <5>2. ~(p > eff_priority[h])
          BY <1>7, <1>10, <4>1, <4>2
        <5> QED
          BY <1>1, <5>1, <5>2
      <4>3. CASE w \notin B \union {t}
        <5>1. w \in WaitersOf(h) /\ eff_priority'[w] = eff_priority[w]
          BY <1>2, <1>6, <4>1, <4>3
        <5> QED
          BY <1>8, <5>1 DEF ExactFor
      <4> QED
        BY <4>2, <4>3
    <3> QED
      BY <3>1
  <2>3. \/ eff_priority[h] = base_priority(h)
        \/ \E w \in WaitersOf(h)' : eff_priority[h] = eff_priority'[w]
    <3>1. ASSUME NEW w \in WaitersOf(h), eff_priority[h] = eff_priority[w]
          PROVE  w \in WaitersOf(h)' /\ eff_priority'[w] = eff_priority[w]
      <4>1. w \in Tasks /\ w \in WaitersOf(h)'
        BY <1>6 DEF WaitersOf
      <4>2. w \in B => p > eff_priority[w]
        BY BoostedProperties
      <4>3. w \notin B
        BY <1>5, <1>7, <1>10, <3>1, <4>1, <4>2
      <4> QED
        BY <1>2, <4>1, <4>3
    <3> QED
      BY <1>8, <3>1 DEF ExactFor
  <2> QED
    BY <1>3, <1>8, <2>1, <2>2, <2>3 DEF ExactFor
<1> QED
  BY <1>9, <1>10

-----------------------------------------------------------------------------
(***************************************************************************)
(* Releasing: the recomputation.                                           *)
(***************************************************************************)

\* A priority recomputed from the waiters left is exact, if theirs stay.
LEMMA ExactWhenRecomputed ==
    ASSUME NEW h \in Tasks, NEW eff, NEW p,
           p \in recompute_holder(h, held_mutexes'[h], eff),
           eff_priority'[h] = p,
           base_priority(h)' = base_priority(h),
           \A w \in WaitersOf(h)' : eff_priority'[w] = eff[w]
    PROVE  ExactFor(h)'
<1>1. WaitersOf(h)' = {x \in Tasks : \E m \in held_mutexes'[h] : x \in waiters'[m]}
  BY DEF WaitersOf
<1> DEFINE theirs == {eff[w] : w \in WaitersOf(h)'}
<1>2. /\ p \in {base_priority(h)} \union theirs
      /\ \A c \in {base_priority(h)} \union theirs : p >= c
  BY <1>1 DEF recompute_holder, Claims
<1>3. p = base_priority(h) \/ \E w \in WaitersOf(h)' : p = eff[w]
  BY <1>2
<1>4. p >= base_priority(h) /\ \A w \in WaitersOf(h)' : p >= eff[w]
  BY <1>2
<1> QED
  BY <1>3, <1>4 DEF ExactFor

\* A priority stays exact when it and the waiters stay.
LEMMA ExactWhenKept ==
    ASSUME NEW h \in Tasks, ExactFor(h),
           eff_priority'[h] = eff_priority[h],
           base_priority(h)' = base_priority(h),
           WaitersOf(h)' = WaitersOf(h),
           \A w \in WaitersOf(h) : eff_priority'[w] = eff_priority[w]
    PROVE  ExactFor(h)'
BY DEF ExactFor

\* An Unlock of m by t, which hands it to next or to nobody: what is left of
\* the wait lists, and where the priorities come from.
Unlocks(t, m, next) ==
    /\ release(m, t, eff_priority, next)
    /\ held_mutexes' = [x \in Tasks |->
          IF x = next THEN held_mutexes[x] \union {m}
          ELSE IF x = t THEN held_mutexes[x] \ {m}
          ELSE held_mutexes[x]]
    /\ Wake(next)
    /\ setup.priority_inheritance => Restore(t, next)

LEMMA UnlockFacts ==
    ASSUME TypeOK, Agreement, NEW t \in Tasks, NEW m \in Mutexes, Unlock(t, m),
           NEW next \in Tasks \union {NoTask}, Unlocks(t, m, next)
    PROVE  /\ next # t
           /\ next \in Tasks => /\ owner[m] = t
                               /\ next \in Best(waiters[m], eff_priority)
           /\ \A h \in Tasks : t \notin WaitersOf(h)' /\ next \notin WaitersOf(h)'
           /\ \A h \in Tasks \ {t, next} : WaitersOf(h)' = WaitersOf(h)
           /\ WaitersOf(t)' \subseteq WaitersOf(t)
           /\ next \in Tasks => WaitersOf(next)' \subseteq WaitersOf(next) \union waiters[m]
<1> USE DEF Unlocks
<1>1. blocked_on[t] = None
  BY DEF Unlock, Executing, Agreement, SingleRunner
<1>2. next \in Tasks => owner[m] = t /\ next \in Best(waiters[m], eff_priority)
  BY TasksAssumption DEF release
<1>3. next \in Tasks => blocked_on[next] = <<"Mutex", m>>
  BY <1>2, BestSubset DEF Agreement, MutexConsistent
<1>4. next # t
  BY <1>1, <1>3, ReasonsDiffer, TasksAssumption
<1>5. MutexConsistent /\ MutexConsistent' /\ TypeOK'
  <2>1. [Next]_vars
    BY DEF Next, RunQuantum
  <2> QED
    BY <2>1, AgreementStep, TypeStep DEF Agreement
<1>6. blocked_on'[t] = None /\ (next \in Tasks => blocked_on'[next] = None)
  BY <1>1 DEF Wake
<1>7. \A h, w \in Tasks : w \in WaitersOf(h)' => blocked_on'[w] # None
  <2>1. ASSUME NEW h \in Tasks, NEW w \in Tasks, w \in WaitersOf(h)'
        PROVE  \E n \in Mutexes : blocked_on'[w] = <<"Mutex", n>>
    BY <1>5, <2>1 DEF TypeOK, MutexTypeOK, PriorityTypeOK, WaitersOf, MutexConsistent
  <2>2. \A n : <<"Mutex", n>> # None
    BY DEF None
  <2> QED
    BY <2>1, <2>2
<1>8. \A h \in Tasks : t \notin WaitersOf(h)' /\ next \notin WaitersOf(h)'
  BY <1>6, <1>7 DEF WaitersOf
<1>9. /\ \A n \in Mutexes : waiters'[n] \subseteq waiters[n]
      /\ \A n \in Mutexes \ {m} : waiters'[n] = waiters[n]
      /\ owner[m] # t => waiters' = waiters
  BY DEF release, mutexVars, TypeOK, MutexTypeOK
<1>10. \A h \in Tasks \ {t, next} : WaitersOf(h)' = WaitersOf(h)
  <2> SUFFICES ASSUME NEW h \in Tasks \ {t, next} PROVE WaitersOf(h)' = WaitersOf(h)
    OBVIOUS
  <2>1. held_mutexes'[h] = held_mutexes[h] /\ held_mutexes[h] \subseteq Mutexes
    BY DEF TypeOK, PriorityTypeOK
  <2>2. owner[m] = t => m \notin held_mutexes[h]
    BY <1>5 DEF MutexConsistent
  <2>3. \A n \in held_mutexes[h] : waiters'[n] = waiters[n]
    BY <1>9, <2>1, <2>2
  <2> QED
    BY <2>1, <2>3 DEF WaitersOf
<1>11. WaitersOf(t)' \subseteq WaitersOf(t)
  <2>1. held_mutexes'[t] \subseteq held_mutexes[t] /\ held_mutexes[t] \subseteq Mutexes
    BY <1>4 DEF TypeOK, PriorityTypeOK
  <2> QED
    BY <1>9, <2>1 DEF WaitersOf
<1>12. next \in Tasks => WaitersOf(next)' \subseteq WaitersOf(next) \union waiters[m]
  <2> SUFFICES ASSUME next \in Tasks
               PROVE  WaitersOf(next)' \subseteq WaitersOf(next) \union waiters[m]
    OBVIOUS
  <2>1. held_mutexes'[next] = held_mutexes[next] \union {m}
    OBVIOUS
  <2>2. held_mutexes[next] \subseteq Mutexes
    BY DEF TypeOK, PriorityTypeOK
  <2> QED
    BY <1>9, <2>1, <2>2 DEF WaitersOf
<1> QED
  BY <1>2, <1>4, <1>8, <1>10, <1>11, <1>12

\* The two recomputations of a release.
LEMMA RestoreFacts ==
    ASSUME TypeOK, NEW t \in Tasks, NEW next \in Tasks \union {NoTask}, next # t,
           Restore(t, next)
    PROVE  /\ eff_priority'[t] \in recompute_holder(t, held_mutexes'[t], eff_priority)
           /\ next \in Tasks => \E eff :
                /\ eff_priority'[next] \in recompute_holder(next, held_mutexes'[next], eff)
                /\ \A x \in Tasks \ {t} : eff[x] = eff_priority[x]
           /\ \A x \in Tasks \ {t, next} : eff_priority'[x] = eff_priority[x]
<1>1. eff_priority \in [Tasks -> Priority]
  BY PrioritiesTyped
<1>2. PICK p \in recompute_holder(t, held_mutexes'[t], eff_priority) :
         IF next = NoTask
         THEN eff_priority' = [eff_priority EXCEPT ![t] = p]
         ELSE \E r \in recompute_holder(next, held_mutexes'[next],
                                        [eff_priority EXCEPT ![t] = p]) :
                eff_priority' = [[eff_priority EXCEPT ![t] = p] EXCEPT ![next] = r]
  BY DEF Restore
<1>3. CASE next = NoTask
  BY <1>1, <1>2, <1>3, TasksAssumption
<1>4. CASE next \in Tasks
  <2> DEFINE eff == [eff_priority EXCEPT ![t] = p]
  <2>1. PICK r \in recompute_holder(next, held_mutexes'[next], eff) :
           eff_priority' = [eff EXCEPT ![next] = r]
    BY <1>2, <1>4, TasksAssumption
  <2>2. \A x \in Tasks \ {t} : eff[x] = eff_priority[x]
    BY <1>1
  <2>3. eff_priority'[t] = p /\ eff_priority'[next] = r
    BY <1>1, <1>4, <2>1
  <2>4. \A x \in Tasks \ {t, next} : eff_priority'[x] = eff_priority[x]
    BY <1>1, <2>1
  <2> HIDE DEF eff
  <2> QED
    BY <1>2, <2>1, <2>2, <2>3, <2>4
<1> QED
  BY <1>3, <1>4

LEMMA ExactAfterUnlock ==
    ASSUME TypeOK, Agreement, setup.priority_inheritance,
           \A h \in Tasks : ExactFor(h),
           NEW t \in Tasks, NEW m \in Mutexes, Unlock(t, m), NEW h \in Tasks
    PROVE  ExactFor(h)'
<1>1. PICK next \in Tasks \union {NoTask} : Unlocks(t, m, next)
  BY DEF Unlock, Unlocks
<1>2. /\ next # t
      /\ \A x \in Tasks : t \notin WaitersOf(x)' /\ next \notin WaitersOf(x)'
      /\ \A x \in Tasks \ {t, next} : WaitersOf(x)' = WaitersOf(x)
  BY <1>1, UnlockFacts
<1>3. /\ eff_priority'[t] \in recompute_holder(t, held_mutexes'[t], eff_priority)
      /\ next \in Tasks => \E eff :
           /\ eff_priority'[next] \in recompute_holder(next, held_mutexes'[next], eff)
           /\ \A x \in Tasks \ {t} : eff[x] = eff_priority[x]
      /\ \A x \in Tasks \ {t, next} : eff_priority'[x] = eff_priority[x]
  BY <1>1, <1>2, RestoreFacts DEF Unlocks
<1>4. base_priority(h)' = base_priority(h)
  BY DEF Unlock, quantumFrame, base_priority
<1>5. \A x \in Tasks : \A w \in WaitersOf(x)' : w \in Tasks \ {t, next}
  BY <1>2 DEF WaitersOf
<1>6. CASE h = t
  BY <1>3, <1>4, <1>5, <1>6, ExactWhenRecomputed
<1>7. CASE h = next
  <2>1. PICK eff :
           /\ eff_priority'[next] \in recompute_holder(next, held_mutexes'[next], eff)
           /\ \A x \in Tasks \ {t} : eff[x] = eff_priority[x]
    BY <1>3, <1>7
  <2>2. \A w \in WaitersOf(h)' : eff_priority'[w] = eff[w]
    BY <1>3, <1>5, <2>1
  <2> QED
    BY <1>4, <1>7, <2>1, <2>2, ExactWhenRecomputed
<1>8. CASE h \notin {t, next}
  <2>1. WaitersOf(h)' = WaitersOf(h) /\ eff_priority'[h] = eff_priority[h]
    BY <1>2, <1>3, <1>8
  <2>2. \A w \in WaitersOf(h) : eff_priority'[w] = eff_priority[w]
    BY <1>3, <1>5, <2>1
  <2> QED
    BY <1>4, <2>1, <2>2, ExactWhenKept
<1> QED
  BY <1>6, <1>7, <1>8

\* Nobody waits for the mutex that a Lock takes.
LEMMA ExactAfterLock ==
    ASSUME TypeOK, Agreement, \A h \in Tasks : ExactFor(h),
           NEW t \in Tasks, NEW m \in Mutexes, Lock(t, m), NEW h \in Tasks
    PROVE  ExactFor(h)'
<1>1. waiters[m] = {} /\ waiters' = waiters
  BY DEF Lock, try_acquire, Agreement, MutexConsistent
<1>2. held_mutexes'[h] = IF h = t THEN held_mutexes[h] \union {m} ELSE held_mutexes[h]
  BY DEF Lock, TypeOK, PriorityTypeOK
<1>3. WaitersOf(h)' = WaitersOf(h)
  BY <1>1, <1>2 DEF WaitersOf
<1>4. eff_priority' = eff_priority /\ base_priority(h)' = base_priority(h)
  BY DEF Lock, quantumFrame, base_priority
<1> QED
  BY <1>3, <1>4, ExactWhenKept

-----------------------------------------------------------------------------
(***************************************************************************)
(* The invariant.                                                          *)
(***************************************************************************)
InheritanceHolds ==
    IF setup.priority_inheritance THEN \A h \in Tasks : ExactFor(h)
    ELSE \A h \in Tasks : eff_priority[h] = base_priority(h)

LEMMA InheritanceInit == Init => InheritanceHolds
<1> SUFFICES ASSUME Init PROVE InheritanceHolds
  OBVIOUS
<1>1. TypeOK
  BY TypeInit
<1>2. \A h \in Tasks : WaitersOf(h) = {}
  BY DEF Init, WaitersOf
<1>3. \A h \in Tasks : eff_priority[h] = base_priority(h) /\ base_priority(h) \in Int
  BY <1>1, PrioritiesTyped DEF Init
<1> QED
  BY <1>2, <1>3 DEF InheritanceHolds, ExactFor

LEMMA InheritanceStep ==
    TypeOK /\ Agreement /\ InheritanceHolds /\ [Next]_vars => InheritanceHolds'
<1> SUFFICES ASSUME TypeOK, Agreement, InheritanceHolds, [Next]_vars PROVE InheritanceHolds'
  OBVIOUS
<1>1. setup' = setup /\ \A h \in Tasks : base_priority(h)' = base_priority(h)
  BY McuFrame DEF base_priority
<1>2. CASE setup.priority_inheritance
  <2>1. \A h \in Tasks : ExactFor(h)
    BY <1>2 DEF InheritanceHolds
  <2>2. CASE UNCHANGED <<mutexVars, lockVars>>
    <3>1. \A h \in Tasks : WaitersOf(h)' = WaitersOf(h) /\ eff_priority'[h] = eff_priority[h]
      BY <2>2 DEF mutexVars, lockVars, WaitersOf
    <3>2. \A h \in Tasks : ExactFor(h)'
      BY <1>1, <2>1, <2>2, <3>1, ExactWhenKept DEF lockVars
    <3> QED
      BY <1>1, <1>2, <3>2 DEF InheritanceHolds
  <2>3. ASSUME NEW t \in Tasks, NEW m \in Mutexes,
               Lock(t, m) \/ BlockOnMutex(t, m) \/ Unlock(t, m)
        PROVE  InheritanceHolds'
    <3>1. \A h \in Tasks : ExactFor(h)'
      BY <1>2, <2>1, <2>3, ExactAfterLock, ExactAfterBlock, ExactAfterUnlock
    <3> QED
      BY <1>1, <1>2, <3>1 DEF InheritanceHolds
  <2> QED
    BY <2>2, <2>3, MutexFrame
<1>3. CASE ~setup.priority_inheritance
  <2>1. eff_priority' = eff_priority
    BY <1>3, MutexFrame DEF lockVars, Lock, BlockOnMutex, Unlock
  <2> QED
    BY <1>1, <1>3, <2>1 DEF InheritanceHolds
<1> QED
  BY <1>2, <1>3

LEMMA InheritanceInvariant == Spec => []InheritanceHolds
<1>1. TypeOK /\ Agreement /\ InheritanceHolds /\ [Next]_vars => InheritanceHolds'
  BY InheritanceStep
<1> QED
  BY <1>1, InheritanceInit, TypeCorrect, AgreementCorrect, PTL DEF Spec

\* With inheritance on, every task has exactly the priority of the most urgent
\* task that waits for it directly, or its own if that is greater, hence of the
\* most urgent one anywhere behind it: no boost is missing and none outlives
\* its reason, for chains of any length and also on circles.
THEOREM InheritanceCorrect == Spec => []InheritanceExact
<1>1. TypeOK /\ InheritanceHolds => InheritanceExact
  BY ExactMeans DEF InheritanceHolds
<1> QED
  BY <1>1, TypeCorrect, InheritanceInvariant, PTL

-----------------------------------------------------------------------------
(***************************************************************************)
(* What follows from exactness.                                            *)
(***************************************************************************)

\* A recomputed priority is below a bound that the claims are below.
LEMMA RecomputedBelow ==
    ASSUME NEW h \in Tasks, NEW eff, NEW bound,
           NEW p \in recompute_holder(h, held_mutexes'[h], eff),
           bound >= base_priority(h), \A w \in WaitersOf(h)' : bound >= eff[w]
    PROVE  bound >= p
<1>1. WaitersOf(h)' = {x \in Tasks : \E m \in held_mutexes'[h] : x \in waiters'[m]}
  BY DEF WaitersOf
<1>2. p = base_priority(h) \/ \E w \in WaitersOf(h)' : p = eff[w]
  BY <1>1 DEF recompute_holder, Claims
<1> QED
  BY <1>2

\* An Unlock raises neither the task that releases nor the one that takes over.
LEMMA UnlockRaisesNobody ==
    ASSUME TypeOK, Agreement, setup.priority_inheritance,
           \A h \in Tasks : ExactFor(h),
           NEW t \in Tasks, NEW m \in Mutexes, Unlock(t, m), NEW x \in Tasks
    PROVE  eff_priority[x] >= eff_priority'[x]
<1>1. PICK next \in Tasks \union {NoTask} : Unlocks(t, m, next)
  BY DEF Unlock, Unlocks
<1>2. /\ next # t
      /\ next \in Tasks => next \in Best(waiters[m], eff_priority)
      /\ WaitersOf(t)' \subseteq WaitersOf(t)
      /\ next \in Tasks => /\ t \notin WaitersOf(next)'
                          /\ WaitersOf(next)' \subseteq WaitersOf(next) \union waiters[m]
  BY <1>1, UnlockFacts
<1>3. /\ eff_priority'[t] \in recompute_holder(t, held_mutexes'[t], eff_priority)
      /\ next \in Tasks => \E eff :
           /\ eff_priority'[next] \in recompute_holder(next, held_mutexes'[next], eff)
           /\ \A y \in Tasks \ {t} : eff[y] = eff_priority[y]
      /\ \A y \in Tasks \ {t, next} : eff_priority'[y] = eff_priority[y]
  BY <1>1, <1>2, RestoreFacts DEF Unlocks
<1>4. \A y \in Tasks : eff_priority[y] \in Int
  BY PrioritiesTyped
<1>5. CASE x = t
  <2>1. eff_priority[t] >= base_priority(t) /\ \A w \in WaitersOf(t)' : eff_priority[t] >= eff_priority[w]
    BY <1>2 DEF ExactFor
  <2> QED
    BY <1>3, <1>5, <2>1, RecomputedBelow
<1>6. CASE x = next
  <2>1. PICK eff :
           /\ eff_priority'[next] \in recompute_holder(next, held_mutexes'[next], eff)
           /\ \A y \in Tasks \ {t} : eff[y] = eff_priority[y]
    BY <1>3, <1>6
  <2>2. \A w \in WaitersOf(next) : eff_priority[next] >= eff_priority[w]
    BY <1>6 DEF ExactFor
  <2>3. \A w \in waiters[m] : eff_priority[next] >= eff_priority[w]
    <3>1. waiters[m] \subseteq Tasks
      BY DEF TypeOK, MutexTypeOK
    <3> QED
      BY <1>2, <1>4, <1>6, <3>1 DEF Best
  <2>4. \A w \in WaitersOf(next)' : eff_priority[next] >= eff[w]
    <3>1. \A w \in WaitersOf(next)' : w \in Tasks \ {t}
      BY <1>2, <1>6 DEF WaitersOf
    <3> QED
      BY <1>2, <1>6, <2>1, <2>2, <2>3, <3>1
  <2>5. eff_priority[next] >= base_priority(next)
    BY <1>6 DEF ExactFor
  <2> QED
    BY <1>6, <2>1, <2>4, <2>5, RecomputedBelow
<1>7. CASE x \notin {t, next}
  BY <1>3, <1>4, <1>7
<1> QED
  BY <1>5, <1>6, <1>7

\* Only a task that blocks on a mutex raises a priority.
RiseBlocks ==
    \A t \in Tasks : eff_priority'[t] > eff_priority[t] =>
        \E x \in Tasks, m \in Mutexes :
            blocked_on[x] = None /\ blocked_on'[x] = <<"Mutex", m>>

LEMMA RiseStep ==
    ASSUME TypeOK, Agreement, InheritanceHolds, [Next]_vars
    PROVE  RiseBlocks
<1>1. TypeOK'
  BY TypeStep
<1>2. \A t \in Tasks : eff_priority[t] \in Int /\ eff_priority'[t] \in Int
  BY <1>1 DEF TypeOK, PriorityTypeOK, Priority
<1>3. CASE eff_priority' = eff_priority
  BY <1>2, <1>3 DEF RiseBlocks
<1>4. ASSUME NEW t \in Tasks, NEW m \in Mutexes, BlockOnMutex(t, m) PROVE RiseBlocks
  <2>1. blocked_on[t] = None
    BY <1>4 DEF BlockOnMutex, Executing, Agreement, SingleRunner
  <2>2. blocked_on'[t] = <<"Mutex", m>>
    BY <1>4 DEF BlockOnMutex, Block, TypeOK, TaskTypeOK
  <2> QED
    BY <2>1, <2>2 DEF RiseBlocks
<1>5. ASSUME NEW t \in Tasks, NEW m \in Mutexes, Unlock(t, m), setup.priority_inheritance
      PROVE  RiseBlocks
  <2>1. \A h \in Tasks : ExactFor(h)
    BY <1>5 DEF InheritanceHolds
  <2>2. \A x \in Tasks : eff_priority[x] >= eff_priority'[x]
    BY <1>5, <2>1, UnlockRaisesNobody
  <2> QED
    BY <1>2, <2>2 DEF RiseBlocks
<1> QED
  BY <1>3, <1>4, <1>5, MutexFrame DEF lockVars, Lock, Unlock

\* A priority rises only when some task blocks on a mutex: a release raises
\* nobody, whoever takes the mutex over and whatever else is held.
THEOREM RisesCorrect == Spec => RisesOnlyWhenBlocking
<1>1. TypeOK /\ Agreement /\ InheritanceHolds /\ [Next]_vars =>
        [\A t \in Tasks : eff_priority'[t] > eff_priority[t] =>
            \E x \in Tasks, m \in Mutexes :
                blocked_on[x] = None /\ blocked_on'[x] = <<"Mutex", m>>]_vars
  BY RiseStep DEF RiseBlocks
<1> QED
  BY <1>1, TypeCorrect, AgreementCorrect, InheritanceInvariant,
     PTL DEF Spec, RisesOnlyWhenBlocking

\* Every task on the chain from h is at least as urgent as h.
LEMMA ChainIsUrgent ==
    ASSUME TypeOK, MutexConsistent, \A x \in Tasks : ExactFor(x), NEW h \in Tasks
    PROVE  \A o \in ChainFrom(h) : o \in Tasks /\ eff_priority[o] >= base_priority(h)
<1> DEFINE S == {o \in Owners : eff_priority[o] >= base_priority(h)}
<1>0. Owners \subseteq Tasks
  BY DEF Owners
<1>1. eff_priority[h] >= base_priority(h)
  BY DEF ExactFor
<1>2. ASSUME NEW x \in S \union {h}, NEW y \in Owners, WaitsOn(x, y) PROVE y \in S
  <2>1. x \in WaitersOf(y)
    BY <1>0, <1>2, WaitersAreBlocked DEF WaitsOn
  <2>2. eff_priority[y] >= eff_priority[x]
    BY <1>0, <2>1 DEF ExactFor
  <2>3. eff_priority[x] >= base_priority(h)
    BY <1>1, <1>2
  <2>4. /\ eff_priority[x] \in Int /\ eff_priority[y] \in Int
        /\ base_priority(h) \in Int
    BY <1>0, <1>2, PrioritiesTyped
  <2> QED
    BY <2>2, <2>3, <2>4
<1>3. ChainFrom(h) \subseteq S
  <2>1. S \in SUBSET Owners
    OBVIOUS
  <2> HIDE DEF S
  <2> QED
    BY <1>2, <2>1 DEF ChainFrom
<1> QED
  BY <1>0, <1>3

\* The task the scheduler picks is at least as urgent as any task that waits
\* for one that could run.
NoMiddlingPick ==
    setup.priority_inheritance /\ mode = "dispatch" /\ mode' = "quantum" =>
        \A h \in Tasks : ChainFrom(h) \intersect Runnable # {} =>
            eff_priority[running'] >= base_priority(h)

LEMMA PickStep ==
    ASSUME TypeOK, Agreement, InheritanceHolds, [Next]_vars
    PROVE  NoMiddlingPick
<1> SUFFICES ASSUME setup.priority_inheritance, mode = "dispatch", mode' = "quantum",
                    NEW h \in Tasks, ChainFrom(h) \intersect Runnable # {}
             PROVE  eff_priority[running'] >= base_priority(h)
  BY DEF NoMiddlingPick
<1>1. PICK t \in Tasks : Dispatch(t)
  BY DEF Next, RunQuantum, Tick, ServiceInterrupts, Idle, EndOfProgram, Compute, Delay,
     Peripheral, Lock, BlockOnMutex, Unlock, SemWait, SemSignal, QueueSend, QueueRecv,
     Finished, Executing, vars, schedVars
<1>2. t \in pick /\ running' = t
  BY <1>1 DEF Dispatch
<1>3. PICK o \in ChainFrom(h) : o \in Runnable
  OBVIOUS
<1>4. o \in Tasks /\ eff_priority[o] >= base_priority(h)
  BY ChainIsUrgent DEF InheritanceHolds, Agreement
<1>5. /\ eff_priority[t] \in Int /\ eff_priority[o] \in Int
      /\ base_priority(h) \in Int
  BY <1>4, PrioritiesTyped
<1>6. eff_priority[t] >= eff_priority[o]
  BY <1>2, <1>3, <1>5 DEF pick, Best
<1> QED
  BY <1>2, <1>4, <1>5, <1>6

\* With inheritance there is no unbounded inversion, however long the chain of
\* tasks between the urgent one and the one that can run.
THEOREM InversionExcluded == Spec => NoInversion
<1>1. TypeOK /\ Agreement /\ InheritanceHolds /\ [Next]_vars =>
        [setup.priority_inheritance /\ mode = "dispatch" /\ mode' = "quantum" =>
            \A h \in Tasks : ChainFrom(h) \intersect Runnable # {} =>
                eff_priority[running'] >= base_priority(h)]_vars
  BY PickStep DEF NoMiddlingPick
<1> QED
  BY <1>1, TypeCorrect, AgreementCorrect, InheritanceInvariant,
     PTL DEF Spec, NoInversion

-----------------------------------------------------------------------------
(***************************************************************************)
(* The loop that gives the boost.                                          *)
(***************************************************************************)
\* A function that begins with s0 and takes a turn at every step, up to n.
Turns(f, s0, n) == f = [i \in 0..n |-> IF i = 0 THEN s0 ELSE loop_turn(f[i-1])]

\* There is one for every n: one more turn extends it.
LEMMA TurnsExist ==
    ASSUME NEW s0, NEW n \in Nat
    PROVE  \E f : Turns(f, s0, n)
<1> DEFINE T == {i \in Nat : \E f : Turns(f, s0, i)}
<1>1. 0 \in T
  <2> DEFINE f == [i \in 0..0 |-> s0]
  <2>1. f = [i \in 0..0 |-> IF i = 0 THEN s0 ELSE loop_turn(f[i-1])]
    OBVIOUS
  <2> QED
    BY <2>1 DEF Turns
<1>2. ASSUME NEW i \in Nat, i \in T PROVE i + 1 \in T
  <2>1. PICK f : Turns(f, s0, i)
    BY <1>2
  <2> DEFINE g == [j \in 0..i+1 |-> IF j = i + 1 THEN loop_turn(f[i]) ELSE f[j]]
             h == [j \in 0..i+1 |-> IF j = 0 THEN s0 ELSE loop_turn(g[j-1])]
  <2>2. ASSUME NEW j \in 0..i+1 PROVE g[j] = h[j]
    <3>1. CASE j = i + 1
      <4>1. j # 0 /\ j - 1 = i /\ i \in 0..i+1 /\ i # i + 1
        BY <3>1
      <4>2. g[i] = f[i]
        BY <4>1
      <4>3. h[j] = loop_turn(g[i])
        <5> HIDE DEF g
        <5> QED
          BY <4>1
      <4> QED
        BY <3>1, <4>2, <4>3
    <3>2. CASE j # i + 1
      <4>1. j \in 0..i /\ g[j] = f[j]
        BY <3>2
      <4>2. f[j] = IF j = 0 THEN s0 ELSE loop_turn(f[j-1])
        BY <2>1, <4>1 DEF Turns
      <4>3. j # 0 => g[j-1] = f[j-1]
        BY <4>1
      <4>4. h[j] = IF j = 0 THEN s0 ELSE loop_turn(g[j-1])
        <5> HIDE DEF g
        <5> QED
          OBVIOUS
      <4> HIDE DEF g, h
      <4> QED
        BY <4>1, <4>2, <4>3, <4>4
    <3> QED
      BY <3>1, <3>2
  <2>3. g = h
    <3>1. g = [j \in 0..i+1 |-> g[j]] /\ h = [j \in 0..i+1 |-> h[j]]
      OBVIOUS
    <3> HIDE DEF g, h
    <3> QED
      BY <2>2, <3>1
  <2>4. Turns(g, s0, i + 1)
    BY <2>3 DEF Turns
  <2> QED
    BY <2>4
<1> HIDE DEF T
<1>3. Nat \subseteq T
  BY <1>1, <1>2, NaturalInduction
<1> QED
  BY <1>3 DEF T

\* Where the loop for t begins.
loop_start(t) == [current |-> t, eff |-> eff_priority, left |-> FALSE]

\* The loop is what its turns make it.
LEMMA LoopTurns ==
    ASSUME NEW t \in Tasks
    PROVE  LET loop == inheritance_loop(t)
           IN  /\ loop[0] = loop_start(t)
               /\ \A n \in Nat : n < Cardinality(Tasks) => loop[n+1] = loop_turn(loop[n])
<1> DEFINE N == Cardinality(Tasks)
           loop == inheritance_loop(t)
           s0 == loop_start(t)
<1>1. N \in Nat
  BY TasksAssumption, FS_CardinalityType
<1>2. loop = CHOOSE f : f = [i \in 0..N |-> IF i = 0 THEN s0 ELSE loop_turn(f[i-1])]
  BY DEF inheritance_loop, loop_start
<1>3. \E f : f = [i \in 0..N |-> IF i = 0 THEN s0 ELSE loop_turn(f[i-1])]
  <2> HIDE DEF N, s0
  <2>1. \E f : Turns(f, s0, N)
    BY <1>1, TurnsExist
  <2> QED
    BY <2>1 DEF Turns
<1> HIDE DEF N, s0, loop
<1>4. loop = [i \in 0..N |-> IF i = 0 THEN s0 ELSE loop_turn(loop[i-1])]
  BY <1>2, <1>3
<1>5. loop[0] = s0
  BY <1>1, <1>4
<1>6. ASSUME NEW n \in Nat, n < N PROVE loop[n+1] = loop_turn(loop[n])
  <2>1. n + 1 \in 0..N /\ n + 1 # 0 /\ (n + 1) - 1 = n
    BY <1>1, <1>6
  <2> QED
    BY <1>4, <2>1
<1> QED
  BY <1>5, <1>6 DEF N, s0, loop

\* Nobody waits for two owners.
LEMMA OneOwnerNext ==
    ASSUME NEW x \in Tasks, NEW o \in Tasks, NEW v \in Tasks, WaitsFor(x, o), WaitsFor(x, v)
    PROVE  o = v
BY ReasonsDiffer DEF WaitsFor

\* After n turns the loop for t has raised the tasks of V: n of them if it goes
\* on.  All but the one it stands at have passed the boost on.
Walked(t, s, V, n) ==
    /\ V \subseteq Boosted(t)
    /\ s = [current |-> s.current, eff |-> s.eff, left |-> s.left]
    /\ s.eff = [o \in Tasks |-> IF o \in V THEN eff_priority[t] ELSE eff_priority[o]]
    /\ s.left \in BOOLEAN
    /\ s.current \in V \union {t}
    /\ \A x \in V \union {t}, o \in Tasks :
          /\ x # s.current \/ s.left
          /\ WaitsFor(x, o) /\ eff_priority[t] > eff_priority[o]
          => o \in V
    /\ ~s.left => Cardinality(V) = n

\* At the start it has raised nobody.
LEMMA WalkBegins ==
    ASSUME TypeOK, NEW t \in Tasks
    PROVE  Walked(t, loop_start(t), {}, 0)
<1>1. eff_priority = [o \in Tasks |-> eff_priority[o]]
  BY PrioritiesTyped
<1> QED
  BY <1>1, FS_EmptySet DEF Walked, loop_start

\* A turn that raises nobody changes one field.
LEMMA LeavesTheLoop ==
    ASSUME NEW s, NEW c, NEW e, NEW l, NEW v, s = [current |-> c, eff |-> e, left |-> l]
    PROVE  [s EXCEPT !.left = v] = [current |-> c, eff |-> e, left |-> v]
OBVIOUS

\* A turn raises one more task, the owner its task waits for, or leaves the loop.
LEMMA WalkGoesOn ==
    ASSUME TypeOK, NEW t \in Tasks, NEW s, NEW V, NEW n \in Nat, Walked(t, s, V, n)
    PROVE  \E W : Walked(t, loop_turn(s), W, n + 1)
<1> DEFINE p == eff_priority[t]
           c == s.current
           raised == {o \in Tasks : WaitsFor(c, o) /\ s.eff[c] > s.eff[o]}
<1>1. /\ Boosted(t) \subseteq Tasks
      /\ \A o \in Boosted(t) : p > eff_priority[o]
      /\ \A x \in Boosted(t) \union {t}, o \in Tasks :
            WaitsFor(x, o) /\ p > eff_priority[o] => o \in Boosted(t)
  BY BoostedProperties
<1>2. \A x \in Tasks : eff_priority[x] \in Int
  BY PrioritiesTyped
<1>3. /\ V \subseteq Boosted(t) /\ c \in V \union {t} /\ c \in Tasks
      /\ s = [current |-> c, eff |-> s.eff, left |-> s.left]
      /\ s.left \in BOOLEAN
      /\ s.eff = [o \in Tasks |-> IF o \in V THEN p ELSE eff_priority[o]]
      /\ \A x \in V \union {t}, o \in Tasks :
            (x # c \/ s.left) /\ WaitsFor(x, o) /\ p > eff_priority[o] => o \in V
      /\ ~s.left => Cardinality(V) = n
  BY <1>1 DEF Walked
<1>4. s.eff[c] = p
  BY <1>3
<1>5. \A o \in Tasks : o \in raised <=> WaitsFor(c, o) /\ p > eff_priority[o] /\ o \notin V
  BY <1>2, <1>3, <1>4
<1>6. raised \subseteq Tasks
  OBVIOUS
<1>7. loop_turn(s) = IF raised = {} THEN [s EXCEPT !.left = TRUE]
                     ELSE [s EXCEPT !.current = CHOOSE o \in raised : TRUE,
                                    !.eff[CHOOSE o \in raised : TRUE] = s.eff[c]]
  BY DEF loop_turn
<1> HIDE DEF raised, c, p
<1>8. CASE raised = {}
  <2> DEFINE r == loop_turn(s)
  <2>1. r = [current |-> c, eff |-> s.eff, left |-> TRUE]
    <3>1. loop_turn(s) = [s EXCEPT !.left = TRUE]
      BY <1>7, <1>8
    <3>2. s = [current |-> c, eff |-> s.eff, left |-> s.left]
      BY <1>3
    <3>3. [s EXCEPT !.left = TRUE] = [current |-> c, eff |-> s.eff, left |-> TRUE]
      BY <3>2, LeavesTheLoop, Zenon
    <3> QED
      BY <3>1, <3>3, Zenon
  <2> HIDE DEF r
  <2>2. /\ r.current = c /\ r.eff = s.eff /\ r.left = TRUE
        /\ r = [current |-> r.current, eff |-> r.eff, left |-> r.left]
    BY <2>1
  <2>3. \A x \in V \union {t}, o \in Tasks : WaitsFor(x, o) /\ p > eff_priority[o] => o \in V
    BY <1>3, <1>5, <1>8
  <2>4. Walked(t, r, V, n + 1)
    BY <1>3, <2>2, <2>3 DEF Walked, p
  <2> QED
    BY <2>4 DEF r
<1>9. CASE raised # {}
  <2> DEFINE o == CHOOSE o \in raised : TRUE
             r == loop_turn(s)
             W == V \union {o}
  <2>1. o \in raised /\ o \in Tasks
    BY <1>6, <1>9
  <2>2. r = [s EXCEPT !.current = o, !.eff[o] = s.eff[c]]
    BY <1>7, <1>9
  <2> HIDE DEF o, r
  <2>3. WaitsFor(c, o) /\ p > eff_priority[o] /\ o \notin V
    BY <1>5, <2>1
  <2>4. r = [current |-> o, eff |-> [s.eff EXCEPT ![o] = p], left |-> s.left]
    BY <1>3, <1>4, <2>2
  <2>5. /\ r.current = o /\ r.eff = [s.eff EXCEPT ![o] = p] /\ r.left = s.left
        /\ r = [current |-> r.current, eff |-> r.eff, left |-> r.left]
    BY <2>4
  <2>6. r.eff = [x \in Tasks |-> IF x \in W THEN p ELSE eff_priority[x]]
    BY <1>3, <2>1, <2>5
  <2>7. W \subseteq Boosted(t) /\ o \in Boosted(t)
    BY <1>1, <1>3, <2>1, <2>3
  <2>8. ~s.left
    BY <1>3, <2>1, <2>3
  <2>9. Cardinality(W) = n + 1
    <3>1. IsFiniteSet(V)
      BY <1>1, <1>3, TasksAssumption, FS_Subset
    <3> QED
      BY <1>3, <2>3, <2>8, <3>1, FS_AddElement
  <2>10. ASSUME NEW x \in W \union {t}, NEW y \in Tasks, x # o,
                WaitsFor(x, y), p > eff_priority[y]
         PROVE  y \in W
    <3>1. CASE x # c
      BY <1>3, <2>10, <3>1
    <3>2. CASE x = c
      <4>1. y = o
        BY <1>3, <2>1, <2>3, <2>10, <3>2, OneOwnerNext
      <4> QED
        BY <4>1
    <3> QED
      BY <3>1, <3>2
  <2>11. Walked(t, r, W, n + 1)
    <3> HIDE DEF W
    <3>1. o \in W
      BY DEF W
    <3> QED
      BY <1>3, <2>5, <2>6, <2>7, <2>8, <2>9, <2>10, <3>1 DEF Walked, p
  <2> QED
    BY <2>11 DEF r
<1> QED
  BY <1>8, <1>9

\* n tasks cannot be all the tasks, since t is never among them: the loop is left
\* in time, and then those it raised are closed under waiting.
LEMMA WalkEnds ==
    ASSUME TypeOK, NEW t \in Tasks
    PROVE  LET last == inheritance_loop(t)[Cardinality(Tasks)]
           IN  /\ last.left
               /\ last.eff = [o \in Tasks |-> IF o \in Boosted(t) THEN eff_priority[t]
                                              ELSE eff_priority[o]]
<1> DEFINE N == Cardinality(Tasks)
           loop == inheritance_loop(t)
           T == {n \in Nat : n <= N => \E V : Walked(t, loop[n], V, n)}
<1>1. N \in Nat /\ IsFiniteSet(Tasks)
  BY TasksAssumption, FS_CardinalityType
<1>2. /\ loop[0] = loop_start(t)
      /\ \A n \in Nat : n < N => loop[n+1] = loop_turn(loop[n])
  BY LoopTurns
<1> HIDE DEF N, loop
<1>3. 0 \in T
  BY <1>2, WalkBegins
<1>4. ASSUME NEW n \in Nat, n \in T PROVE n + 1 \in T
  <2> SUFFICES ASSUME n + 1 <= N PROVE \E V : Walked(t, loop[n+1], V, n + 1)
    OBVIOUS
  <2>1. PICK V : Walked(t, loop[n], V, n)
    BY <1>1, <1>4
  <2>2. loop[n+1] = loop_turn(loop[n])
    BY <1>1, <1>2
  <2> QED
    BY <2>1, <2>2, WalkGoesOn
<1>5. Nat \subseteq T
  <2> HIDE DEF T
  <2> QED
    BY <1>3, <1>4, NaturalInduction
<1>6. PICK V : Walked(t, loop[N], V, N)
  BY <1>1, <1>5
<1>7. /\ Boosted(t) \subseteq Tasks
      /\ \A o \in Boosted(t) : eff_priority[t] > eff_priority[o]
      /\ \A o \in Boosted(t) : \E x \in Boosted(t) \union {t} : WaitsFor(x, o)
  BY BoostedProperties
<1>8. V \subseteq Tasks /\ t \notin V
  BY <1>6, <1>7, PrioritiesTyped DEF Walked
<1>9. loop[N].left
  <2> SUFFICES ASSUME ~loop[N].left PROVE FALSE
    OBVIOUS
  <2>1. Cardinality(V) = Cardinality(Tasks)
    BY <1>6 DEF Walked, N
  <2> QED
    BY <1>1, <1>8, <2>1, FS_Subset
<1>10. Boosted(t) \subseteq V
  <2>1. Carries(t, V)
    BY <1>6, <1>9 DEF Walked, Carries
  <2>2. V \in SUBSET Owners
    BY <1>6 DEF Walked, Boosted
  <2> QED
    BY <2>1, <2>2 DEF Boosted
<1>11. V = Boosted(t)
  BY <1>6, <1>10 DEF Walked
<1>12. loop[N].eff = [o \in Tasks |-> IF o \in V THEN eff_priority[t] ELSE eff_priority[o]]
  BY <1>6 DEF Walked
<1> QED
  BY <1>9, <1>11, <1>12 DEF N, loop

\* Only BlockOnMutex makes a task that was not blocked wait for a mutex.
LEMMA WhoBlocks ==
    ASSUME TypeOK, Agreement, [Next]_vars, NEW t \in Tasks, NEW m \in Mutexes,
           blocked_on[t] = None, blocked_on'[t] = <<"Mutex", m>>
    PROVE  BlockOnMutex(t, m)
<1>1. blocked_on \in [Tasks -> BlockReason]
  BY DEF TypeOK, TaskTypeOK
<1>2. blocked_on'[t] # blocked_on[t] /\ blocked_on'[t] \notin {None, Sleep, WaitPeriod}
  BY DEF None, Sleep, WaitPeriod
<1>3. ~(UNCHANGED vars \/ Tick \/ Idle \/ Finished \/ \E u \in Tasks : Dispatch(u))
  BY <1>2 DEF vars, schedVars, Tick, Idle, Finished, Dispatch
<1>4. ~ServiceInterrupts
  BY <1>2 DEF ServiceInterrupts, on_tick
<1>5. PICK u \in Tasks : RunQuantum(u)
  BY <1>3, <1>4 DEF Next
<1>6. ~(EndOfProgram(u) \/ Compute(u) \/ Delay(u) \/ Peripheral(u))
  BY <1>1, <1>2 DEF EndOfProgram, Compute, Delay, Peripheral, complete_job, Block, Continue,
     EndQuantum, schedVars
<1>7. \A s \in Semaphores : ~(SemWait(u, s) \/ SemSignal(u, s))
  BY <1>1, <1>2, ReasonsDiffer DEF SemWait, SemSignal, Block, Continue, Wake, schedVars
<1>8. \A q \in Queues : ~(QueueSend(u, q) \/ QueueRecv(u, q))
  BY <1>1, <1>2, ReasonsDiffer DEF QueueSend, QueueRecv, Block, Continue, Wake, schedVars
<1>9. \A l \in Mutexes : ~(Lock(u, l) \/ Unlock(u, l))
  BY <1>1, <1>2, ReasonsDiffer DEF Lock, Unlock, Continue, Wake, schedVars
<1>10. PICK l \in Mutexes : BlockOnMutex(u, l)
  BY <1>5, <1>6, <1>7, <1>8, <1>9 DEF RunQuantum
<1>11. blocked_on'[t] = IF t = u THEN <<"Mutex", l>> ELSE blocked_on[t]
  BY <1>1, <1>10 DEF BlockOnMutex, Block
<1>12. u = t /\ l = m
  BY <1>2, <1>11, ReasonsDiffer
<1> QED
  BY <1>10, <1>12

\* The loop that walks down the chain of owners, one owner at a time, ends
\* within as many turns as there are tasks, also when the chain is a circle, and
\* gives exactly the boost that the least closed set of owners describes: for
\* any number of tasks, any chain and any priorities.
THEOREM WalkIsTheBoost == Spec => BoostIsTheWalk
<1>1. ASSUME TypeOK, Agreement, [Next]_vars, NEW t \in Tasks, NEW m \in Mutexes,
             setup.priority_inheritance, blocked_on[t] = None, blocked_on'[t] = <<"Mutex", m>>
      PROVE  /\ inheritance_loop(t)[Cardinality(Tasks)].left
             /\ eff_priority' = inheritance_loop(t)[Cardinality(Tasks)].eff
  <2>1. apply_inheritance(t)
    BY <1>1, WhoBlocks DEF BlockOnMutex
  <2> QED
    BY <1>1, <2>1, WalkEnds DEF apply_inheritance
<1>2. TypeOK /\ Agreement /\ [Next]_vars =>
        [\A t \in Tasks, m \in Mutexes :
          /\ setup.priority_inheritance
          /\ blocked_on[t] = None
          /\ blocked_on'[t] = <<"Mutex", m>>
          => LET last == inheritance_loop(t)[Cardinality(Tasks)]
             IN  last.left /\ eff_priority' = last.eff]_vars
  BY <1>1
<1> QED
  BY <1>2, TypeCorrect, AgreementCorrect, PTL DEF Spec, BoostIsTheWalk
=============================================================================
