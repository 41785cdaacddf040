----------------------------- MODULE WorkProofs -----------------------------
(***************************************************************************)
(* Theorems about the work of tasks: the CPU time they are charged, the units *)
(* of work of a tick, and their writes to the peripherals, for every value of *)
(* the constants.                                                          *)
(***************************************************************************)
EXTENDS KernelProofs, KernelProperties, TaskSetProofs

-----------------------------------------------------------------------------
(***************************************************************************)
(* What a step does to the job of a task.                                  *)
(***************************************************************************)
\* The work the Compute at hand still asks for.
rest(u) == IF compute_remaining[u] = 0 THEN current_op(u)[2] ELSE compute_remaining[u]

\* Nothing happens to it; its job begins; it ends after the last operation; it
\* goes past an operation that takes no time.
Rests(u) ==
    /\ pc'[u] = pc[u] /\ compute_remaining'[u] = compute_remaining[u]
    /\ cpu_ticks'[u] = cpu_ticks[u]
    /\ jobs_completed'[u] = jobs_completed[u] /\ job_active'[u] = job_active[u]

Begins(u) ==
    /\ ~job_active[u] /\ job_active'[u]
    /\ pc'[u] = 0 /\ compute_remaining'[u] = 0
    /\ cpu_ticks'[u] = cpu_ticks[u] /\ jobs_completed'[u] = jobs_completed[u]

EndsIdly(u) ==
    /\ AtEnd(u) /\ ~job_active'[u]
    /\ pc'[u] = 0 /\ compute_remaining'[u] = 0
    /\ cpu_ticks'[u] = cpu_ticks[u] /\ jobs_completed'[u] = jobs_completed[u] + 1

GoesPast(u) ==
    /\ ~AtEnd(u) /\ job_active'[u]
    /\ current_op(u)[1] = "Compute" => current_op(u)[2] = 0
    /\ pc'[u] = pc[u] + 1 /\ compute_remaining'[u] = compute_remaining[u]
    /\ cpu_ticks'[u] = cpu_ticks[u] /\ jobs_completed'[u] = jobs_completed[u]

\* It does one unit of work, which may be the last of its operation or its job.
WorksOn(u) ==
    /\ rest(u) > 1
    /\ pc'[u] = pc[u] /\ compute_remaining'[u] = rest(u) - 1
    /\ jobs_completed'[u] = jobs_completed[u] /\ job_active'[u]

WorksOff(u) ==
    /\ rest(u) = 1 /\ compute_remaining'[u] = 0
    /\ \/ /\ pc'[u] = pc[u] + 1
          /\ jobs_completed'[u] = jobs_completed[u] /\ job_active'[u]
       \/ /\ pc[u] + 1 >= Len(program(u)) /\ pc'[u] = 0
          /\ jobs_completed'[u] = jobs_completed[u] + 1 /\ ~job_active'[u]

DoesWork(u) ==
    /\ mode = "quantum" /\ running = u /\ mode' = "tick"
    /\ ~AtEnd(u) /\ current_op(u)[1] = "Compute"
    /\ cpu_ticks'[u] = cpu_ticks[u] + 1
    /\ WorksOn(u) \/ WorksOff(u)

GoesOn(u) == Rests(u) \/ Begins(u) \/ EndsIdly(u) \/ GoesPast(u) \/ DoesWork(u)

\* The interrupt begins jobs.
LEMMA GoesOnByIsr ==
    ASSUME TypeOK, ServiceInterrupts, NEW u \in Tasks
    PROVE  GoesOn(u)
<1>1. CASE "Timer" \notin pending
  BY <1>1 DEF ServiceInterrupts, jobVars, computeVars, GoesOn, Rests
<1>2. CASE "Timer" \in pending
  <2>1. /\ pc'[u] = IF u \in Due THEN 0 ELSE pc[u]
        /\ compute_remaining'[u] = IF u \in Due THEN 0 ELSE compute_remaining[u]
        /\ job_active'[u] = (u \in Due \/ job_active[u])
        /\ cpu_ticks' = cpu_ticks /\ jobs_completed' = jobs_completed
        /\ u \in Due => ~job_active[u]
    BY <1>2 DEF ServiceInterrupts, on_tick, Due
  <2> QED
    BY <2>1, TaskFieldsTyped DEF GoesOn, Begins, Rests
<1> QED
  BY <1>1, <1>2

\* A job ends after the last operation.
LEMMA GoesOnByEnd ==
    ASSUME TypeOK, NEW t \in Tasks, EndOfProgram(t), NEW u \in Tasks
    PROVE  GoesOn(u)
<1>1. /\ jobs_completed' = [jobs_completed EXCEPT ![t] = @ + 1]
      /\ job_active' = [job_active EXCEPT ![t] = FALSE]
      /\ pc' = [pc EXCEPT ![t] = 0]
      /\ compute_remaining' = [compute_remaining EXCEPT ![t] = 0]
      /\ cpu_ticks' = cpu_ticks /\ AtEnd(t)
  BY DEF EndOfProgram, complete_job
<1>2. CASE u = t
  BY <1>1, <1>2, TaskFieldsTyped DEF GoesOn, EndsIdly
<1>3. CASE u # t
  BY <1>1, <1>3, TaskFieldsTyped DEF GoesOn, Rests
<1> QED
  BY <1>2, <1>3

\* A Compute that takes no time is gone past; any other does one unit.
LEMMA GoesOnByCompute ==
    ASSUME TypeOK, Agreement, NEW t \in Tasks, Compute(t), NEW u \in Tasks
    PROVE  GoesOn(u)
<1> USE TaskFieldsTyped
<1>1. /\ mode = "quantum" /\ running = t /\ ~AtEnd(t) /\ current_op(t)[1] = "Compute"
      /\ job_active[t]
  BY ActiveTasks DEF Compute, Executing
<1>2. CASE /\ rest(t) = 0
           /\ Advance(t)
           /\ UNCHANGED <<computeVars, jobVars>>
  <2>1. /\ pc' = [pc EXCEPT ![t] = @ + 1] /\ compute_remaining' = compute_remaining
        /\ cpu_ticks' = cpu_ticks /\ jobs_completed' = jobs_completed
        /\ job_active' = job_active
    BY <1>2 DEF Advance, computeVars, jobVars
  <2>2. current_op(t)[2] = 0
    BY <1>2 DEF rest
  <2> QED
    BY <1>1, <2>1, <2>2 DEF GoesOn, GoesPast, Rests
<1>3. CASE /\ rest(t) > 1
           /\ cpu_ticks' = [cpu_ticks EXCEPT ![t] = @ + 1]
           /\ compute_remaining' = [compute_remaining EXCEPT ![t] = rest(t) - 1]
           /\ EndQuantum
           /\ UNCHANGED <<pc, jobVars>>
  <2>1. jobs_completed' = jobs_completed /\ job_active' = job_active /\ mode' = "tick"
    BY <1>3 DEF jobVars, EndQuantum
  <2>2. CASE u = t
    BY <1>1, <1>3, <2>1, <2>2 DEF GoesOn, DoesWork, WorksOn
  <2>3. CASE u # t
    BY <1>3, <2>1, <2>3 DEF GoesOn, Rests
  <2> QED
    BY <2>2, <2>3
<1>4. CASE /\ rest(t) = 1
           /\ cpu_ticks' = [cpu_ticks EXCEPT ![t] = @ + 1]
           /\ compute_remaining' = [compute_remaining EXCEPT ![t] = 0]
           /\ Advance(t)
           /\ EndQuantum
           /\ UNCHANGED jobVars
  <2>1. /\ pc' = [pc EXCEPT ![t] = @ + 1] /\ mode' = "tick"
        /\ jobs_completed' = jobs_completed /\ job_active' = job_active
    BY <1>4 DEF jobVars, EndQuantum, Advance
  <2>2. CASE u = t
    BY <1>1, <1>4, <2>1, <2>2 DEF GoesOn, DoesWork, WorksOff
  <2>3. CASE u # t
    BY <1>4, <2>1, <2>3 DEF GoesOn, Rests
  <2> QED
    BY <2>2, <2>3
<1>5. CASE /\ rest(t) = 1
           /\ cpu_ticks' = [cpu_ticks EXCEPT ![t] = @ + 1]
           /\ pc[t] + 1 >= Len(program(t))
           /\ complete_job(t)
  <2>1. /\ jobs_completed' = [jobs_completed EXCEPT ![t] = @ + 1]
        /\ job_active' = [job_active EXCEPT ![t] = FALSE]
        /\ pc' = [pc EXCEPT ![t] = 0] /\ mode' = "tick"
        /\ compute_remaining' = [compute_remaining EXCEPT ![t] = 0]
    BY <1>5 DEF complete_job, Block
  <2>2. CASE u = t
    BY <1>1, <1>5, <2>1, <2>2 DEF GoesOn, DoesWork, WorksOff
  <2>3. CASE u # t
    BY <1>5, <2>1, <2>3 DEF GoesOn, Rests
  <2> QED
    BY <2>2, <2>3
<1> QED
  BY <1>2, <1>3, <1>4, <1>5 DEF Compute, rest

\* The other operations move the running task and perhaps a waiter.
LEMMA GoesOnByOperation ==
    ASSUME TypeOK, Agreement, BlockedAtItsOperation, Next, NEW t \in Tasks, RunQuantum(t),
           ~EndOfProgram(t), ~Compute(t), NEW u \in Tasks
    PROVE  GoesOn(u)
<1>1. pc \in [Tasks -> Nat]
  BY TaskFieldsTyped
<1>2. UNCHANGED <<computeVars, jobVars>>
  BY DEF RunQuantum, Delay, Peripheral, Lock, BlockOnMutex, Unlock, SemWait, SemSignal,
     QueueSend, QueueRecv, opVars
<1>3. /\ mode = "quantum" /\ running = t /\ ~AtEnd(t) /\ current_op(t)[1] # "Compute"
  <2>1. /\ mode = "quantum" /\ running = t /\ ~AtEnd(t)
    BY DEF RunQuantum, Delay, Peripheral, Lock, BlockOnMutex, Unlock, SemWait, SemSignal,
       QueueSend, QueueRecv, Executing
  <2>2. Delay(t) \/ Peripheral(t) => current_op(t)[1] # "Compute"
    BY DEF Delay, Peripheral
  <2>3. \A m \in Mutexes : Lock(t, m) \/ BlockOnMutex(t, m) \/ Unlock(t, m) =>
           current_op(t)[1] # "Compute"
    BY DEF Lock, BlockOnMutex, Unlock
  <2>4. \A s \in Semaphores : SemWait(t, s) \/ SemSignal(t, s) => current_op(t)[1] # "Compute"
    BY DEF SemWait, SemSignal
  <2>5. \A q \in Queues : QueueSend(t, q) => current_op(t)[1] # "Compute"
    BY DEF QueueSend
  <2>6. \A q \in Queues : QueueRecv(t, q) => current_op(t)[1] # "Compute"
    BY DEF QueueRecv
  <2> QED
    BY <2>1, <2>2, <2>3, <2>4, <2>5, <2>6 DEF RunQuantum
<1>4. pc'[u] = pc[u] \/ pc'[u] = pc[u] + 1
  <2>1. Advance(t) \/ pc' = pc => pc'[u] = pc[u] \/ pc'[u] = pc[u] + 1
    BY <1>1 DEF Advance
  <2>2. ASSUME NEW w, AdvanceBoth(t, w) PROVE pc'[u] = pc[u] \/ pc'[u] = pc[u] + 1
    BY <1>1, <2>2 DEF AdvanceBoth
  <2>3. \A m \in Mutexes : Unlock(t, m) => \E w : AdvanceBoth(t, w)
    BY DEF Unlock
  <2>4. \A s \in Semaphores : SemSignal(t, s) => \E w : AdvanceBoth(t, w)
    BY DEF SemSignal
  <2> QED
    BY <2>1, <2>2, <2>3, <2>4 DEF RunQuantum, Delay, Peripheral, Lock, BlockOnMutex,
       SemWait, QueueSend, QueueRecv
<1>5. CASE pc'[u] = pc[u]
  BY <1>2, <1>5 DEF computeVars, jobVars, GoesOn, Rests
<1>6. CASE pc'[u] = pc[u] + 1
  <2>1. ~AtEnd(u) /\ current_op(u)[1] # "Compute" /\ job_active[u]
    <3>1. CASE running = u
      BY <1>3, <3>1, ActiveTasks
    <3>2. CASE running # u
      <4>1. \/ \E m \in Mutexes : blocked_on[u] = <<"Mutex", m>>
            \/ \E s \in Semaphores : blocked_on[u] = <<"Semaphore", s>>
        BY <1>6, <3>2, WhoGoesOn
      <4>2. blocked_on[u] \notin {None, Sleep, WaitPeriod}
        BY <4>1, ReasonsDiffer
      <4>3. BlocksFor(u, blocked_on[u])
        BY <4>2 DEF BlockedAtItsOperation, BlocksFor
      <4>4. job_active[u]
        BY <4>2, ActiveTasks
      <4> QED
        BY <4>1, <4>3, <4>4 DEF BlocksFor
    <3> QED
      BY <3>1, <3>2
  <2> QED
    BY <1>2, <1>6, <2>1 DEF computeVars, jobVars, GoesOn, GoesPast
<1> QED
  BY <1>4, <1>5, <1>6

\* Together: every step does one of the five to every task.
LEMMA GoesOnStep ==
    ASSUME TypeOK, Agreement, BlockedAtItsOperation, [Next]_vars, NEW u \in Tasks
    PROVE  GoesOn(u)
<1>1. CASE UNCHANGED vars \/ Tick \/ Idle \/ Finished \/ \E t \in Tasks : Dispatch(t)
  BY <1>1 DEF Tick, Idle, Finished, Dispatch, vars, computeVars, jobVars, GoesOn, Rests
<1>2. CASE ServiceInterrupts
  BY <1>2, GoesOnByIsr
<1>3. ASSUME Next, NEW t \in Tasks, RunQuantum(t) PROVE GoesOn(u)
  BY <1>3, GoesOnByEnd, GoesOnByCompute, GoesOnByOperation
<1> QED
  BY <1>1, <1>2, <1>3 DEF Next

-----------------------------------------------------------------------------
(***************************************************************************)
(* Where a task stands.                                                    *)
(***************************************************************************)
\* A task is within its program, at its start without a job, and part of the
\* way through a Compute when some work remains of it.
StandsAt(u) ==
    /\ pc[u] <= Len(program(u))
    /\ ~job_active[u] => pc[u] = 0 /\ compute_remaining[u] = 0
    /\ compute_remaining[u] # 0 =>
          /\ ~AtEnd(u)
          /\ current_op(u)[1] = "Compute"
          /\ compute_remaining[u] < current_op(u)[2]

\* The position of every task and the work its Compute has left agree.
Standing == \A u \in Tasks : StandsAt(u)

\* The Compute at hand asks for a number of units.
LEMMA DurationOfCurrent ==
    ASSUME TypeOK, NEW u \in Tasks, ~AtEnd(u), current_op(u)[1] = "Compute"
    PROVE  current_op(u)[2] \in Nat
BY TaskFieldsTyped, CurrentOpTyped, DurationTyped DEF TypeOK

LEMMA StandingInit == Init => Standing
<1> SUFFICES ASSUME Init, NEW u \in Tasks PROVE StandsAt(u)
  BY DEF Standing
<1> QED
  BY TypeInit, ProgramTyped DEF Init, StandsAt

\* The program does not change, so the operation is the one at the new place.
LEMMA ProgramStays ==
    ASSUME [Next]_vars, NEW u \in Tasks
    PROVE  /\ setup' = setup /\ program(u)' = program(u)
           /\ pc'[u] = pc[u] => AtEnd(u)' = AtEnd(u) /\ current_op(u)' = current_op(u)
BY McuFrame DEF program, AtEnd, current_op

LEMMA StandingStep ==
    TypeOK /\ Agreement /\ BlockedAtItsOperation /\ Standing /\ [Next]_vars => Standing'
<1> SUFFICES ASSUME TypeOK, Agreement, BlockedAtItsOperation, Standing, [Next]_vars,
                    NEW u \in Tasks
             PROVE  StandsAt(u)'
  BY DEF Standing
<1>1. /\ program(u)' = program(u)
      /\ pc'[u] = pc[u] => AtEnd(u)' = AtEnd(u) /\ current_op(u)' = current_op(u)
  BY ProgramStays
<1>2. /\ pc[u] \in Nat /\ Len(program(u)) \in Nat /\ compute_remaining[u] \in Nat
      /\ pc[u] <= Len(program(u))
  BY TaskFieldsTyped, ProgramTyped DEF Standing, StandsAt
<1>3. /\ ~job_active[u] => pc[u] = 0 /\ compute_remaining[u] = 0
      /\ compute_remaining[u] # 0 =>
            /\ ~AtEnd(u)
            /\ current_op(u)[1] = "Compute"
            /\ compute_remaining[u] < current_op(u)[2]
  BY DEF Standing, StandsAt
<1>4. CASE Rests(u)
  BY <1>1, <1>2, <1>3, <1>4 DEF Rests, StandsAt
<1>5. CASE Begins(u) \/ EndsIdly(u)
  BY <1>1, <1>2, <1>5 DEF Begins, EndsIdly, StandsAt
<1>6. CASE GoesPast(u)
  <2>1. compute_remaining[u] = 0
    BY <1>2, <1>3, <1>6, DurationOfCurrent DEF GoesPast
  <2> QED
    BY <1>1, <1>2, <1>6, <2>1 DEF GoesPast, AtEnd, StandsAt
<1>7. CASE DoesWork(u)
  <2>1. ~AtEnd(u) /\ current_op(u)[1] = "Compute" /\ current_op(u)[2] \in Nat
    BY <1>7, DurationOfCurrent DEF DoesWork
  <2>2. CASE WorksOn(u)
    <3>1. rest(u) <= current_op(u)[2] /\ rest(u) \in Nat
      BY <1>2, <1>3, <2>1 DEF rest
    <3>2. pc'[u] = pc[u] /\ compute_remaining'[u] < current_op(u)[2] /\ job_active'[u]
      BY <2>1, <2>2, <3>1 DEF WorksOn
    <3> QED
      BY <1>1, <1>2, <2>1, <3>2 DEF StandsAt
  <2>3. CASE WorksOff(u)
    <3>1. compute_remaining'[u] = 0 /\ pc'[u] <= Len(program(u))
      BY <1>2, <2>1, <2>3 DEF WorksOff, AtEnd
    <3>2. ~job_active'[u] => pc'[u] = 0
      BY <2>3 DEF WorksOff
    <3> QED
      BY <1>1, <3>1, <3>2 DEF StandsAt
  <2> QED
    BY <1>7, <2>2, <2>3 DEF DoesWork
<1> QED
  BY <1>4, <1>5, <1>6, <1>7, GoesOnStep DEF GoesOn

-----------------------------------------------------------------------------
(***************************************************************************)
(* The amounts a program contributes.                                      *)
(***************************************************************************)
\* After n whole runs of a program and its first p operations.
Contribution(c, n, p) == n * SumFunction(c) + SumFunctionOnSet(c, 1..p)

\* What the properties call executed, task by task.
LEMMA ExecutedIsContribution ==
    ASSUME NEW u \in Tasks, NEW c
    PROVE  Executed(u, c) = Contribution(c, jobs_completed[u], pc[u])
BY DEF Executed, Contribution

\* It is a natural number; it grows by the operation gone past.
LEMMA ContributionTyped ==
    ASSUME NEW len \in Nat, NEW c \in [1..len -> Nat], NEW n \in Nat, NEW p \in 0..len
    PROVE  Contribution(c, n, p) \in Nat
<1>1. IsFiniteSet(1..len) /\ IsFiniteSet(1..p)
  BY FS_Interval
<1>2. (\A i \in 1..len : c[i] \in Nat) /\ (\A i \in 1..p : c[i] \in Nat)
  OBVIOUS
<1>3. SumFunctionOnSet(c, 1..len) \in Nat /\ SumFunctionOnSet(c, 1..p) \in Nat
  BY <1>1, <1>2, SumNatural
<1>4. SumFunction(c) \in Nat
  BY <1>3 DEF SumFunction
<1>5. n * SumFunction(c) \in Nat
  BY <1>4
<1> QED
  BY <1>3, <1>5 DEF Contribution

\* One more operation adds its amount.
LEMMA ContributionGrows ==
    ASSUME NEW len \in Nat, NEW c \in [1..len -> Nat], NEW n \in Nat, NEW p \in Nat, p < len
    PROVE  Contribution(c, n, p + 1) = Contribution(c, n, p) + c[p + 1]
<1>1. \A i \in 1..p+1 : c[i] \in Int
  OBVIOUS
<1>2. SumFunctionOnSet(c, 1..p+1) = SumFunctionOnSet(c, 1..p) + c[p+1]
  BY <1>1, SumUpTo
<1>4. SumFunction(c) \in Nat /\ SumFunctionOnSet(c, 1..p) \in Nat
  <2>1. IsFiniteSet(1..len) /\ IsFiniteSet(1..p)
    BY FS_Interval
  <2>2. (\A i \in 1..len : c[i] \in Nat) /\ (\A i \in 1..p : c[i] \in Nat)
    OBVIOUS
  <2>3. SumFunctionOnSet(c, 1..len) \in Nat /\ SumFunctionOnSet(c, 1..p) \in Nat
    BY <2>1, <2>2, SumNatural
  <2> QED
    BY <2>3 DEF SumFunction
<1>5. n * SumFunction(c) \in Nat /\ c[p+1] \in Nat
  BY <1>4
<1> QED
  BY <1>2, <1>4, <1>5 DEF Contribution

\* A program run to its end is one whole run more.
LEMMA ContributionWraps ==
    ASSUME NEW len \in Nat, NEW c \in [1..len -> Nat], NEW n \in Nat
    PROVE  Contribution(c, n + 1, 0) = Contribution(c, n, len)
<1>1. SumFunctionOnSet(c, 1..0) = 0
  <2>1. 1..0 = {}
    OBVIOUS
  <2> QED
    BY <2>1, SumEmpty
<1>2. SumFunctionOnSet(c, 1..len) \in Nat /\ SumFunction(c) = SumFunctionOnSet(c, 1..len)
  <2>1. IsFiniteSet(1..len)
    BY FS_Interval
  <2>2. \A i \in 1..len : c[i] \in Nat
    OBVIOUS
  <2> QED
    BY <2>1, <2>2, SumNatural DEF SumFunction
<1>3. \A s \in Nat : (n + 1) * s + 0 = n * s + s
  OBVIOUS
<1> QED
  BY <1>1, <1>2, <1>3 DEF Contribution

\* A task that has executed nothing has contributed nothing.
LEMMA ContributionNone ==
    ASSUME NEW len \in Nat, NEW c \in [1..len -> Nat]
    PROVE  Contribution(c, 0, 0) = 0
<1>1. 1..0 = {}
  OBVIOUS
<1>2. SumFunction(c) \in Nat
  <2>1. IsFiniteSet(1..len)
    BY FS_Interval
  <2>2. \A i \in 1..len : c[i] \in Nat
    OBVIOUS
  <2> QED
    BY <2>1, <2>2, SumNatural DEF SumFunction
<1> QED
  BY <1>1, <1>2, SumEmpty DEF Contribution

\* What a step adds to what u has executed.
LEMMA ExecutedStep ==
    ASSUME TypeOK, Agreement, BlockedAtItsOperation, Standing, [Next]_vars,
           NEW u \in Tasks, NEW c \in [1..Len(program(u)) -> Nat]
    PROVE  LET before == Contribution(c, jobs_completed[u], pc[u])
               after == Contribution(c, jobs_completed'[u], pc'[u])
           IN  /\ before \in Nat
               /\ Rests(u) \/ Begins(u) \/ EndsIdly(u) => after = before
               /\ GoesPast(u) => after = before + c[pc[u] + 1]
               /\ DoesWork(u) /\ WorksOn(u) => after = before
               /\ DoesWork(u) /\ WorksOff(u) => after = before + c[pc[u] + 1]
<1> DEFINE len == Len(program(u))
           n == jobs_completed[u]
           p == pc[u]
<1>1. len \in Nat /\ n \in Nat /\ p \in 0..len
  BY TaskFieldsTyped, ProgramTyped DEF Standing, StandsAt
<1>2. c \in [1..len -> Nat]
  OBVIOUS
<1>3. ~job_active[u] => p = 0
  BY DEF Standing, StandsAt
<1>4. (AtEnd(u) <=> p >= len) /\ (AtEnd(u) <=> p = len)
  BY <1>1 DEF AtEnd
<1> HIDE DEF len
<1>5. Contribution(c, n, p) \in Nat
  BY <1>1, <1>2, ContributionTyped
<1>6. p < len => Contribution(c, n, p + 1) = Contribution(c, n, p) + c[p + 1]
  BY <1>1, <1>2, ContributionGrows
<1>7. Contribution(c, n + 1, 0) = Contribution(c, n, len)
  BY <1>1, <1>2, ContributionWraps
<1>8. /\ Rests(u) => jobs_completed'[u] = n /\ pc'[u] = p
      /\ Begins(u) => jobs_completed'[u] = n /\ pc'[u] = 0 /\ p = 0
      /\ EndsIdly(u) => jobs_completed'[u] = n + 1 /\ pc'[u] = 0 /\ p = len
      /\ GoesPast(u) => jobs_completed'[u] = n /\ pc'[u] = p + 1 /\ p < len
      /\ DoesWork(u) /\ WorksOn(u) => jobs_completed'[u] = n /\ pc'[u] = p
  BY <1>1, <1>3, <1>4 DEF Rests, Begins, EndsIdly, GoesPast, WorksOn
<1>9. DoesWork(u) /\ WorksOff(u) =>
         /\ p < len
         /\ \/ jobs_completed'[u] = n /\ pc'[u] = p + 1
            \/ jobs_completed'[u] = n + 1 /\ pc'[u] = 0 /\ p + 1 = len
  BY <1>1, <1>4 DEF DoesWork, WorksOff, len
<1> HIDE DEF n, p
<1> SUFFICES /\ Contribution(c, n, p) \in Nat
             /\ Rests(u) \/ Begins(u) \/ EndsIdly(u) =>
                  Contribution(c, jobs_completed'[u], pc'[u]) = Contribution(c, n, p)
             /\ GoesPast(u) =>
                  Contribution(c, jobs_completed'[u], pc'[u]) = Contribution(c, n, p) + c[p + 1]
             /\ DoesWork(u) /\ WorksOn(u) =>
                  Contribution(c, jobs_completed'[u], pc'[u]) = Contribution(c, n, p)
             /\ DoesWork(u) /\ WorksOff(u) =>
                  Contribution(c, jobs_completed'[u], pc'[u]) = Contribution(c, n, p) + c[p + 1]
  BY DEF n, p
<1> QED
  BY <1>5, <1>6, <1>7, <1>8, <1>9

-----------------------------------------------------------------------------
(***************************************************************************)
(* The cost of jobs.                                                       *)
(***************************************************************************)
LEMMA WorksTyped ==
    ASSUME NEW prog \in Seq(Op)
    PROVE  Works(prog) \in [1..Len(prog) -> Nat]
<1> SUFFICES ASSUME NEW i \in 1..Len(prog), prog[i][1] = "Compute" PROVE prog[i][2] \in Nat
  BY DEF Works
<1> QED
  BY DurationTyped

\* The part done of the operation at hand.
under_way(u) ==
    IF compute_remaining[u] = 0 THEN 0 ELSE current_op(u)[2] - compute_remaining[u]

\* The CPU time of u is the work behind it and the part done of the one at hand.
CostAt(u) ==
    cpu_ticks[u] = Contribution(Works(program(u)), jobs_completed[u], pc[u]) + under_way(u)

LEMMA CostIsJobCost == JobCost <=> \A u \in Tasks : CostAt(u)
BY ExecutedIsContribution DEF JobCost, CostAt, under_way

LEMMA CostInit == Init => JobCost
<1> SUFFICES ASSUME Init, NEW u \in Tasks PROVE CostAt(u)
  BY CostIsJobCost
<1> DEFINE len == Len(program(u))
           c == Works(program(u))
<1>1. len \in Nat /\ c \in [1..len -> Nat]
  BY TypeInit, ProgramTyped, WorksTyped
<1>2. cpu_ticks[u] = 0 /\ compute_remaining[u] = 0 /\ jobs_completed[u] = 0 /\ pc[u] = 0
  BY DEF Init
<1> HIDE DEF c, len
<1>3. Contribution(c, 0, 0) = 0
  BY <1>1, ContributionNone
<1>4. CostAt(u) <=> cpu_ticks[u] = Contribution(c, jobs_completed[u], pc[u]) + under_way(u)
  BY DEF CostAt, c
<1> QED
  BY <1>2, <1>3, <1>4 DEF under_way

LEMMA CostStep ==
    TypeOK /\ Agreement /\ BlockedAtItsOperation /\ Standing /\ JobCost /\ [Next]_vars => JobCost'
<1> SUFFICES ASSUME TypeOK, Agreement, BlockedAtItsOperation, Standing, JobCost, [Next]_vars,
                    NEW u \in Tasks
             PROVE  CostAt(u)'
  BY CostIsJobCost DEF JobCost, CostAt, Executed, Contribution, under_way
<1> DEFINE c == Works(program(u))
           n == jobs_completed[u]
           p == pc[u]
<1>1. /\ program(u)' = program(u)
      /\ pc'[u] = pc[u] => AtEnd(u)' = AtEnd(u) /\ current_op(u)' = current_op(u)
  BY ProgramStays
<1>2. Works(program(u))' = c
  BY <1>1 DEF Works
<1>3. c \in [1..Len(program(u)) -> Nat]
  BY ProgramTyped, WorksTyped
<1>4. ~AtEnd(u) => c[p + 1] = IF current_op(u)[1] = "Compute" THEN current_op(u)[2] ELSE 0
  <2>1. p \in Nat /\ program(u) \in Seq(Op) /\ Len(program(u)) \in Nat
    BY TaskFieldsTyped, ProgramTyped
  <2>2. ~AtEnd(u) => p + 1 \in DOMAIN program(u)
    BY <2>1 DEF AtEnd
  <2> QED
    BY <2>2 DEF Works, current_op
<1> HIDE DEF c
<1>5. /\ Contribution(c, n, p) \in Nat
      /\ Rests(u) \/ Begins(u) \/ EndsIdly(u) =>
            Contribution(c, jobs_completed'[u], pc'[u]) = Contribution(c, n, p)
      /\ GoesPast(u) =>
            Contribution(c, jobs_completed'[u], pc'[u]) = Contribution(c, n, p) + c[p + 1]
      /\ DoesWork(u) /\ WorksOn(u) =>
            Contribution(c, jobs_completed'[u], pc'[u]) = Contribution(c, n, p)
      /\ DoesWork(u) /\ WorksOff(u) =>
            Contribution(c, jobs_completed'[u], pc'[u]) = Contribution(c, n, p) + c[p + 1]
  BY <1>3, ExecutedStep
<1>6. cpu_ticks[u] = Contribution(c, n, p) + under_way(u)
  BY CostIsJobCost DEF CostAt, c
<1>7. cpu_ticks[u] \in Nat /\ compute_remaining[u] \in Nat
  BY TaskFieldsTyped
<1>8. /\ ~job_active[u] => p = 0 /\ compute_remaining[u] = 0
      /\ compute_remaining[u] # 0 =>
            /\ ~AtEnd(u)
            /\ current_op(u)[1] = "Compute"
            /\ compute_remaining[u] < current_op(u)[2]
  BY DEF Standing, StandsAt
<1> SUFFICES cpu_ticks'[u] = Contribution(c, jobs_completed'[u], pc'[u]) + under_way(u)'
  BY <1>2 DEF CostAt
<1>9. CASE Rests(u)
  <2>1. under_way(u)' = under_way(u)
    BY <1>1, <1>9 DEF Rests, under_way
  <2> QED
    BY <1>5, <1>6, <1>9, <2>1 DEF Rests
<1>10. CASE Begins(u)
  BY <1>5, <1>6, <1>8, <1>10 DEF Begins, under_way
<1>11. CASE EndsIdly(u)
  BY <1>5, <1>6, <1>8, <1>11 DEF EndsIdly, under_way
<1>12. CASE GoesPast(u)
  <2>1. compute_remaining[u] = 0
    BY <1>7, <1>8, <1>12, DurationOfCurrent DEF GoesPast
  <2>2. c[p + 1] = 0
    BY <1>4, <1>12 DEF GoesPast
  <2> QED
    BY <1>5, <1>6, <1>12, <2>1, <2>2 DEF GoesPast, under_way
<1>13. CASE DoesWork(u)
  <2>1. ~AtEnd(u) /\ current_op(u)[1] = "Compute" /\ current_op(u)[2] \in Nat
        /\ cpu_ticks'[u] = cpu_ticks[u] + 1
    BY <1>13, DurationOfCurrent DEF DoesWork
  <2>2. under_way(u) = current_op(u)[2] - rest(u)
    BY <2>1 DEF under_way, rest
  <2>3. CASE WorksOn(u)
    <3>1. under_way(u)' = current_op(u)[2] - (rest(u) - 1) /\ rest(u) \in Nat
      BY <1>1, <1>7, <2>1, <2>3 DEF WorksOn, under_way, rest
    <3> QED
      BY <1>5, <1>6, <1>13, <2>1, <2>2, <2>3, <3>1
  <2>4. CASE WorksOff(u)
    <3>1. under_way(u)' = 0 /\ rest(u) = 1
      BY <2>4 DEF WorksOff, under_way
    <3> QED
      BY <1>4, <1>5, <1>6, <1>13, <2>1, <2>2, <2>4, <3>1
  <2> QED
    BY <1>13, <2>3, <2>4 DEF DoesWork
<1> QED
  BY <1>9, <1>10, <1>11, <1>12, <1>13, GoesOnStep DEF GoesOn

LEMMA StandingInvariant == Spec => []Standing
<1>1. TypeOK /\ Agreement /\ BlockedAtItsOperation /\ Standing /\ [Next]_vars => Standing'
  BY StandingStep
<1> QED
  BY <1>1, StandingInit, TypeCorrect, AgreementCorrect, BlockedInPlace, PTL DEF Spec

\* The CPU time charged to a task is what its program asked for: for any number
\* of jobs and any preemptions, waits, hand-overs and overruns.
THEOREM JobCostHolds == Spec => []JobCost
<1>1. TypeOK /\ Agreement /\ BlockedAtItsOperation /\ Standing /\ JobCost /\ [Next]_vars => JobCost'
  BY CostStep
<1> QED
  BY <1>1, CostInit, StandingInvariant, TypeCorrect, AgreementCorrect, BlockedInPlace, PTL DEF Spec

-----------------------------------------------------------------------------
(***************************************************************************)
(* One unit of work per tick.                                              *)
(***************************************************************************)
\* Between the tick and the end of its quantum the tick is still to be used.
TickToUse == IF mode = "tick" THEN 0 ELSE 1

\* Every tick up to now was used by one task or was idle.
UnitsUsed == SumFunction(cpu_ticks) + idle_ticks + TickToUse <= now

\* Only a Compute charges CPU time, and it ends the quantum.
LEMMA ChargeStep ==
    ASSUME TypeOK, Agreement, [Next]_vars
    PROVE  \/ cpu_ticks' = cpu_ticks
           \/ \E t \in Tasks : /\ cpu_ticks' = [cpu_ticks EXCEPT ![t] = @ + 1]
                              /\ mode = "quantum" /\ mode' = "tick"
                              /\ UNCHANGED <<now, idle_ticks>>
<1>1. CASE UNCHANGED computeVars
  BY <1>1 DEF computeVars
<1>2. CASE ServiceInterrupts
  BY <1>2 DEF ServiceInterrupts, on_tick, computeVars
<1>3. ASSUME NEW t \in Tasks, EndOfProgram(t) PROVE cpu_ticks' = cpu_ticks
  BY <1>3 DEF EndOfProgram
<1>4. ASSUME NEW t \in Tasks, Compute(t)
      PROVE  \/ cpu_ticks' = cpu_ticks
             \/ /\ cpu_ticks' = [cpu_ticks EXCEPT ![t] = @ + 1]
                /\ mode = "quantum" /\ mode' = "tick"
                /\ UNCHANGED <<now, idle_ticks>>
  BY <1>4 DEF Compute, Executing, computeVars, EndQuantum, complete_job, Block, quantumFrame,
     clockVars
<1>5. \/ UNCHANGED computeVars \/ ServiceInterrupts
      \/ \E t \in Tasks : EndOfProgram(t) \/ Compute(t)
  BY DEF Next, RunQuantum, Tick, Idle, Dispatch, Delay, Peripheral, SemWait, SemSignal, Lock,
     BlockOnMutex, Unlock, QueueSend, QueueRecv, Finished, vars, opVars
<1> QED
  BY <1>1, <1>2, <1>3, <1>4, <1>5

\* The clock, the idle ticks and the phase.
LEMMA ClockStep ==
    ASSUME [Next]_vars
    PROVE  \/ mode = "tick" /\ mode' # "tick" /\ now' = now + 1 /\ idle_ticks' = idle_ticks
           \/ mode # "tick" /\ mode' = "tick" /\ now' = now /\ idle_ticks' = idle_ticks + 1
           \/ /\ now' = now /\ idle_ticks' = idle_ticks
              /\ mode' = mode \/ mode # "tick"
<1>1. CASE UNCHANGED vars \/ Finished
  BY <1>1 DEF Finished, vars, clockVars, schedVars
<1>2. CASE Tick \/ ServiceInterrupts \/ Idle \/ \E t \in Tasks : Dispatch(t)
  BY <1>2 DEF Tick, ServiceInterrupts, Idle, Dispatch, clockVars
<1>3. ASSUME NEW t \in Tasks, RunQuantum(t)
      PROVE  now' = now /\ idle_ticks' = idle_ticks /\ mode # "tick"
  BY <1>3 DEF RunQuantum, EndOfProgram, Compute, Delay, Peripheral, SemWait, SemSignal, Lock,
     BlockOnMutex, Unlock, QueueSend, QueueRecv, Executing, quantumFrame, clockVars
<1> QED
  BY <1>1, <1>2, <1>3 DEF Next

\* The CPU time of all tasks is a natural number.
LEMMA SumOfTicks ==
    ASSUME TypeOK
    PROVE  /\ SumFunction(cpu_ticks) = SumFunctionOnSet(cpu_ticks, Tasks)
           /\ SumFunction(cpu_ticks) \in Nat
BY TaskFieldsTyped, TasksAssumption, SumNatural DEF SumFunction

LEMMA UnitsInit == Init => UnitsUsed
<1> SUFFICES ASSUME Init PROVE UnitsUsed
  OBVIOUS
<1> DEFINE none == [t \in Tasks |-> 0]
<1>1. \A t \in Tasks : none[t] = 0
  OBVIOUS
<1>2. SumFunction(cpu_ticks) = SumFunctionOnSet(none, Tasks)
  BY DEF Init, SumFunction
<1> HIDE DEF none
<1>3. SumFunctionOnSet(none, Tasks) = 0
  BY <1>1, TasksAssumption, SumOfZeros
<1> QED
  BY <1>2, <1>3 DEF Init, UnitsUsed, TickToUse

LEMMA UnitsStep == TypeOK /\ Agreement /\ UnitsUsed /\ [Next]_vars => UnitsUsed'
<1> SUFFICES ASSUME TypeOK, Agreement, UnitsUsed, [Next]_vars PROVE UnitsUsed'
  OBVIOUS
<1>1. /\ SumFunction(cpu_ticks) \in Nat /\ idle_ticks \in Nat /\ now \in Nat
      /\ SumFunction(cpu_ticks) + idle_ticks + TickToUse <= now
  BY SumOfTicks DEF TypeOK, ControlTypeOK, UnitsUsed
<1>2. CASE cpu_ticks' = cpu_ticks
  BY <1>1, <1>2, ClockStep DEF UnitsUsed, TickToUse
<1>3. ASSUME NEW t \in Tasks, cpu_ticks' = [cpu_ticks EXCEPT ![t] = @ + 1],
             mode = "quantum", mode' = "tick", now' = now, idle_ticks' = idle_ticks
      PROVE  UnitsUsed'
  <2>1. /\ DOMAIN cpu_ticks = Tasks /\ DOMAIN cpu_ticks' = Tasks
        /\ \A u \in Tasks : cpu_ticks[u] \in Int
        /\ cpu_ticks'[t] = cpu_ticks[t] + 1 /\ cpu_ticks'[t] \in Int
        /\ cpu_ticks'[t] - cpu_ticks[t] = 1
        /\ \A u \in Tasks \ {t} : cpu_ticks'[u] = cpu_ticks[u]
    BY <1>3, TaskFieldsTyped
  <2>2. SumFunctionOnSet(cpu_ticks', Tasks) =
           SumFunctionOnSet(cpu_ticks, Tasks) + (cpu_ticks'[t] - cpu_ticks[t])
    <3>1. IsFiniteSet(Tasks)
      BY TasksAssumption
    <3>2. \A u \in Tasks : cpu_ticks[u] \in Int /\ cpu_ticks'[u] \in Int
      BY <2>1
    <3>3. \A u \in Tasks : u # t => cpu_ticks'[u] = cpu_ticks[u]
      BY <2>1
    <3> QED
      BY <3>1, <3>2, <3>3, SumChanges
  <2>3. SumFunction(cpu_ticks)' = SumFunction(cpu_ticks) + 1
    BY <2>1, <2>2 DEF SumFunction
  <2> QED
    BY <1>1, <1>3, <2>3 DEF UnitsUsed, TickToUse
<1> QED
  BY <1>2, <1>3, ChargeStep

\* A tick gives at most one task at most one unit of work, and an idle tick
\* none: time charged and time idle never exceed the clock, for any number of
\* tasks.
THEOREM TicksNotOverspent == Spec => []OneUnitPerTick
<1>1. TypeOK /\ Agreement /\ UnitsUsed /\ [Next]_vars => UnitsUsed'
  BY UnitsStep
<1>2. TypeOK /\ UnitsUsed => OneUnitPerTick
  BY SumOfTicks DEF UnitsUsed, TickToUse, OneUnitPerTick, TypeOK, ControlTypeOK
<1> QED
  BY <1>1, <1>2, UnitsInit, TypeCorrect, AgreementCorrect, PTL DEF Spec

-----------------------------------------------------------------------------
(***************************************************************************)
(* Effects on the peripherals.                                             *)
(***************************************************************************)
\* The pins and the UART change only when a peripheral operation is executed.
LEMMA PortFrame ==
    ASSUME [Next]_vars
    PROVE  UNCHANGED portVars \/ \E t \in Tasks : Peripheral(t)
BY McuFrame DEF mcuVars, portVars, Tick, cycle, ServiceInterrupts, take_pending

\* The operations that write to a peripheral.
PeripheralOps == {"GpioSet", "GpioToggle", "Uart"}

\* The running task executes the peripheral operation it stands at.
LEMMA RunnerWrites ==
    ASSUME Next, mode = "quantum", ~AtEnd(running), current_op(running)[1] \in PeripheralOps
    PROVE  running \in Tasks /\ Peripheral(running)
<1>1. PICK t \in Tasks : RunQuantum(t)
  BY DEF Next, Tick, ServiceInterrupts, Idle, Dispatch, Finished
<1>2. t = running
  BY <1>1 DEF RunQuantum, EndOfProgram, Compute, Delay, Peripheral, Lock, BlockOnMutex,
     Unlock, SemWait, SemSignal, QueueSend, QueueRecv, Executing
<1>3. ~(EndOfProgram(t) \/ Compute(t) \/ Delay(t))
  BY <1>2 DEF EndOfProgram, Compute, Delay, PeripheralOps
<1>4. \A m \in Mutexes : ~(Lock(t, m) \/ BlockOnMutex(t, m) \/ Unlock(t, m))
  BY <1>2 DEF Lock, BlockOnMutex, Unlock, PeripheralOps
<1>5. \A s \in Semaphores : ~(SemWait(t, s) \/ SemSignal(t, s))
  BY <1>2 DEF SemWait, SemSignal, PeripheralOps
<1>6. \A q \in Queues : ~QueueSend(t, q)
  BY <1>2 DEF QueueSend, PeripheralOps
<1>7. \A q \in Queues : ~QueueRecv(t, q)
  BY <1>2 DEF QueueRecv, PeripheralOps
<1> QED
  BY <1>1, <1>2, <1>3, <1>4, <1>5, <1>6, <1>7 DEF RunQuantum

\* Nobody goes past a peripheral operation in a step that executes none: in
\* particular no waiter that is handed something.
LEMMA PastPeripheral ==
    ASSUME TypeOK, Agreement, BlockedAtItsOperation, [Next]_vars,
           NEW u \in Tasks, GoesPast(u), current_op(u)[1] \in PeripheralOps
    PROVE  \E t \in Tasks : Peripheral(t)
<1>1. ~AtEnd(u) /\ pc'[u] = pc[u] + 1 /\ pc[u] \in Nat
  BY TaskFieldsTyped DEF GoesPast
<1>2. Next
  BY <1>1 DEF vars
<1>3. ASSUME blocked_on[u] \notin {None, Sleep, WaitPeriod} PROVE FALSE
  <2>1. BlocksFor(u, blocked_on[u])
    BY <1>3 DEF BlockedAtItsOperation, BlocksFor
  <2> QED
    BY <2>1 DEF BlocksFor, PeripheralOps
<1>4. mode = "quantum" /\ running = u
  <2>1. \/ mode = "quantum" /\ running = u
        \/ \E m \in Mutexes : blocked_on[u] = <<"Mutex", m>>
        \/ \E s \in Semaphores : blocked_on[u] = <<"Semaphore", s>>
    BY <1>1, <1>2, WhoGoesOn
  <2> QED
    BY <1>3, <2>1, ReasonsDiffer
<1> QED
  BY <1>1, <1>2, <1>4, RunnerWrites

-----------------------------------------------------------------------------
\* What the tasks have contributed together, where amounts gives what each
\* operation of each program contributes.
Contributions(amounts, done, at) ==
    [u \in Tasks |-> Contribution(amounts[u], done[u], at[u])]

\* amounts gives a number to every operation, and 0 except to writes to
\* peripherals.
Effect(amounts) ==
    \A u \in Tasks :
        /\ amounts[u] \in [1..Len(program(u)) -> Nat]
        /\ \A i \in 1..Len(program(u)) :
              program(u)[i][1] \notin PeripheralOps => amounts[u][i] = 0

\* What an operation contributes is given by its place in the program.
LEMMA EffectAt ==
    ASSUME TypeOK, NEW amounts, Effect(amounts), NEW u \in Tasks, ~AtEnd(u)
    PROVE  /\ amounts[u][pc[u] + 1] \in Nat
           /\ current_op(u)[1] \notin PeripheralOps => amounts[u][pc[u] + 1] = 0
<1>1. pc[u] \in Nat /\ Len(program(u)) \in Nat
  BY TaskFieldsTyped, ProgramTyped
<1>2. pc[u] + 1 \in 1..Len(program(u))
  BY <1>1 DEF AtEnd
<1> QED
  BY <1>2 DEF Effect, current_op

\* In a step that executes no peripheral operation no contribution changes.
LEMMA NoEffect ==
    ASSUME TypeOK, Agreement, BlockedAtItsOperation, Standing, [Next]_vars,
           NEW amounts, Effect(amounts), ~\E t \in Tasks : Peripheral(t), NEW u \in Tasks
    PROVE  Contribution(amounts[u], jobs_completed'[u], pc'[u]) =
             Contribution(amounts[u], jobs_completed[u], pc[u])
<1> DEFINE c == amounts[u]
           before == Contribution(c, jobs_completed[u], pc[u])
           after == Contribution(c, jobs_completed'[u], pc'[u])
<1>1. c \in [1..Len(program(u)) -> Nat]
  BY DEF Effect
<1>2. ~AtEnd(u) /\ current_op(u)[1] \notin PeripheralOps => c[pc[u] + 1] = 0
  BY EffectAt
<1> HIDE DEF c
<1>3. /\ before \in Nat
      /\ Rests(u) \/ Begins(u) \/ EndsIdly(u) => after = before
      /\ GoesPast(u) => after = before + c[pc[u] + 1]
      /\ DoesWork(u) /\ WorksOn(u) => after = before
      /\ DoesWork(u) /\ WorksOff(u) => after = before + c[pc[u] + 1]
  BY <1>1, ExecutedStep
<1> HIDE DEF before, after
<1>4. CASE GoesPast(u)
  <2>1. ~AtEnd(u) /\ current_op(u)[1] \notin PeripheralOps
    BY <1>4, PastPeripheral DEF GoesPast
  <2>2. after = before + 0
    BY <1>2, <1>3, <1>4, <2>1
  <2>3. after = before
    BY <1>3, <2>2
  <2> QED
    BY <2>3 DEF after, before, c
<1>5. CASE DoesWork(u)
  <2>1. ~AtEnd(u) /\ current_op(u)[1] \notin PeripheralOps /\ (WorksOn(u) \/ WorksOff(u))
    BY <1>5 DEF DoesWork, PeripheralOps
  <2>2. after = before
    BY <1>2, <1>3, <1>5, <2>1
  <2> QED
    BY <2>2 DEF after, before, c
<1>6. CASE Rests(u) \/ Begins(u) \/ EndsIdly(u)
  <2>1. after = before
    BY <1>3, <1>6
  <2> QED
    BY <2>1 DEF after, before, c
<1> QED
  BY <1>4, <1>5, <1>6, GoesOnStep DEF GoesOn

\* A peripheral operation adds its own contribution.
LEMMA OneEffect ==
    ASSUME TypeOK, Agreement, BlockedAtItsOperation, Standing, NEW amounts, Effect(amounts),
           NEW t \in Tasks, Peripheral(t)
    PROVE  /\ Contribution(amounts[t], jobs_completed'[t], pc'[t]) =
                 Contribution(amounts[t], jobs_completed[t], pc[t]) + amounts[t][pc[t] + 1]
           /\ \A u \in Tasks : u # t =>
                 Contribution(amounts[u], jobs_completed'[u], pc'[u]) =
                   Contribution(amounts[u], jobs_completed[u], pc[u])
<1>1. /\ ~AtEnd(t) /\ pc' = [pc EXCEPT ![t] = @ + 1] /\ jobs_completed' = jobs_completed
      /\ pc \in [Tasks -> Nat]
  BY TaskFieldsTyped DEF Peripheral, Executing, Advance, opVars, jobVars
<1>2. /\ pc[t] \in Nat /\ Len(program(t)) \in Nat /\ jobs_completed[t] \in Nat
      /\ amounts[t] \in [1..Len(program(t)) -> Nat] /\ pc[t] < Len(program(t))
  BY <1>1, TaskFieldsTyped, ProgramTyped DEF Effect, AtEnd
<1>3. Contribution(amounts[t], jobs_completed[t], pc[t] + 1) =
        Contribution(amounts[t], jobs_completed[t], pc[t]) + amounts[t][pc[t] + 1]
  BY <1>2, ContributionGrows
<1> QED
  BY <1>1, <1>3

\* Together: a step adds to the sum what the peripheral operation it executes,
\* if any, contributes.
LEMMA SumStep ==
    ASSUME TypeOK, Agreement, BlockedAtItsOperation, Standing, [Next]_vars,
           NEW amounts, Effect(amounts)
    PROVE  LET before == SumFunction(Contributions(amounts, jobs_completed, pc))
               after == SumFunction(Contributions(amounts, jobs_completed', pc'))
           IN  /\ before \in Nat
               /\ (~\E t \in Tasks : Peripheral(t)) => after = before
               /\ \A t \in Tasks : Peripheral(t) => after = before + amounts[t][pc[t] + 1]
<1> DEFINE f == Contributions(amounts, jobs_completed, pc)
           g == Contributions(amounts, jobs_completed', pc')
<1>1. IsFiniteSet(Tasks)
  BY TasksAssumption
<1>2. \A u \in Tasks : f[u] \in Nat
  <2> SUFFICES ASSUME NEW u \in Tasks
               PROVE  Contribution(amounts[u], jobs_completed[u], pc[u]) \in Nat
    BY DEF Contributions
  <2> DEFINE c == amounts[u]
  <2>1. c \in [1..Len(program(u)) -> Nat]
    BY DEF Effect
  <2> HIDE DEF c
  <2>2. Contribution(c, jobs_completed[u], pc[u]) \in Nat
    BY <2>1, ExecutedStep
  <2> QED
    BY <2>2 DEF c
<1>3. /\ SumFunction(f) = SumFunctionOnSet(f, Tasks)
      /\ SumFunction(g) = SumFunctionOnSet(g, Tasks)
  BY DEF SumFunction, Contributions
<1>4. \A u \in Tasks : /\ f[u] = Contribution(amounts[u], jobs_completed[u], pc[u])
                      /\ g[u] = Contribution(amounts[u], jobs_completed'[u], pc'[u])
  BY DEF Contributions
<1> HIDE DEF f, g
<1>5. SumFunction(f) \in Nat
  BY <1>1, <1>2, <1>3, SumNatural
<1>6. ASSUME ~\E t \in Tasks : Peripheral(t) PROVE SumFunction(g) = SumFunction(f)
  <2>1. \A u \in Tasks : f[u] \in Int /\ g[u] = f[u]
    BY <1>2, <1>4, <1>6, NoEffect
  <2> QED
    BY <1>1, <1>3, <2>1, SumSame
<1>7. ASSUME NEW t \in Tasks, Peripheral(t)
      PROVE  SumFunction(g) = SumFunction(f) + amounts[t][pc[t] + 1]
  <2>1. ~AtEnd(t)
    BY <1>7 DEF Peripheral, Executing
  <2>2. amounts[t][pc[t] + 1] \in Nat
    BY <2>1, EffectAt
  <2>3. g[t] = f[t] + amounts[t][pc[t] + 1] /\ \A u \in Tasks : u # t => g[u] = f[u]
    BY <1>4, <1>7, OneEffect
  <2>4. \A u \in Tasks : f[u] \in Int /\ g[u] \in Int
    BY <1>2, <2>2, <2>3
  <2>5. SumFunctionOnSet(g, Tasks) = SumFunctionOnSet(f, Tasks) + (g[t] - f[t])
    <3>1. \A u \in Tasks : u # t => g[u] = f[u]
      BY <2>3
    <3> QED
      BY <1>1, <2>4, <3>1, SumChanges
  <2>6. g[t] - f[t] = amounts[t][pc[t] + 1]
    BY <1>2, <2>2, <2>3
  <2> QED
    BY <1>3, <2>5, <2>6
<1> QED
  BY <1>5, <1>6, <1>7 DEF f, g

\* The sum is zero at the start.
LEMMA SumAtStart ==
    ASSUME Init, NEW amounts, Effect(amounts)
    PROVE  SumFunction(Contributions(amounts, jobs_completed, pc)) = 0
<1> DEFINE f == Contributions(amounts, jobs_completed, pc)
<1>1. TypeOK
  BY TypeInit
<1>2. ASSUME NEW u \in Tasks PROVE f[u] = 0
  <2> DEFINE c == amounts[u]
  <2>1. c \in [1..Len(program(u)) -> Nat] /\ Len(program(u)) \in Nat
    BY <1>1, ProgramTyped DEF Effect
  <2>2. f[u] = Contribution(c, 0, 0)
    BY DEF Contributions, Init
  <2> HIDE DEF c, f
  <2> QED
    BY <2>1, <2>2, ContributionNone
<1>3. SumFunction(f) = SumFunctionOnSet(f, Tasks)
  BY DEF SumFunction, Contributions
<1> HIDE DEF f
<1>4. SumFunctionOnSet(f, Tasks) = 0
  BY <1>2, TasksAssumption, SumOfZeros
<1> QED
  BY <1>3, <1>4 DEF f

-----------------------------------------------------------------------------
\* The texts and toggles of every program.
AllWrites == [u \in Tasks |-> Writes(program(u))]
AllToggles(p) == [u \in Tasks |-> Toggles(program(u), p)]

\* Both are 0 except at a peripheral operation.
LEMMA WritesAreEffects == TypeOK => Effect(AllWrites)
<1> SUFFICES ASSUME TypeOK, NEW u \in Tasks
             PROVE  /\ Writes(program(u)) \in [1..Len(program(u)) -> Nat]
                    /\ \A i \in 1..Len(program(u)) :
                          program(u)[i][1] \notin PeripheralOps => Writes(program(u))[i] = 0
  BY DEF Effect, AllWrites
<1> QED
  BY ProgramTyped DEF Writes, PeripheralOps

LEMMA TogglesAreEffects == TypeOK => \A p : Effect(AllToggles(p))
<1> SUFFICES ASSUME TypeOK, NEW p, NEW u \in Tasks
             PROVE  /\ Toggles(program(u), p) \in [1..Len(program(u)) -> Nat]
                    /\ \A i \in 1..Len(program(u)) :
                          program(u)[i][1] \notin PeripheralOps => Toggles(program(u), p)[i] = 0
  BY DEF Effect, AllToggles
<1> QED
  BY ProgramTyped DEF Toggles, PeripheralOps

\* The texts written and the toggles of p so far, by the programs.
WrittenSoFar == SumFunction(Contributions(AllWrites, jobs_completed, pc))
ToggledSoFar(p) == SumFunction(Contributions(AllToggles(p), jobs_completed, pc))

\* No program sets a pin: the level of a pin is then told by its toggles.
NoPinIsSet == \A t \in Tasks : \A i \in 1..Len(program(t)) : program(t)[i][1] # "GpioSet"

\* EffectsExactlyOnce with the sums under these names.
EffectsAgree ==
    /\ Len(tx) = WrittenSoFar
    /\ NoPinIsSet => \A p \in Pins : pins[p] <=> ToggledSoFar(p) % 2 = 1

\* The property, with these names.
LEMMA EffectsNamed == EffectsExactlyOnce <=> EffectsAgree
<1>1. [t \in Tasks |-> Executed(t, Writes(program(t)))] =
        Contributions(AllWrites, jobs_completed, pc)
  BY ExecutedIsContribution DEF Contributions, AllWrites
<1>2. ASSUME NEW p
      PROVE  [t \in Tasks |-> Executed(t, Toggles(program(t), p))] =
               Contributions(AllToggles(p), jobs_completed, pc)
  BY ExecutedIsContribution DEF Contributions, AllToggles
<1> QED
  BY <1>1, <1>2 DEF EffectsExactlyOnce, EffectsAgree, WrittenSoFar, ToggledSoFar, NoPinIsSet

\* No text and no toggle at the start, and none executed.
LEMMA EffectsInit == Init => EffectsExactlyOnce
<1> SUFFICES ASSUME Init PROVE EffectsAgree
  BY EffectsNamed
<1>1. WrittenSoFar = 0 /\ \A p : ToggledSoFar(p) = 0
  BY TypeInit, WritesAreEffects, TogglesAreEffects, SumAtStart DEF WrittenSoFar, ToggledSoFar
<1> QED
  BY <1>1 DEF EffectsAgree, Init, McuInit

\* A write adds one to the peripheral and to the sum; nothing else changes either.
LEMMA EffectsStep ==
    TypeOK /\ Agreement /\ BlockedAtItsOperation /\ Standing /\ EffectsExactlyOnce /\ [Next]_vars
        => EffectsExactlyOnce'
<1> SUFFICES ASSUME TypeOK, Agreement, BlockedAtItsOperation, Standing, EffectsAgree, [Next]_vars
             PROVE  EffectsAgree'
  BY EffectsNamed DEF EffectsExactlyOnce, EffectsAgree, WrittenSoFar, ToggledSoFar,
     NoPinIsSet, Executed, Contributions, Contribution, AllWrites, AllToggles
<1>1. setup' = setup
  BY ProgramStays, McuFrame
<1>2. /\ WrittenSoFar' = SumFunction(Contributions(AllWrites, jobs_completed', pc'))
      /\ \A p : ToggledSoFar(p)' = SumFunction(Contributions(AllToggles(p), jobs_completed', pc'))
      /\ NoPinIsSet' = NoPinIsSet
  BY <1>1 DEF WrittenSoFar, ToggledSoFar, Contributions, AllWrites, AllToggles, NoPinIsSet, program
<1>3. /\ WrittenSoFar \in Nat
      /\ (~\E t \in Tasks : Peripheral(t)) => WrittenSoFar' = WrittenSoFar
      /\ \A t \in Tasks : Peripheral(t) =>
            WrittenSoFar' = WrittenSoFar + AllWrites[t][pc[t] + 1]
  <2> DEFINE c == AllWrites
  <2>1. Effect(c)
    BY WritesAreEffects
  <2> HIDE DEF c
  <2>2. LET before == SumFunction(Contributions(c, jobs_completed, pc))
            after == SumFunction(Contributions(c, jobs_completed', pc'))
        IN  /\ before \in Nat
            /\ (~\E t \in Tasks : Peripheral(t)) => after = before
            /\ \A t \in Tasks : Peripheral(t) => after = before + c[t][pc[t] + 1]
    BY <2>1, SumStep
  <2> QED
    BY <1>2, <2>2 DEF c, WrittenSoFar
<1>4. ASSUME NEW p
      PROVE  /\ ToggledSoFar(p) \in Nat
             /\ (~\E t \in Tasks : Peripheral(t)) => ToggledSoFar(p)' = ToggledSoFar(p)
             /\ \A t \in Tasks : Peripheral(t) =>
                   ToggledSoFar(p)' = ToggledSoFar(p) + AllToggles(p)[t][pc[t] + 1]
  <2> DEFINE c == AllToggles(p)
  <2>1. Effect(c)
    BY TogglesAreEffects
  <2> HIDE DEF c
  <2>2. LET before == SumFunction(Contributions(c, jobs_completed, pc))
            after == SumFunction(Contributions(c, jobs_completed', pc'))
        IN  /\ before \in Nat
            /\ (~\E t \in Tasks : Peripheral(t)) => after = before
            /\ \A t \in Tasks : Peripheral(t) => after = before + c[t][pc[t] + 1]
    BY <2>1, SumStep
  <2> QED
    BY <1>2, <2>2 DEF c, ToggledSoFar
<1>5. CASE ~\E t \in Tasks : Peripheral(t)
  <2>1. pins' = pins /\ tx' = tx
    BY <1>5, PortFrame DEF portVars
  <2> QED
    BY <1>2, <1>3, <1>4, <1>5, <2>1 DEF EffectsAgree, Pins
<1>6. ASSUME NEW t \in Tasks, Peripheral(t) PROVE EffectsAgree'
  <2> DEFINE op == current_op(t)
  <2>1. /\ pc[t] \in Nat /\ pc[t] + 1 \in 1..Len(program(t)) /\ op \in Op
        /\ op = program(t)[pc[t] + 1] /\ DOMAIN program(t) = 1..Len(program(t))
    <3>1. ~AtEnd(t) /\ pc[t] \in Nat /\ Len(program(t)) \in Nat /\ setup \in Setup
      BY <1>6, TaskFieldsTyped, ProgramTyped DEF Peripheral, Executing, TypeOK
    <3> QED
      BY <3>1, CurrentOpTyped, ProgramTyped DEF AtEnd, current_op
  <2>2. /\ AllWrites[t][pc[t] + 1] = IF op[1] = "Uart" THEN 1 ELSE 0
        /\ \A p : AllToggles(p)[t][pc[t] + 1] = IF op = <<"GpioToggle", p>> THEN 1 ELSE 0
    BY <2>1 DEF AllWrites, AllToggles, Writes, Toggles
  <2>3. /\ tx \in Seq(Texts) /\ pins \in [Pins -> BOOLEAN]
        /\ \/ op[1] = "GpioSet" /\ gpio_set(op[2], op[3])
           \/ op[1] = "GpioToggle" /\ gpio_toggle(op[2])
           \/ op[1] = "Uart" /\ uart_write(op[2])
    BY <1>6 DEF Peripheral, TypeOK, McuTypeOK
  <2>4. op[1] = "Uart" => op[2] \in Texts
    BY <2>1, ArgumentsTyped
  <2>5. op[1] = "GpioToggle" => op = <<"GpioToggle", op[2]>>
    BY <2>1 DEF Op
  <2> HIDE DEF op
  <2>6. /\ op[1] = "Uart" => Len(tx') = Len(tx) + 1
        /\ op[1] # "Uart" => tx' = tx
    BY <2>3, <2>4 DEF uart_write, gpio_set, gpio_toggle
  <2>7. Len(tx') = WrittenSoFar'
    BY <1>3, <1>6, <2>2, <2>6 DEF EffectsAgree
  <2>8. ASSUME NoPinIsSet, NEW p \in Pins PROVE pins'[p] <=> ToggledSoFar(p)' % 2 = 1
    <3>1. op[1] # "GpioSet"
      BY <2>1, <2>8 DEF NoPinIsSet
    <3>2. (pins[p] <=> ToggledSoFar(p) % 2 = 1) /\ ToggledSoFar(p) \in Nat
      BY <1>4, <2>8 DEF EffectsAgree
    <3>3. ToggledSoFar(p)' = ToggledSoFar(p) + IF op = <<"GpioToggle", p>> THEN 1 ELSE 0
      BY <1>4, <1>6, <2>2
    <3>4. CASE op = <<"GpioToggle", p>>
      <4>1. pins'[p] = ~pins[p]
        BY <2>3, <2>8, <3>4 DEF gpio_toggle
      <4>2. ToggledSoFar(p)' = ToggledSoFar(p) + 1
        BY <3>3, <3>4
      <4>3. \A n \in Nat : (n + 1) % 2 = 1 <=> n % 2 # 1
        OBVIOUS
      <4>4. ToggledSoFar(p)' % 2 = 1 <=> ToggledSoFar(p) % 2 # 1
        BY <3>2, <4>2, <4>3
      <4>5. pins'[p] <=> ~pins[p]
        BY <4>1
      <4> QED
        BY <3>2, <4>4, <4>5
    <3>5. CASE op # <<"GpioToggle", p>>
      <4>1. pins'[p] = pins[p]
        BY <2>3, <2>5, <2>8, <3>1, <3>5 DEF gpio_toggle, uart_write
      <4>2. ToggledSoFar(p)' = ToggledSoFar(p)
        BY <3>2, <3>3, <3>5
      <4> QED
        BY <3>2, <4>1, <4>2
    <3> QED
      BY <3>4, <3>5
  <2> QED
    BY <1>2, <2>7, <2>8 DEF EffectsAgree, Pins
<1> QED
  BY <1>5, <1>6

\* A text leaves the UART, and a pin toggles, once for each time a program says
\* so: for any number of tasks and jobs and any waits and hand-overs.
THEOREM EffectsAreExact == Spec => []EffectsExactlyOnce
<1>1. TypeOK /\ Agreement /\ BlockedAtItsOperation /\ Standing /\ EffectsExactlyOnce /\ [Next]_vars
        => EffectsExactlyOnce'
  BY EffectsStep
<1> QED
  BY <1>1, EffectsInit, StandingInvariant, TypeCorrect, AgreementCorrect, BlockedInPlace, PTL
     DEF Spec
=============================================================================
