----------------------------- MODULE TimeProofs -----------------------------
(***************************************************************************)
(* Theorems about time: jobs and releases, the timer and its interrupt,    *)
(* the kernel as a processor that serves the most urgent job, and what the *)
(* schedulability analysis tells of it, for every value of the constants.  *)
(***************************************************************************)
EXTENDS WorkProofs, KernelSchedulability

-----------------------------------------------------------------------------
(***************************************************************************)
(* The steps that change jobs, one task at a time.                         *)
(***************************************************************************)
\* A task's job is released, ends, or stays.
JobReleased(t) ==
    /\ ~job_active[t] /\ next_release[t] # Never
    /\ job_active'[t] = TRUE
    /\ jobs_released'[t] = jobs_released[t] + 1
    /\ jobs_completed'[t] = jobs_completed[t]
    /\ next_release'[t] = IF period(t) = Never THEN Never ELSE next_release[t] + period(t)

JobEnded(t) ==
    /\ job_active[t]
    /\ job_active'[t] = FALSE
    /\ jobs_released'[t] = jobs_released[t]
    /\ jobs_completed'[t] = jobs_completed[t] + 1
    /\ next_release'[t] = IF period(t) = Never THEN Never ELSE next_release[t]

JobStays(t) ==
    /\ job_active'[t] = job_active[t]
    /\ jobs_released'[t] = jobs_released[t]
    /\ jobs_completed'[t] = jobs_completed[t]
    /\ next_release'[t] = next_release[t]

\* Only the running task's job ends, and only it changes then.
LEMMA CompletionSteps ==
    ASSUME TypeOK, Agreement, NEW t \in Tasks, mode = "quantum", running = t,
           complete_job(t), NEW u \in Tasks
    PROVE  JobEnded(u) \/ JobStays(u)
<1> USE DEF TypeOK, JobTypeOK
<1>1. /\ jobs_completed' = [jobs_completed EXCEPT ![t] = @ + 1]
      /\ job_active' = [job_active EXCEPT ![t] = FALSE]
      /\ jobs_released' = jobs_released
      /\ next_release' = IF period(t) = Never THEN [next_release EXCEPT ![t] = Never]
                                              ELSE next_release
  BY DEF complete_job
<1>2. CASE u = t
  <2>1. job_active[t]
    BY ActiveTasks
  <2>2. /\ jobs_completed'[u] = jobs_completed[u] + 1
        /\ job_active'[u] = FALSE
        /\ next_release'[u] = IF period(u) = Never THEN Never ELSE next_release[u]
    BY <1>1, <1>2
  <2> QED
    BY <1>1, <1>2, <2>1, <2>2 DEF JobEnded
<1>3. CASE u # t
  BY <1>1, <1>3 DEF JobStays
<1> QED
  BY <1>2, <1>3

LEMMA JobSteps ==
    ASSUME TypeOK, Agreement, [Next]_vars, NEW u \in Tasks
    PROVE  JobReleased(u) \/ JobEnded(u) \/ JobStays(u)
<1>1. CASE UNCHANGED jobVars
  BY <1>1 DEF jobVars, JobStays
<1>2. CASE ServiceInterrupts
  <2>1. CASE "Timer" \notin pending
    BY <1>2, <2>1 DEF ServiceInterrupts, jobVars, JobStays
  <2>2. CASE "Timer" \in pending
    <3>1. /\ job_active'[u] = (u \in Due \/ job_active[u])
          /\ jobs_released'[u] = IF u \in Due THEN jobs_released[u] + 1 ELSE jobs_released[u]
          /\ next_release'[u] = IF u \in Due THEN following_release(u) ELSE next_release[u]
          /\ jobs_completed' = jobs_completed
      BY <1>2, <2>2 DEF ServiceInterrupts, on_tick
    <3>2. CASE u \in Due
      <4>1. ~job_active[u] /\ next_release[u] # Never
        BY <3>2 DEF Due
      <4> QED
        BY <3>1, <3>2, <4>1 DEF JobReleased, following_release
    <3>3. CASE u \notin Due
      <4>1. job_active'[u] = job_active[u]
        BY <3>1, <3>3 DEF TypeOK, JobTypeOK
      <4> QED
        BY <3>1, <3>3, <4>1 DEF JobStays
    <3> QED
      BY <3>2, <3>3
  <2> QED
    BY <2>1, <2>2
<1>3. ASSUME NEW t \in Tasks, EndOfProgram(t) \/ Compute(t)
      PROVE  JobEnded(u) \/ JobStays(u)
  <2>1. \/ UNCHANGED jobVars
        \/ mode = "quantum" /\ running = t /\ complete_job(t)
    BY <1>3 DEF EndOfProgram, Compute, Executing
  <2> QED
    BY <2>1, CompletionSteps DEF jobVars, JobStays
<1> QED
  BY <1>1, <1>2, <1>3, JobFrame

-----------------------------------------------------------------------------
(***************************************************************************)
(* Jobs are accounted for.                                                 *)
(***************************************************************************)
LEMMA LifecycleInit == Init => JobLifecycle
<1> SUFFICES ASSUME Init PROVE JobLifecycle
  OBVIOUS
<1>1. setup \in Setup
  BY SetupsAssumption DEF Init
<1>2. ActivityAgrees
  BY AgreementInit DEF Agreement
<1>3. \A t \in Tasks : next_release[t] # Never
  BY <1>1, NeverAssumption DEF Init, Setup
<1> QED
  BY <1>2, <1>3 DEF Init, JobLifecycle

LEMMA LifecycleStep ==
    TypeOK /\ Agreement /\ JobLifecycle /\ [Next]_vars => JobLifecycle'
<1> SUFFICES ASSUME TypeOK, Agreement, JobLifecycle, [Next]_vars PROVE JobLifecycle'
  OBVIOUS
<1>1. ActivityAgrees'
  BY AgreementStep DEF Agreement
<1>2. ASSUME NEW t \in Tasks
      PROVE  (/\ jobs_released[t] = jobs_completed[t] + (IF job_active[t] THEN 1 ELSE 0)
              /\ period(t) = Never => /\ jobs_released[t] <= 1
                                      /\ next_release[t] = Never <=> jobs_released[t] = 1)'
  <2>1. period(t)' = period(t)
    BY McuFrame DEF period
  <2>2. /\ jobs_released[t] \in Nat /\ jobs_completed[t] \in Nat
        /\ job_active[t] \in BOOLEAN
    BY DEF TypeOK, JobTypeOK
  <2>3. /\ jobs_released[t] = jobs_completed[t] + (IF job_active[t] THEN 1 ELSE 0)
        /\ period(t) = Never => /\ jobs_released[t] <= 1
                                /\ next_release[t] = Never <=> jobs_released[t] = 1
    BY DEF JobLifecycle
  <2>4. CASE JobReleased(t)
    BY <2>1, <2>2, <2>3, <2>4 DEF JobReleased
  <2>5. CASE JobEnded(t)
    BY <2>1, <2>2, <2>3, <2>5 DEF JobEnded
  <2>6. CASE JobStays(t)
    BY <2>1, <2>3, <2>6 DEF JobStays
  <2> QED
    BY <2>4, <2>5, <2>6, JobSteps
<1> QED
  BY <1>1, <1>2 DEF JobLifecycle

\* Every job released is completed or active, a task without a job is parked
\* and waits for nothing else, and a one-shot task gets one job: whatever the
\* programs do, for any number of tasks and however long they overrun.
THEOREM JobsAccounted == Spec => []JobLifecycle
<1>1. TypeOK /\ Agreement /\ JobLifecycle /\ [Next]_vars => JobLifecycle'
  BY LifecycleStep
<1> QED
  BY <1>1, LifecycleInit, TypeCorrect, AgreementCorrect, PTL DEF Spec

-----------------------------------------------------------------------------
(***************************************************************************)
(* Releases stay in phase.                                                 *)
(***************************************************************************)
LEMMA OnePeriodMore ==
    ASSUME NEW f \in Nat, NEW p \in Nat, NEW n \in Nat
    PROVE  f + p * n + p = f + p * (n + 1)
OBVIOUS

LEMMA PhaseInit == Init => ReleasesKeepPhase
<1> SUFFICES ASSUME Init, NEW t \in Tasks, period(t) # Never
             PROVE  next_release[t] = setup.release_phase[t] + period(t) * jobs_released[t]
  BY DEF ReleasesKeepPhase
<1>1. setup \in Setup
  BY SetupsAssumption DEF Init
<1>2. setup.release_phase[t] \in Nat /\ period(t) \in Nat
  BY <1>1 DEF Setup, period
<1>3. next_release[t] = setup.release_phase[t] /\ jobs_released[t] = 0
  BY DEF Init
<1>4. period(t) * 0 = 0
  BY <1>2
<1> QED
  BY <1>2, <1>3, <1>4

LEMMA PhaseStep ==
    TypeOK /\ Agreement /\ ReleasesKeepPhase /\ [Next]_vars => ReleasesKeepPhase'
<1> SUFFICES ASSUME TypeOK, Agreement, ReleasesKeepPhase, [Next]_vars,
                    NEW t \in Tasks, period(t)' # Never
             PROVE  (next_release[t] = setup.release_phase[t] + period(t) * jobs_released[t])'
  BY DEF ReleasesKeepPhase
<1>1. setup' = setup /\ period(t)' = period(t) /\ period(t) # Never
  BY McuFrame DEF period
<1>2. /\ setup.release_phase[t] \in Nat /\ period(t) \in Nat /\ jobs_released[t] \in Nat
  BY <1>1 DEF TypeOK, JobTypeOK, Setup, period
<1>3. next_release[t] = setup.release_phase[t] + period(t) * jobs_released[t]
  BY <1>1 DEF ReleasesKeepPhase
<1>4. CASE JobReleased(t)
  <2>1. /\ jobs_released'[t] = jobs_released[t] + 1
        /\ next_release'[t] = next_release[t] + period(t)
    BY <1>1, <1>4 DEF JobReleased
  <2> QED
    BY <1>1, <1>2, <1>3, <2>1, OnePeriodMore
<1>5. CASE JobEnded(t) \/ JobStays(t)
  BY <1>1, <1>3, <1>5 DEF JobEnded, JobStays
<1> QED
  BY <1>4, <1>5, JobSteps

\* The releases of a periodic task stay on the grid of its first one, one
\* period per job, for any period and phase and however late a job is released.
THEOREM ReleasesInPhase == Spec => []ReleasesKeepPhase
<1>1. TypeOK /\ Agreement /\ ReleasesKeepPhase /\ [Next]_vars => ReleasesKeepPhase'
  BY PhaseStep
<1> QED
  BY <1>1, PhaseInit, TypeCorrect, AgreementCorrect, PTL DEF Spec

-----------------------------------------------------------------------------
(***************************************************************************)
(* The timer.                                                              *)
(***************************************************************************)

\* The countdown, the interrupts raised and the time agree, and the latch holds
\* at most the timer's interrupt, between a tick and its service.
TimerAgrees ==
    /\ now + counter = reload * (fired + 1)
    /\ pending = IF mode = "isr" /\ counter = reload THEN {"Timer"} ELSE {}
    /\ fired = serviced + (IF pending = {} THEN 0 ELSE 1)

LEMMA TimerInit == Init => TimerAgrees
<1> SUFFICES ASSUME Init PROVE TimerAgrees
  OBVIOUS
<1>1. setup \in Setup
  BY SetupsAssumption DEF Init
<1>2. reload \in Nat
  BY <1>1 DEF Setup, reload, AtLeast
<1>3. now = 0 /\ counter = reload /\ fired = 0 /\ serviced = 0 /\ pending = {} /\ mode = "tick"
  BY DEF Init, McuInit
<1>4. 0 + reload = reload * (0 + 1)
  BY <1>2
<1> QED
  BY <1>3, <1>4 DEF TimerAgrees

\* A new countdown is one more multiple of reload.
LEMMA NextMultiple ==
    ASSUME NEW r \in Nat, NEW f \in Nat
    PROVE  r * (f + 1) + r = r * (f + 1 + 1)
OBVIOUS

LEMMA TimerStep == TypeOK /\ TimerAgrees /\ [Next]_vars => TimerAgrees'
<1> SUFFICES ASSUME TypeOK, TimerAgrees, [Next]_vars PROVE TimerAgrees'
  OBVIOUS
<1>1. /\ counter \in 1..reload /\ reload \in Nat
      /\ fired \in Nat /\ serviced \in Nat /\ now \in Nat
  BY DEF TypeOK, McuTypeOK, ControlTypeOK, Setup, reload, AtLeast
<1>2. reload' = reload
  BY McuFrame DEF reload
<1>3. CASE Tick
  <2>1. /\ mode = "tick" /\ mode' = "isr" /\ now' = now + 1
        /\ serviced' = serviced /\ pending = {}
    BY <1>3 DEF Tick, cycle, TimerAgrees
  <2>2. CASE counter = 1
    <3>1. counter' = reload /\ fired' = fired + 1 /\ pending' = {"Timer"}
      BY <1>3, <2>1, <2>2 DEF Tick, cycle, raise
    <3>2. now' = reload * (fired + 1)
      BY <1>1, <2>1, <2>2 DEF TimerAgrees
    <3>3. reload * (fired + 1) + reload = reload * (fired' + 1)
      BY <1>1, <3>1, NextMultiple
    <3>4. now' + counter' = reload' * (fired' + 1)
      BY <1>2, <3>1, <3>2, <3>3
    <3>5. fired' = serviced' + 1
      BY <1>1, <2>1, <3>1 DEF TimerAgrees
    <3> QED
      BY <1>2, <2>1, <3>1, <3>4, <3>5 DEF TimerAgrees
  <2>3. CASE counter # 1
    <3>1. counter' = counter - 1 /\ fired' = fired /\ pending' = {}
      BY <1>3, <2>1, <2>3 DEF Tick, cycle
    <3>2. counter' # reload
      BY <1>1, <3>1
    <3>3. now' + counter' = reload' * (fired' + 1)
      BY <1>1, <1>2, <2>1, <3>1 DEF TimerAgrees
    <3> QED
      BY <1>2, <2>1, <3>1, <3>2, <3>3 DEF TimerAgrees
  <2> QED
    BY <2>2, <2>3
<1>4. CASE ServiceInterrupts
  <2>1. /\ mode = "isr" /\ mode' = "dispatch" /\ now' = now
        /\ counter' = counter /\ fired' = fired /\ pending' = {}
        /\ serviced' = serviced + Cardinality(pending)
    BY <1>4 DEF ServiceInterrupts, take_pending, clockVars
  <2>2. Cardinality(pending) = IF pending = {} THEN 0 ELSE 1
    BY FS_EmptySet, FS_Singleton DEF TimerAgrees
  <2>3. fired' = serviced'
    BY <1>1, <2>1, <2>2 DEF TimerAgrees
  <2> QED
    BY <1>1, <1>2, <2>1, <2>3 DEF TimerAgrees
<1>5. CASE UNCHANGED <<timerVars, now>> /\ (UNCHANGED mode \/ (mode # "isr" /\ mode' # "isr"))
  BY <1>2, <1>5 DEF timerVars, TimerAgrees
<1>6. CASE UNCHANGED vars \/ Idle \/ Finished \/ \E t \in Tasks : Dispatch(t)
  BY <1>5, <1>6 DEF Idle, Finished, Dispatch, vars, clockVars, schedVars, mcuVars, timerVars
<1>7. ASSUME NEW t \in Tasks, RunQuantum(t) PROVE TimerAgrees'
  <2>1. UNCHANGED <<timerVars, now>> /\ mode = "quantum"
    BY <1>7 DEF RunQuantum, EndOfProgram, Compute, Delay, Peripheral, SemWait, SemSignal, Lock,
       BlockOnMutex, Unlock, QueueSend, QueueRecv, Executing, quantumFrame, clockVars
  <2>2. mode' \in {"quantum", "tick"}
    BY <1>7, <2>1 DEF RunQuantum, EndOfProgram, Compute, Delay, Peripheral, SemWait, SemSignal,
       Lock, BlockOnMutex, Unlock, QueueSend, QueueRecv, Continue, EndQuantum, Block, Wake,
       complete_job, schedVars
  <2> QED
    BY <1>5, <2>1, <2>2
<1> QED
  BY <1>3, <1>4, <1>6, <1>7 DEF Next

LEMMA TimerAgreement == Spec => []TimerAgrees
<1>1. TypeOK /\ TimerAgrees /\ [Next]_vars => TimerAgrees'
  BY TimerStep
<1> QED
  BY <1>1, TimerInit, TypeCorrect, PTL DEF Spec

\* The quotient and the remainder are what they should be.
LEMMA QuotientAndRemainder ==
    ASSUME NEW n \in Nat, NEW r \in Nat \ {0}, NEW f \in Nat, NEW c \in 1..r,
           n + c = r * (f + 1)
    PROVE  n \div r = f /\ (n % r = 0 <=> c = r)
<1>1. n = r * f + (r - c)
  <2>1. r * (f + 1) = r * f + r
    OBVIOUS
  <2>2. r * f \in Nat
    OBVIOUS
  <2> QED
    BY <2>1, <2>2
<1>2. n \div r = f
  BY <1>1
<1>3. n % r = r - c
  BY <1>1
<1> QED
  BY <1>2, <1>3

\* The timer raises its interrupt on every reload-th tick, for any reload and
\* however long the run, and the latch loses none of them.
THEOREM TimerCorrect == Spec => []TimerExact
<1>1. TypeOK /\ TimerAgrees => TimerExact
  <2> SUFFICES ASSUME TypeOK, TimerAgrees PROVE TimerExact
    OBVIOUS
  <2>1. /\ counter \in 1..reload /\ reload \in Nat \ {0}
        /\ fired \in Nat /\ serviced \in Nat /\ now \in Nat
    BY DEF TypeOK, McuTypeOK, ControlTypeOK, Setup, reload, AtLeast
  <2>2. fired = now \div reload
    BY <2>1, QuotientAndRemainder DEF TimerAgrees
  <2>3. Cardinality(pending) = IF pending = {} THEN 0 ELSE 1
    BY FS_EmptySet, FS_Singleton DEF TimerAgrees
  <2>4. fired = serviced + Cardinality(pending)
    BY <2>3 DEF TimerAgrees
  <2> QED
    BY <2>2, <2>4 DEF TimerExact
<1> QED
  BY <1>1, TypeCorrect, TimerAgreement, PTL

-----------------------------------------------------------------------------
(***************************************************************************)
(* What the tick interrupt looks after.                                    *)
(***************************************************************************)

\* A job that is not flagged has not been counted as missed.
MissesCounted ==
    \A t \in Tasks :
        /\ deadlines_missed[t] <= jobs_released[t]
        /\ job_active[t] /\ ~missed_current[t] => deadlines_missed[t] < jobs_released[t]

\* Nothing is left for the interrupt to do.
NothingOverdue ==
    \A t \in Tasks :
        /\ ~(~job_active[t] /\ next_release[t] # Never /\ now >= next_release[t])
        /\ ~(blocked_on[t] = Sleep /\ now >= wake_at[t])
        /\ job_active[t] /\ deadline[t] # Never /\ now >= deadline[t] => missed_current[t]

\* The interrupt is served at the ticks reload divides.
TicksServiced == mode = "dispatch" /\ now % reload = 0 => NothingOverdue

\* The interrupt leaves nothing undone.
LEMMA InterruptServices ==
    ASSUME TypeOK, Agreement, ServiceInterrupts, "Timer" \in pending
    PROVE  NothingOverdue'
<1> SUFFICES ASSUME NEW t \in Tasks
             PROVE  /\ ~(~job_active'[t] /\ next_release'[t] # Never /\ now' >= next_release'[t])
                    /\ ~(blocked_on'[t] = Sleep /\ now' >= wake_at'[t])
                    /\ job_active'[t] /\ deadline'[t] # Never /\ now' >= deadline'[t]
                         => missed_current'[t]
  BY DEF NothingOverdue
<1>1. now' = now /\ wake_at' = wake_at
  BY DEF ServiceInterrupts, clockVars
<1>2. /\ blocked_on'[t] = IF t \in Due \union Awake THEN None ELSE blocked_on[t]
      /\ job_active'[t] = (t \in Due \/ job_active[t])
      /\ next_release'[t] = IF t \in Due THEN following_release(t) ELSE next_release[t]
      /\ missed_current'[t] = (t \in Overdue \/ (t \notin Due /\ missed_current[t]))
  BY DEF ServiceInterrupts, on_tick
<1>3. ~(~job_active'[t] /\ next_release'[t] # Never /\ now' >= next_release'[t])
  BY <1>1, <1>2 DEF Due
<1>4. ~(blocked_on'[t] = Sleep /\ now' >= wake_at'[t])
  <2>1. blocked_on[t] = Sleep => state[t] = "Blocked"
    BY ReasonsDiffer DEF Agreement, SingleRunner
  <2> QED
    BY <1>1, <1>2, <2>1, ReasonsDiffer DEF Awake
<1>5. job_active'[t] /\ deadline'[t] # Never /\ now' >= deadline'[t] => missed_current'[t]
  BY <1>1, <1>2 DEF Overdue
<1> QED
  BY <1>3, <1>4, <1>5

LEMMA ServicedStep ==
    TypeOK /\ Agreement /\ TimerAgrees /\ TicksServiced /\ [Next]_vars => TicksServiced'
<1> SUFFICES ASSUME TypeOK, Agreement, TimerAgrees, TicksServiced, [Next]_vars,
                    mode' = "dispatch", (now % reload = 0)'
             PROVE  NothingOverdue'
  BY DEF TicksServiced
<1>1. /\ counter \in 1..reload /\ reload \in Nat \ {0} /\ fired \in Nat /\ now \in Nat
  BY DEF TypeOK, McuTypeOK, ControlTypeOK, Setup, reload, AtLeast
<1>2. reload' = reload
  BY McuFrame DEF reload
<1>3. CASE ServiceInterrupts
  <2>1. mode = "isr" /\ now' = now
    BY <1>3 DEF ServiceInterrupts, clockVars
  <2>2. now + counter = reload * (fired + 1) /\ now % reload = 0
    BY <1>2, <2>1 DEF TimerAgrees
  <2>3. counter = reload
    BY <1>1, <2>2, QuotientAndRemainder
  <2>4. "Timer" \in pending
    BY <2>1, <2>3 DEF TimerAgrees
  <2> QED
    BY <1>3, <2>4, InterruptServices
<1>4. CASE UNCHANGED vars
  BY <1>2, <1>4 DEF vars, schedVars, clockVars, jobVars, TicksServiced, NothingOverdue
<1>5. ASSUME Tick \/ Idle \/ Finished \/ (\E t \in Tasks : Dispatch(t)) PROVE NothingOverdue'
  BY <1>2, <1>5 DEF Tick, Idle, Finished, Dispatch, vars, schedVars
<1>6. ASSUME NEW t \in Tasks, RunQuantum(t) PROVE FALSE
  BY <1>6 DEF RunQuantum, EndOfProgram, Compute, Delay, Peripheral, SemWait, SemSignal, Lock,
     BlockOnMutex, Unlock, QueueSend, QueueRecv, Executing, Continue, EndQuantum, Block, Wake,
     complete_job, schedVars
<1> QED
  BY <1>3, <1>4, <1>5, <1>6 DEF Next

\* A miss is counted for a job that was not flagged before, and flags it.
LEMMA MissesStep == TypeOK /\ MissesCounted /\ [Next]_vars => MissesCounted'
<1> SUFFICES ASSUME TypeOK, MissesCounted, [Next]_vars, NEW t \in Tasks
             PROVE  (/\ deadlines_missed[t] <= jobs_released[t]
                     /\ job_active[t] /\ ~missed_current[t]
                           => deadlines_missed[t] < jobs_released[t])'
  BY DEF MissesCounted
<1>1. /\ deadlines_missed[t] \in Nat /\ jobs_released[t] \in Nat
      /\ job_active \in [Tasks -> BOOLEAN] /\ missed_current[t] \in BOOLEAN
  BY DEF TypeOK, JobTypeOK
<1>2. /\ deadlines_missed[t] <= jobs_released[t]
      /\ job_active[t] /\ ~missed_current[t] => deadlines_missed[t] < jobs_released[t]
  BY DEF MissesCounted
<1>3. CASE UNCHANGED jobVars
  BY <1>2, <1>3 DEF jobVars
<1>4. CASE ServiceInterrupts /\ "Timer" \in pending
  <2>1. /\ job_active'[t] = (t \in Due \/ job_active[t])
        /\ jobs_released'[t] = IF t \in Due THEN jobs_released[t] + 1 ELSE jobs_released[t]
        /\ missed_current'[t] = (t \in Overdue \/ (t \notin Due /\ missed_current[t]))
        /\ deadlines_missed'[t] = IF t \in Overdue THEN deadlines_missed[t] + 1
                                                  ELSE deadlines_missed[t]
    BY <1>4 DEF ServiceInterrupts, on_tick
  <2>2. t \in Overdue => t \in Due \/ (job_active[t] /\ ~missed_current[t])
    BY <2>1 DEF Overdue
  <2> QED
    BY <1>1, <1>2, <2>1, <2>2
<1>5. ASSUME NEW u \in Tasks, complete_job(u)
      PROVE  (/\ deadlines_missed[t] <= jobs_released[t]
              /\ job_active[t] /\ ~missed_current[t]
                    => deadlines_missed[t] < jobs_released[t])'
  <2>1. /\ deadlines_missed' = deadlines_missed /\ jobs_released' = jobs_released
        /\ missed_current' = missed_current
        /\ job_active' = [job_active EXCEPT ![u] = FALSE]
    BY <1>5 DEF complete_job
  <2>2. job_active'[t] => job_active[t]
    BY <1>1, <2>1
  <2> QED
    BY <1>2, <2>1, <2>2
<1> QED
  BY <1>3, <1>4, <1>5, JobFrame DEF ServiceInterrupts, EndOfProgram, Compute

LEMMA ServicesInit == Init => TicksServiced /\ MissesCounted
BY DEF Init, TicksServiced, MissesCounted

\* After every tick interrupt no job is due and not released, no sleeper has
\* slept too long and every job at its deadline is flagged, and each job counts
\* as missed at most once: for any reload, any deadlines and any load.
THEOREM InterruptCorrect == Spec => []TickServicesAll
<1>1. TypeOK /\ Agreement /\ TimerAgrees /\ TicksServiced /\ [Next]_vars => TicksServiced'
  BY ServicedStep
<1>2. TypeOK /\ MissesCounted /\ [Next]_vars => MissesCounted'
  BY MissesStep
<1>3. TicksServiced /\ MissesCounted => TickServicesAll
  BY DEF TicksServiced, MissesCounted, NothingOverdue, TickServicesAll
<1> QED
  BY <1>1, <1>2, <1>3, ServicesInit, TypeCorrect, AgreementCorrect, TimerAgreement, PTL
     DEF Spec

-----------------------------------------------------------------------------
(***************************************************************************)
(* The kernel implements the processor.                                    *)
(***************************************************************************)

\* Of tasks that only compute nobody waits for an object or is boosted, a job
\* never stands at the end of its program, a one-shot task that has had no job
\* waits for its phase, and a job is flagged exactly when its deadline was
\* reached by an interrupt that has been served.
Plain(u) ==
    /\ blocked_on[u] \in {None, WaitPeriod}
    /\ eff_priority[u] = base_priority(u)
    /\ job_active[u] => ~AtEnd(u)
    /\ period(u) = Never /\ jobs_released[u] = 0 => next_release[u] = setup.release_phase[u]
    /\ job_active[u] /\ deadline[u] # Never =>
          (missed_current[u] <=> reload * serviced >= deadline[u])

\* Every task is plain.
AllPlain == \A u \in Tasks : Plain(u)

\* The task that runs is one of those pick chooses from.
RunsThePick == mode = "quantum" => running \in pick

\* A task that only computes stands at a Compute; at the last of them there is
\* work to do.
LEMMA ComputesOnly ==
    ASSUME TypeOK, OnlyComputes, NEW u \in Tasks
    PROVE  /\ Len(program(u)) \in Nat \ {0} /\ pc[u] \in Nat
           /\ ~AtEnd(u) => current_op(u)[1] = "Compute" /\ current_op(u)[2] \in Nat
           /\ pc[u] + 1 = Len(program(u)) => ~AtEnd(u) /\ current_op(u)[2] > 0
<1>1. program(u) \in Seq(Op) /\ Len(program(u)) \in Nat /\ pc[u] \in Nat
  BY ProgramTyped, TaskFieldsTyped
<1>2. program(u) # <<>>
  BY DEF OnlyComputes
<1>3. Len(program(u)) # 0
  BY <1>1, <1>2
<1>4. ~AtEnd(u) => pc[u] + 1 \in DOMAIN program(u)
  BY <1>1 DEF AtEnd
<1>5. ~AtEnd(u) => current_op(u)[1] = "Compute"
  BY <1>4 DEF OnlyComputes, current_op
<1>6. pc[u] + 1 = Len(program(u)) => ~AtEnd(u) /\ current_op(u)[2] > 0
  BY <1>1 DEF OnlyComputes, current_op, AtEnd
<1> QED
  BY <1>1, <1>3, <1>5, <1>6, DurationOfCurrent

\* The steps such tasks take.
LEMMA ComputeSteps ==
    ASSUME TypeOK, Agreement, OnlyComputes, AllPlain, [Next]_vars
    PROVE  \/ UNCHANGED vars
           \/ Tick \/ ServiceInterrupts \/ Idle
           \/ \E t \in Tasks : Dispatch(t) \/ Compute(t)
<1>1. ASSUME NEW t \in Tasks, RunQuantum(t) PROVE Compute(t)
  <2>1. mode = "quantum" /\ running = t
    BY <1>1 DEF RunQuantum, EndOfProgram, Compute, Delay, Peripheral, SemWait, SemSignal, Lock,
       BlockOnMutex, Unlock, QueueSend, QueueRecv, Executing
  <2>2. ~AtEnd(t)
    BY <2>1, ActiveTasks DEF AllPlain, Plain
  <2>3. current_op(t)[1] = "Compute"
    BY <2>2, ComputesOnly
  <2>4. ~(EndOfProgram(t) \/ Delay(t) \/ Peripheral(t))
    BY <2>2, <2>3 DEF EndOfProgram, Delay, Peripheral
  <2>5. \A m \in Mutexes : ~(Lock(t, m) \/ BlockOnMutex(t, m) \/ Unlock(t, m))
    BY <2>3 DEF Lock, BlockOnMutex, Unlock
  <2>6. \A s \in Semaphores : ~(SemWait(t, s) \/ SemSignal(t, s))
    BY <2>3 DEF SemWait, SemSignal
  <2>7. \A q \in Queues : ~QueueSend(t, q)
    BY <2>3 DEF QueueSend
  <2>8. \A q \in Queues : ~QueueRecv(t, q)
    BY <2>3 DEF QueueRecv
  <2> QED
    BY <1>1, <2>4, <2>5, <2>6, <2>7, <2>8 DEF RunQuantum
<1> QED
  BY <1>1 DEF Next, Finished

\* What a Compute does: it takes no time, or does a unit of work and goes on,
\* ends its operation, or ends its job.
NoTime(t) ==
    /\ rest(t) = 0
    /\ pc' = [pc EXCEPT ![t] = @ + 1]
    /\ UNCHANGED <<schedVars, compute_remaining, jobVars>>

\* It does a unit of work and stays at its operation, or goes past it.
SomeTime(t) ==
    /\ mode' = "tick" /\ UNCHANGED <<state, blocked_on, running, jobVars>>
    /\ \/ /\ rest(t) > 1
          /\ compute_remaining' = [compute_remaining EXCEPT ![t] = rest(t) - 1]
          /\ pc' = pc
       \/ /\ rest(t) = 1 /\ pc[t] + 1 < Len(program(t))
          /\ compute_remaining' = [compute_remaining EXCEPT ![t] = 0]
          /\ pc' = [pc EXCEPT ![t] = @ + 1]

\* It does the last unit of its job.
LastTime(t) ==
    /\ rest(t) = 1 /\ pc[t] + 1 >= Len(program(t))
    /\ complete_job(t)

\* One of the three it is.
LEMMA ComputeCases ==
    ASSUME NEW t \in Tasks, Compute(t)
    PROVE  /\ mode = "quantum" /\ running = t /\ ~AtEnd(t) /\ current_op(t)[1] = "Compute"
           /\ NoTime(t) \/ SomeTime(t) \/ LastTime(t)
           /\ UNCHANGED <<setup, now, serviced, eff_priority>>
BY DEF Compute, Executing, rest, NoTime, SomeTime, LastTime, Continue, EndQuantum, Advance,
   computeVars, quantumFrame, clockVars, timerVars, lockVars

-----------------------------------------------------------------------------
\* At the start no task has a job.
LEMMA PlainInit == Init => AllPlain /\ RunsThePick
<1>1. Init => RunsThePick
  BY DEF Init, RunsThePick
<1>2. ASSUME Init, NEW u \in Tasks PROVE Plain(u)
  BY <1>2 DEF Init, Plain
<1> QED
  BY <1>1, <1>2 DEF AllPlain

\* The types of the times of a task.
LEMMA TimesTyped ==
    ASSUME TypeOK, NEW u \in Tasks
    PROVE  /\ now \in Nat /\ serviced \in Nat /\ fired \in Nat /\ reload \in Nat \ {0}
           /\ jobs_released[u] \in Nat /\ deadline[u] \in Nat \union {Never}
           /\ period(u) \in Nat \union {Never}
           /\ job_active[u] \in BOOLEAN /\ missed_current[u] \in BOOLEAN
<1>1. now \in Nat /\ serviced \in Nat /\ fired \in Nat /\ setup \in Setup
  BY DEF TypeOK, McuTypeOK, ControlTypeOK
<1>2. reload \in Nat \ {0} /\ period(u) \in Nat \union {Never}
  BY <1>1 DEF Setup, reload, AtLeast, period
<1>3. /\ jobs_released[u] \in Nat /\ deadline[u] \in Nat \union {Never}
      /\ job_active[u] \in BOOLEAN /\ missed_current[u] \in BOOLEAN
  BY DEF TypeOK, JobTypeOK
<1> QED
  BY <1>1, <1>2, <1>3

\* An interrupt of the timer is served a reload after the one before it.
LEMMA TickServed ==
    ASSUME TypeOK, TimerAgrees, ServiceInterrupts, "Timer" \in pending
    PROVE  /\ serviced' = serviced + 1 /\ reload * serviced \in Nat
           /\ now = reload * serviced + reload
           /\ reload' * serviced' = now
<1>1. now \in Nat /\ serviced \in Nat /\ fired \in Nat /\ reload \in Nat \ {0}
  BY DEF TypeOK, McuTypeOK, ControlTypeOK, Setup, reload, AtLeast
<1>2. pending = {"Timer"} /\ counter = reload /\ mode = "isr"
  BY DEF TimerAgrees, ServiceInterrupts
<1>3. serviced' = serviced + 1 /\ reload' = reload
  BY <1>2, FS_Singleton DEF ServiceInterrupts, take_pending, reload
<1>4. now + reload = reload * (fired + 1) /\ fired = serviced + 1
  BY <1>2 DEF TimerAgrees
<1>5. reload * (serviced + 1) + reload = reload * (serviced + 1 + 1)
  BY <1>1, NextMultiple
<1>6. reload * (serviced + 1) = reload * serviced + reload /\ reload * serviced \in Nat
  BY <1>1
<1> HIDE DEF reload
<1>7. now = reload * (serviced + 1)
  BY <1>1, <1>4, <1>5, <1>6
<1> QED
  BY <1>3, <1>6, <1>7

\* The interrupt releases jobs and flags those at their deadline.
LEMMA PlainByIsr ==
    ASSUME TypeOK, Agreement, TimerAgrees, OnlyComputes, AllPlain, ServiceInterrupts,
           NEW u \in Tasks
    PROVE  Plain(u)'
<1>1. Plain(u)
  BY DEF AllPlain
<1>2. /\ setup' = setup /\ now' = now /\ eff_priority' = eff_priority
      /\ serviced' = serviced + Cardinality(pending) /\ mode = "isr"
  BY DEF ServiceInterrupts, take_pending, lockVars, clockVars
<1>3. base_priority(u)' = base_priority(u) /\ period(u)' = period(u) /\ reload' = reload
      /\ program(u)' = program(u)
  BY <1>2 DEF base_priority, period, reload, program
<1>4. CASE "Timer" \notin pending
  <2>1. pending = {}
    BY <1>4 DEF TimerAgrees
  <2>2. serviced' = serviced
    BY <1>2, <2>1, FS_EmptySet DEF TypeOK, McuTypeOK
  <2>3. UNCHANGED <<blocked_on, pc, jobVars>>
    BY <1>4 DEF ServiceInterrupts
  <2> QED
    BY <1>1, <1>2, <1>3, <2>2, <2>3 DEF Plain, jobVars, AtEnd
<1>5. CASE "Timer" \in pending
  <2>1. /\ blocked_on'[u] = IF u \in Due \union Awake THEN None ELSE blocked_on[u]
        /\ pc'[u] = IF u \in Due THEN 0 ELSE pc[u]
        /\ job_active'[u] = (u \in Due \/ job_active[u])
        /\ jobs_released'[u] = IF u \in Due THEN jobs_released[u] + 1 ELSE jobs_released[u]
        /\ deadline'[u] = IF u \notin Due THEN deadline[u]
                          ELSE IF period(u) = Never THEN Never ELSE now + period(u)
        /\ next_release'[u] = IF u \in Due THEN following_release(u) ELSE next_release[u]
        /\ missed_current'[u] = (u \in Overdue \/ (u \notin Due /\ missed_current[u]))
    BY <1>5 DEF ServiceInterrupts, on_tick
  <2>2. /\ now \in Nat /\ jobs_released[u] \in Nat /\ deadline[u] \in Nat \union {Never}
        /\ serviced \in Nat /\ reload \in Nat \ {0} /\ fired \in Nat
        /\ period(u) \in Nat \union {Never} /\ Len(program(u)) \in Nat \ {0}
        /\ job_active[u] \in BOOLEAN /\ missed_current[u] \in BOOLEAN
    BY ComputesOnly, TimesTyped
  <2>3. serviced' = serviced + 1 /\ now = reload * serviced + reload
        /\ reload * serviced \in Nat /\ reload' * serviced' = now
    BY <1>3, <1>5, TickServed
  <2>4. blocked_on'[u] \in {None, WaitPeriod} /\ eff_priority'[u] = base_priority(u)'
    BY <1>1, <1>2, <1>3, <2>1 DEF Plain
  <2>5. job_active'[u] => ~AtEnd(u)'
    BY <1>1, <1>3, <2>1, <2>2 DEF Plain, AtEnd
  <2>6. period(u)' = Never /\ jobs_released'[u] = 0 => next_release'[u] = setup'.release_phase[u]
    BY <1>1, <1>2, <1>3, <2>1, <2>2 DEF Plain
  <2>7. job_active'[u] /\ deadline'[u] # Never
          => (missed_current'[u] <=> reload' * serviced' >= deadline'[u])
    <3> SUFFICES ASSUME job_active'[u], deadline'[u] # Never
                 PROVE  missed_current'[u] <=> now >= deadline'[u]
      BY <1>3, <2>3
    <3>1. u \in Overdue <=> (u \in Due \/ ~missed_current[u]) /\ now >= deadline'[u]
      BY DEF Overdue
    <3>2. CASE u \in Due
      <4>1. period(u) \in Nat \ {0} /\ deadline'[u] = now + period(u)
        BY <2>1, <2>2, <3>2 DEF OnlyComputes
      <4> QED
        BY <2>1, <2>2, <3>1, <3>2, <4>1
    <3>3. CASE u \notin Due
      <4>1. deadline'[u] = deadline[u] /\ job_active[u] /\ deadline[u] \in Nat
        BY <2>1, <2>2, <3>3
      <4>2. missed_current[u] <=> reload * serviced >= deadline[u]
        BY <1>1, <3>3, <4>1 DEF Plain
      <4>4. missed_current[u] => now >= deadline[u]
        BY <2>2, <2>3, <4>1, <4>2
      <4> QED
        BY <2>1, <3>1, <3>3, <4>1, <4>4
    <3> QED
      BY <3>2, <3>3
  <2> QED
    BY <2>4, <2>5, <2>6, <2>7 DEF Plain
<1> QED
  BY <1>4, <1>5

\* A Compute changes the job of its task only.
LEMMA PlainByCompute ==
    ASSUME TypeOK, Agreement, JobLifecycle, OnlyComputes, AllPlain, NEW t \in Tasks, Compute(t),
           NEW u \in Tasks
    PROVE  Plain(u)'
<1>1. Plain(u)
  BY DEF AllPlain
<1>2. /\ mode = "quantum" /\ running = t /\ ~AtEnd(t) /\ current_op(t)[1] = "Compute"
      /\ NoTime(t) \/ SomeTime(t) \/ LastTime(t)
      /\ UNCHANGED <<setup, now, serviced, eff_priority>>
  BY ComputeCases
<1>3. /\ base_priority(u)' = base_priority(u) /\ period(u)' = period(u) /\ reload' = reload
      /\ program(u)' = program(u)
  BY <1>2 DEF base_priority, period, reload, program
<1>4. /\ Len(program(u)) \in Nat \ {0} /\ pc \in [Tasks -> Nat]
      /\ pc[u] + 1 = Len(program(u)) => current_op(u)[2] > 0
      /\ compute_remaining[u] \in Nat
  BY ComputesOnly, TaskFieldsTyped
<1>5. CASE NoTime(t)
  <2>1. UNCHANGED <<blocked_on, jobVars>> /\ rest(t) = 0 /\ pc' = [pc EXCEPT ![t] = @ + 1]
    BY <1>5 DEF NoTime, schedVars
  <2>2. job_active[u] => ~AtEnd(u)'
    <3>1. CASE u = t
      <4>1. pc[u] + 1 # Len(program(u))
        BY <1>4, <2>1, <3>1 DEF rest
      <4> QED
        BY <1>2, <1>3, <1>4, <2>1, <3>1, <4>1 DEF AtEnd
    <3>2. CASE u # t
      BY <1>1, <1>3, <1>4, <2>1, <3>2 DEF Plain, AtEnd
    <3> QED
      BY <3>1, <3>2
  <2> QED
    BY <1>1, <1>2, <1>3, <2>1, <2>2 DEF Plain, jobVars
<1>6. CASE SomeTime(t)
  <2>1. UNCHANGED <<blocked_on, jobVars>>
    BY <1>6 DEF SomeTime
  <2>2. job_active[u] => ~AtEnd(u)'
    BY <1>1, <1>3, <1>4, <1>6 DEF Plain, SomeTime, AtEnd
  <2> QED
    BY <1>1, <1>2, <1>3, <2>1, <2>2 DEF Plain, jobVars
<1>7. CASE LastTime(t)
  <2>1. /\ job_active' = [job_active EXCEPT ![t] = FALSE]
        /\ pc' = [pc EXCEPT ![t] = 0]
        /\ UNCHANGED <<deadline, missed_current, jobs_released>>
        /\ blocked_on' = [blocked_on EXCEPT ![t] = WaitPeriod] \/ blocked_on' = blocked_on
        /\ next_release' = [next_release EXCEPT ![t] = Never] \/ next_release' = next_release
    BY <1>7 DEF LastTime, complete_job, Block
  <2>2. /\ job_active \in [Tasks -> BOOLEAN] /\ blocked_on \in [Tasks -> BlockReason]
        /\ next_release \in [Tasks -> Nat \union {Never}]
        /\ jobs_released[u] \in Nat /\ jobs_completed[u] \in Nat
    BY DEF TypeOK, TaskTypeOK, JobTypeOK
  <2>3. CASE u = t
    <3>1. job_active[u] /\ jobs_released[u] # 0
      BY <1>2, <2>2, <2>3, ActiveTasks DEF JobLifecycle
    <3>2. blocked_on'[u] \in {None, WaitPeriod}
      BY <1>1, <2>1, <2>2, <2>3 DEF Plain
    <3>3. ~job_active'[u] /\ jobs_released'[u] # 0
      BY <2>1, <2>2, <2>3, <3>1
    <3> QED
      BY <1>1, <1>2, <1>3, <3>2, <3>3 DEF Plain
  <2>4. CASE u # t
    <3>1. /\ blocked_on'[u] = blocked_on[u] /\ job_active'[u] = job_active[u]
          /\ next_release'[u] = next_release[u] /\ pc'[u] = pc[u]
      BY <1>4, <2>1, <2>2, <2>4
    <3> QED
      BY <1>1, <1>2, <1>3, <2>1, <3>1 DEF Plain, AtEnd
  <2> QED
    BY <2>3, <2>4
<1> QED
  BY <1>2, <1>5, <1>6, <1>7

\* Among tasks that only compute those with a job are schedulable, with their
\* base priorities.
LEMMA RunnableAreActive ==
    ASSUME TypeOK, Agreement, AllPlain
    PROVE  /\ Runnable = {u \in Tasks : job_active[u]}
           /\ eff_priority = setup.base_priority
<1>1. ASSUME NEW u \in Tasks PROVE state[u] \in {"Ready", "Running"} <=> job_active[u]
  <2>1. state[u] \in TaskState /\ blocked_on[u] \in {None, WaitPeriod}
    BY DEF TypeOK, TaskTypeOK, AllPlain, Plain
  <2>2. blocked_on[u] # None <=> state[u] = "Blocked"
    BY DEF Agreement, SingleRunner
  <2>3. job_active[u] <=> state[u] # "Suspended" /\ blocked_on[u] # WaitPeriod
    BY DEF Agreement, ActivityAgrees
  <2>4. None # WaitPeriod
    BY ReasonsDiffer
  <2> QED
    BY <2>1, <2>2, <2>3, <2>4 DEF TaskState
<1>2. /\ eff_priority \in [Tasks -> Priority] /\ setup.base_priority \in [Tasks -> Priority]
      /\ \A u \in Tasks : eff_priority[u] = setup.base_priority[u]
  BY DEF TypeOK, PriorityTypeOK, Setup, AllPlain, Plain, base_priority
<1>3. eff_priority = setup.base_priority
  BY <1>2
<1> QED
  BY <1>1, <1>3 DEF Runnable

\* Together.
LEMMA PlainStep ==
    /\ TypeOK /\ Agreement /\ JobLifecycle /\ TimerAgrees /\ OnlyComputes
    /\ AllPlain /\ RunsThePick /\ [Next]_vars
    => AllPlain' /\ RunsThePick'
<1> SUFFICES ASSUME TypeOK, Agreement, JobLifecycle, TimerAgrees, OnlyComputes,
                    AllPlain, RunsThePick, [Next]_vars
             PROVE  AllPlain' /\ RunsThePick'
  OBVIOUS
<1>1. setup' = setup
  BY McuFrame
<1>2. ASSUME UNCHANGED vars \/ Tick \/ Idle \/ \E t \in Tasks : Dispatch(t)
      PROVE  AllPlain'
  <2>1. UNCHANGED <<setup, blocked_on, eff_priority, jobVars, pc, serviced>>
    BY <1>2 DEF vars, Tick, cycle, Idle, Dispatch, schedVars, lockVars, mcuVars
  <2> QED
    BY <2>1 DEF AllPlain, Plain, jobVars, base_priority, period, reload, AtEnd, program
<1>3. AllPlain'
  BY <1>2, ComputeSteps, PlainByIsr, PlainByCompute DEF AllPlain
<1>4. ASSUME NEW t \in Tasks, Dispatch(t) PROVE running' \in pick'
  <2>1. /\ t \in pick /\ eff_priority' = eff_priority /\ running' = t
        /\ state' = [u \in Tasks |-> IF u = t THEN "Running"
                                     ELSE IF u \in Preempted(t) THEN "Ready" ELSE state[u]]
    BY <1>4 DEF Dispatch, lockVars
  <2>2. \A u \in Preempted(t) : state[u] = "Running"
    BY DEF Preempted
  <2>3. t \in Runnable
    BY <2>1, BestSubset DEF pick
  <2>4. Runnable' = Runnable
    BY <2>1, <2>2, <2>3 DEF Runnable
  <2> QED
    BY <2>1, <2>4 DEF pick, Best
<1>5. ASSUME NEW t \in Tasks, Compute(t), mode' = "quantum" PROVE running' \in pick'
  <2>1. mode = "quantum" /\ eff_priority' = eff_priority /\ running = t
    BY <1>5, ComputeCases
  <2>2. NoTime(t)
    BY <1>5, ComputeCases DEF SomeTime, LastTime, complete_job, Block
  <2>3. UNCHANGED <<state, running>>
    BY <2>2 DEF NoTime, schedVars
  <2> QED
    BY <2>1, <2>3 DEF RunsThePick, pick, Runnable, Best
<1>6. ASSUME UNCHANGED vars PROVE RunsThePick'
  BY <1>6 DEF vars, schedVars, lockVars, RunsThePick, pick, Runnable, Best
<1>7. ASSUME Tick \/ ServiceInterrupts \/ Idle PROVE RunsThePick'
  BY <1>7 DEF Tick, ServiceInterrupts, Idle, RunsThePick
<1>8. RunsThePick'
  BY <1>4, <1>5, <1>6, <1>7, ComputeSteps DEF RunsThePick
<1> QED
  BY <1>3, <1>8

\* A longer prefix sums to at least as much.
LEMMA PrefixSums ==
    ASSUME NEW len \in Nat, NEW c \in [1..len -> Nat], NEW p \in Nat, NEW q \in Nat,
           p <= q, q <= len
    PROVE  /\ SumFunctionOnSet(c, 1..p) \in Nat /\ SumFunctionOnSet(c, 1..q) \in Nat
           /\ SumFunctionOnSet(c, 1..p) <= SumFunctionOnSet(c, 1..q)
<1> DEFINE W(n) == SumFunctionOnSet(c, 1..n)
           T == {n \in Nat : p <= n /\ n <= len => W(p) <= W(n)}
<1>1. ASSUME NEW n \in Nat, n <= len PROVE W(n) \in Nat
  <2> DEFINE S == 1..n
  <2>1. IsFiniteSet(S)
    BY <1>1, FS_Interval
  <2>3. \A x \in S : c[x] \in Nat
    BY <1>1
  <2> HIDE DEF S
  <2>2. SumFunctionOnSet(c, S) \in Nat
    BY <2>1, <2>3, SumNatural
  <2> QED
    BY <2>2 DEF S
<1>2. 0 \in T
  <2>1. p <= 0 => p = 0 /\ W(0) \in Nat
    BY <1>1
  <2> HIDE DEF W
  <2> QED
    BY <2>1
<1>3. ASSUME NEW n \in Nat, n \in T PROVE n + 1 \in T
  <2> SUFFICES ASSUME p <= n + 1, n + 1 <= len PROVE W(p) <= W(n + 1)
    OBVIOUS
  <2>1. \A i \in 1..n+1 : c[i] \in Int
    OBVIOUS
  <2>2. W(n + 1) = W(n) + c[n + 1]
    BY <2>1, SumUpTo
  <2>3. W(p) \in Nat /\ W(n) \in Nat /\ W(n + 1) \in Nat /\ c[n + 1] \in Nat
    BY <1>1
  <2> HIDE DEF W
  <2>4. CASE p = n + 1
    BY <2>3, <2>4
  <2>5. CASE p <= n
    BY <1>3, <2>2, <2>3, <2>5
  <2> QED
    BY <2>4, <2>5
<1>4. q \in T
  <2> HIDE DEF T
  <2> QED
    BY <1>2, <1>3, NaturalInduction
<1> QED
  BY <1>1, <1>4

\* The work before the position of u, and the work of its whole program.
behind(u) == SumFunctionOnSet(Works(program(u)), 1..pc[u])
\* The work of a whole job.
budget(u) == compute_budget(program(u))

\* It is a natural number.
LEMMA BudgetTyped ==
    ASSUME TypeOK, NEW u \in Tasks
    PROVE  /\ Works(program(u)) \in [1..Len(program(u)) -> Nat]
           /\ budget(u) = SumFunctionOnSet(Works(program(u)), 1..Len(program(u)))
           /\ budget(u) \in Nat
<1> DEFINE c == Works(program(u))
           len == Len(program(u))
<1>1. c \in [1..len -> Nat] /\ len \in Nat
  BY ProgramTyped, WorksTyped
<1>2. budget(u) = SumFunctionOnSet(c, DOMAIN c)
  BY DEF budget, compute_budget, SumFunction
<1> HIDE DEF c, len
<1>3. budget(u) = SumFunctionOnSet(c, 1..len)
  BY <1>1, <1>2
<1>4. SumFunctionOnSet(c, 1..len) \in Nat
  BY <1>1, PrefixSums
<1> QED
  BY <1>1, <1>3, <1>4 DEF c, len

\* Past one more operation there is as much more behind; at the last operation
\* of a program that ends with work there is as much left as that asks for, and
\* before it more than the operation at hand asks for.
LEMMA BehindFacts ==
    ASSUME TypeOK, OnlyComputes, NEW u \in Tasks, ~AtEnd(u)
    PROVE  /\ behind(u) \in Nat
           /\ SumFunctionOnSet(Works(program(u)), 1..pc[u] + 1) = behind(u) + current_op(u)[2]
           /\ pc[u] + 1 = Len(program(u)) => budget(u) = behind(u) + current_op(u)[2]
           /\ pc[u] + 1 < Len(program(u)) => budget(u) > behind(u) + current_op(u)[2]
<1> DEFINE c == Works(program(u))
           len == Len(program(u))
           p == pc[u]
           W(n) == SumFunctionOnSet(c, 1..n)
<1>1. /\ len \in Nat \ {0} /\ p \in Nat /\ p < len
      /\ c \in [1..len -> Nat] /\ budget(u) = W(len)
  BY ComputesOnly, BudgetTyped DEF AtEnd
<1>2. c[p + 1] = current_op(u)[2] /\ current_op(u)[2] \in Nat
  <2>1. p + 1 \in DOMAIN program(u) /\ current_op(u)[1] = "Compute" /\ current_op(u)[2] \in Nat
    BY <1>1, ComputesOnly, ProgramTyped
  <2> QED
    BY <2>1 DEF Works, current_op
<1>3. c[len] > 0
  <2>1. /\ program(u) \in Seq(Op) /\ len \in DOMAIN program(u)
        /\ program(u)[len][1] = "Compute" /\ program(u)[len][2] > 0
    BY <1>1, ProgramTyped DEF OnlyComputes
  <2> QED
    BY <2>1 DEF Works
<1> HIDE DEF c, len, p
<1>4. \A n \in Nat : n < len => /\ W(n + 1) = W(n) + c[n + 1]
                               /\ W(n) \in Nat /\ W(n + 1) \in Nat
  <2> SUFFICES ASSUME NEW n \in Nat, n < len
               PROVE  /\ W(n + 1) = W(n) + c[n + 1]
                      /\ W(n) \in Nat /\ W(n + 1) \in Nat
    OBVIOUS
  <2>1. \A i \in 1..n+1 : c[i] \in Int
    BY <1>1
  <2>2. W(n + 1) = W(n) + c[n + 1]
    BY <2>1, SumUpTo
  <2>3. W(n) \in Nat /\ W(n + 1) \in Nat
    BY <1>1, PrefixSums
  <2> QED
    BY <2>2, <2>3
<1>5. W(p + 1) = W(p) + current_op(u)[2] /\ W(p) \in Nat
  BY <1>1, <1>2, <1>4
<1>6. ASSUME p + 1 < len PROVE W(len) > W(p + 1)
  <2>1. len - 1 \in Nat /\ len - 1 < len /\ p + 1 <= len - 1 /\ p + 1 \in Nat
    BY <1>1, <1>6
  <2>2. W(p + 1) <= W(len - 1) /\ W(p + 1) \in Nat
    BY <1>1, <2>1, PrefixSums
  <2>3. W(len) = W(len - 1) + c[len] /\ W(len - 1) \in Nat
    <3>1. len - 1 + 1 = len
      BY <1>1
    <3> QED
      BY <1>4, <2>1, <3>1
  <2>4. c[len] \in Nat
    BY <1>1
  <2> HIDE DEF W
  <2> QED
    BY <1>3, <2>2, <2>3, <2>4
<1>7. behind(u) = W(p)
  BY DEF behind, c, p
<1>8. p + 1 = len => budget(u) = behind(u) + current_op(u)[2]
  BY <1>1, <1>5, <1>7
<1>9. p + 1 < len => budget(u) > behind(u) + current_op(u)[2]
  BY <1>1, <1>5, <1>6, <1>7
<1>10. behind(u) \in Nat
  BY <1>5, <1>7
<1>11. SumFunctionOnSet(Works(program(u)), 1..pc[u] + 1) = behind(u) + current_op(u)[2]
  BY <1>5, <1>7 DEF c, p
<1> QED
  BY <1>8, <1>9, <1>10, <1>11 DEF len, p

\* What is left is what is neither behind nor done.
LEMMA LeftIs ==
    ASSUME NEW u \in Tasks
    PROVE  work_left(u) = IF job_active[u] THEN budget(u) - behind(u) - under_way(u) ELSE 0
BY DEF work_left, budget, behind, under_way

\* An active job has work left: what the operation at hand still asks for, and
\* more before the last one.
LEMMA LeftFacts ==
    ASSUME TypeOK, OnlyComputes, AllPlain, Standing, NEW u \in Tasks
    PROVE  /\ work_left(u) \in Nat
           /\ work_left(u) > 0 <=> job_active[u]
           /\ job_active[u] => /\ rest(u) \in Nat
                               /\ pc[u] + 1 >= Len(program(u)) => work_left(u) = rest(u)
                               /\ pc[u] + 1 < Len(program(u)) => work_left(u) > rest(u)
<1>1. CASE ~job_active[u]
  BY <1>1, LeftIs
<1>2. CASE job_active[u]
  <2>1. ~AtEnd(u)
    BY <1>2 DEF AllPlain, Plain
  <2> DEFINE n == current_op(u)[2]
             b == behind(u)
             all == budget(u)
             r == rest(u)
             len == Len(program(u))
             p == pc[u]
  <2>2. /\ n \in Nat /\ len \in Nat /\ p \in Nat /\ p < len
        /\ p + 1 = len => n > 0
    BY <2>1, ComputesOnly DEF AtEnd
  <2>3. /\ b \in Nat /\ all \in Nat
        /\ p + 1 = len => all = b + n
        /\ p + 1 < len => all > b + n
    BY <2>1, BehindFacts, BudgetTyped
  <2>4. compute_remaining[u] \in Nat /\ (compute_remaining[u] # 0 => compute_remaining[u] < n)
    BY TaskFieldsTyped DEF Standing, StandsAt
  <2>5. r \in Nat /\ r <= n /\ under_way(u) = n - r /\ (p + 1 = len => r > 0)
    BY <2>2, <2>4 DEF rest, under_way
  <2>6. work_left(u) = all - b - (n - r)
    BY <1>2, <2>5, LeftIs
  <2> HIDE DEF n, b, all, r, len, p
  <2>7. /\ work_left(u) \in Nat /\ work_left(u) > 0
        /\ p + 1 >= len => work_left(u) = r
        /\ p + 1 < len => work_left(u) > r
    BY <2>2, <2>3, <2>5, <2>6
  <2> QED
    BY <1>2, <2>5, <2>7 DEF r, len, p
<1> QED
  BY <1>1, <1>2

\* What a Compute of t leaves: the same, one unit less, or nothing where one
\* unit was left.  The jobs of the others are untouched.
LEMMA LeftAfter ==
    ASSUME TypeOK, Agreement, OnlyComputes, AllPlain, Standing, NEW t \in Tasks, Compute(t),
           NEW u \in Tasks
    PROVE  /\ u # t => work_left(u)' = work_left(u) /\ jobs_completed'[u] = jobs_completed[u]
           /\ u = t /\ NoTime(t) =>
                work_left(u)' = work_left(u) /\ jobs_completed'[u] = jobs_completed[u]
           /\ u = t /\ SomeTime(t) =>
                /\ work_left(u) > 1 /\ work_left(u)' = work_left(u) - 1
                /\ jobs_completed'[u] = jobs_completed[u]
           /\ u = t /\ LastTime(t) =>
                /\ work_left(u) = 1 /\ work_left(u)' = 0
                /\ jobs_completed'[u] = jobs_completed[u] + 1
<1>1. /\ mode = "quantum" /\ running = t /\ ~AtEnd(t) /\ current_op(t)[1] = "Compute"
      /\ NoTime(t) \/ SomeTime(t) \/ LastTime(t)
      /\ setup' = setup
  BY ComputeCases
<1>2. program(u)' = program(u) /\ budget(u)' = budget(u)
  BY <1>1 DEF program, budget
<1>3. /\ pc \in [Tasks -> Nat] /\ compute_remaining \in [Tasks -> Nat]
      /\ job_active \in [Tasks -> BOOLEAN] /\ jobs_completed \in [Tasks -> Nat]
  BY TaskFieldsTyped
<1>4. /\ work_left(u) = IF job_active[u] THEN budget(u) - behind(u) - under_way(u) ELSE 0
      /\ work_left(u)' = IF job_active'[u] THEN budget(u) - behind(u)' - under_way(u)' ELSE 0
  <2>1. work_left(u)' = IF job_active'[u] THEN budget(u)' - behind(u)' - under_way(u)' ELSE 0
    BY DEF work_left, budget, behind, under_way
  <2> QED
    BY <1>2, <2>1, LeftIs
<1>5. LastTime(t) => /\ rest(t) = 1 /\ pc[t] + 1 >= Len(program(t))
                     /\ jobs_completed' = [jobs_completed EXCEPT ![t] = @ + 1]
                     /\ job_active' = [job_active EXCEPT ![t] = FALSE]
                     /\ pc' = [pc EXCEPT ![t] = 0]
                     /\ compute_remaining' = [compute_remaining EXCEPT ![t] = 0]
  BY DEF LastTime, complete_job
<1>6. ASSUME u # t
      PROVE  work_left(u)' = work_left(u) /\ jobs_completed'[u] = jobs_completed[u]
  <2>1. /\ pc'[u] = pc[u] /\ compute_remaining'[u] = compute_remaining[u]
        /\ job_active'[u] = job_active[u] /\ jobs_completed'[u] = jobs_completed[u]
    BY <1>1, <1>3, <1>5, <1>6 DEF NoTime, SomeTime, jobVars
  <2>2. behind(u)' = behind(u) /\ under_way(u)' = under_way(u)
    BY <1>2, <2>1 DEF behind, under_way, current_op
  <2> QED
    BY <1>4, <2>1, <2>2
<1>7. ASSUME u = t
      PROVE  /\ NoTime(t) => work_left(u)' = work_left(u) /\ jobs_completed'[u] = jobs_completed[u]
             /\ SomeTime(t) => /\ work_left(u) > 1 /\ work_left(u)' = work_left(u) - 1
                               /\ jobs_completed'[u] = jobs_completed[u]
             /\ LastTime(t) => /\ work_left(u) = 1 /\ work_left(u)' = 0
                               /\ jobs_completed'[u] = jobs_completed[u] + 1
  <2> DEFINE n == current_op(u)[2]
             r == rest(u)
  <2>1. job_active[u] /\ ~AtEnd(u) /\ n \in Nat
    BY <1>1, <1>7, ActiveTasks, ComputesOnly
  <2>2. /\ work_left(u) \in Nat /\ work_left(u) > 0 /\ r \in Nat
        /\ pc[u] + 1 >= Len(program(u)) => work_left(u) = r
        /\ pc[u] + 1 < Len(program(u)) => work_left(u) > r
        /\ pc[u] \in Nat /\ Len(program(u)) \in Nat
    BY <2>1, LeftFacts, ComputesOnly
  <2>3. budget(u) \in Nat /\ behind(u) \in Nat
    BY <2>1, BehindFacts, BudgetTyped
  <2>4. pc'[u] = pc[u] + 1 => behind(u)' = behind(u) + n
    BY <1>2, <2>1, BehindFacts DEF behind
  <2>5. under_way(u) = n - r
    BY <2>1 DEF under_way, rest
  <2>6. work_left(u) = budget(u) - behind(u) - (n - r)
    BY <1>4, <2>1, <2>5
  <2>7. ASSUME NoTime(t)
        PROVE  work_left(u)' = work_left(u) /\ jobs_completed'[u] = jobs_completed[u]
    <3>1. /\ r = 0 /\ pc'[u] = pc[u] + 1 /\ compute_remaining'[u] = compute_remaining[u]
          /\ job_active'[u] /\ jobs_completed'[u] = jobs_completed[u]
      BY <1>3, <1>7, <2>1, <2>7 DEF NoTime, jobVars
    <3>2. n = 0 /\ compute_remaining[u] = 0
      BY <1>3, <3>1 DEF rest
    <3>3. under_way(u)' = 0
      BY <3>1, <3>2 DEF under_way
    <3> HIDE DEF n, r
    <3> QED
      BY <1>4, <2>1, <2>3, <2>4, <2>6, <3>1, <3>2, <3>3
  <2>8. ASSUME SomeTime(t)
        PROVE  /\ work_left(u) > 1 /\ work_left(u)' = work_left(u) - 1
               /\ jobs_completed'[u] = jobs_completed[u]
    <3>1. job_active'[u] /\ jobs_completed'[u] = jobs_completed[u]
      BY <2>1, <2>8 DEF SomeTime, jobVars
    <3>2. CASE r > 1 /\ compute_remaining' = [compute_remaining EXCEPT ![t] = r - 1] /\ pc' = pc
      <4>1. compute_remaining'[u] = r - 1 /\ r - 1 # 0 /\ pc'[u] = pc[u]
        BY <1>3, <1>7, <2>2, <3>2
      <4>2. behind(u)' = behind(u) /\ under_way(u)' = n - (r - 1)
        BY <1>2, <4>1 DEF behind, under_way, current_op
      <4> HIDE DEF n, r
      <4> QED
        BY <1>4, <2>1, <2>2, <2>3, <2>6, <3>1, <3>2, <4>2
    <3>3. CASE /\ r = 1 /\ pc[t] + 1 < Len(program(t))
               /\ compute_remaining' = [compute_remaining EXCEPT ![t] = 0]
               /\ pc' = [pc EXCEPT ![t] = @ + 1]
      <4>1. compute_remaining'[u] = 0 /\ pc'[u] = pc[u] + 1
        BY <1>3, <1>7, <3>3
      <4>2. under_way(u)' = 0
        BY <4>1 DEF under_way
      <4> HIDE DEF n, r
      <4> QED
        BY <1>4, <1>7, <2>1, <2>2, <2>3, <2>4, <2>6, <3>1, <3>3, <4>1, <4>2
    <3> QED
      BY <1>7, <2>8, <3>2, <3>3 DEF SomeTime
  <2>9. ASSUME LastTime(t)
        PROVE  /\ work_left(u) = 1 /\ work_left(u)' = 0
               /\ jobs_completed'[u] = jobs_completed[u] + 1
    <3>1. ~job_active'[u] /\ jobs_completed'[u] = jobs_completed[u] + 1 /\ r = 1
      BY <1>3, <1>5, <1>7, <2>9
    <3>2. work_left(u) = r
      BY <1>5, <1>7, <2>2, <2>9
    <3> QED
      BY <1>4, <3>1, <3>2
  <2> QED
    BY <2>7, <2>8, <2>9
<1> QED
  BY <1>6, <1>7

\* The operators the processor shares with the kernel's task model mean the
\* same in both.
LEMMA SameOperators ==
    /\ \A u : ProcessorOf!cost(u) = budget(u) /\ ProcessorOf!period(u) = period(u)
    /\ ProcessorOf!AtLeast(setup.tick_reload, 1) = reload
    /\ \A S, prio : ProcessorOf!Best(S, prio) = Best(S, prio)
<1>1. \A f, S : ProcessorOf!SumFunctionOnSet(f, S) = SumFunctionOnSet(f, S)
  BY DEF SumFunctionOnSet, ProcessorOf!SumFunctionOnSet, ProcessorOf!FoldFunctionOnSet,
     FoldFunctionOnSet, ProcessorOf!MapThenFoldSet, MapThenFoldSet
<1>2. ASSUME NEW u PROVE ProcessorOf!cost(u) = budget(u)
  BY <1>1 DEF ProcessorOf!cost, ProcessorOf!compute_budget, ProcessorOf!Works,
     ProcessorOf!SumFunction, ProcessorOf!program, budget, compute_budget, Works, SumFunction,
     program
<1>3. ASSUME NEW u PROVE ProcessorOf!period(u) = period(u)
  BY DEF ProcessorOf!period, period
<1>4. ProcessorOf!AtLeast(setup.tick_reload, 1) = reload
  BY DEF ProcessorOf!AtLeast, AtLeast, reload
<1>5. ASSUME NEW S, NEW prio PROVE ProcessorOf!Best(S, prio) = Best(S, prio)
  BY DEF ProcessorOf!Best, Best
<1> QED
  BY <1>2, <1>3, <1>4, <1>5

\* The variables of the processor.
Time == IF mode = "isr" THEN now - 1 ELSE now
\* The processor's turn and what it knows of the jobs.
Turn == IF mode \in {"tick", "isr"} THEN "arrive" ELSE "serve"
Left == [u \in Tasks |-> work_left(u)]

\* Initial states are initial states of the processor.
LEMMA ProcessorInit == Init => ProcessorOf!PInit
<1> SUFFICES ASSUME Init PROVE ProcessorOf!PInit
  OBVIOUS
<1>1. \A u \in Tasks : work_left(u) = 0
  BY DEF Init, work_left
<1> QED
  BY <1>1 DEF ProcessorOf!PInit, Init

\* A step that leaves these alone is a stutter of the processor.
LEMMA ProcessorRests ==
    ASSUME UNCHANGED <<setup, Time, Turn, Left, jobs_released, jobs_completed, deadline,
                       deadlines_missed>>
    PROVE  UNCHANGED ProcessorOf!processorVars
BY DEF ProcessorOf!processorVars, Time, Turn, Left

\* Work changes with jobs and positions only.
LEMMA LeftFrame ==
    ASSUME UNCHANGED <<setup, job_active, pc, compute_remaining>>
    PROVE  Left' = Left
<1>1. \A u \in Tasks : work_left(u)' = work_left(u)
  BY DEF work_left, program, current_op
<1> QED
  BY <1>1 DEF Left

-----------------------------------------------------------------------------
\* Jobs arrive and expire in the processor exactly when the interrupt releases
\* and flags them.
LEMMA SameArrivals ==
    ASSUME TypeOK, Agreement, JobLifecycle, ReleasesKeepPhase, TimerAgrees, Standing,
           OnlyComputes, AllPlain, ServiceInterrupts, "Timer" \in pending, NEW u \in Tasks
    PROVE  /\ ProcessorOf!Arrives(u) <=> u \in Due
           /\ ProcessorOf!Expires(u) <=> u \in Overdue
           /\ ProcessorOf!Arrives(u) <=>
                 /\ work_left(u) = 0
                 /\ IF period(u) = Never
                    THEN jobs_released[u] = 0 /\ now >= setup.release_phase[u]
                    ELSE now >= setup.release_phase[u] + jobs_released[u] * period(u)
<1>1. /\ mode' = "dispatch" /\ mode = "isr" /\ setup' = setup /\ now' = now
  BY DEF ServiceInterrupts, clockVars
<1>2. /\ now \in Nat /\ serviced \in Nat /\ fired \in Nat /\ reload \in Nat \ {0}
      /\ jobs_released[u] \in Nat /\ deadline[u] \in Nat \union {Never}
      /\ period(u) \in Nat \union {Never}
      /\ job_active[u] \in BOOLEAN /\ missed_current[u] \in BOOLEAN
      /\ next_release[u] \in Nat \union {Never} /\ jobs_completed[u] \in Nat
      /\ setup.release_phase[u] \in Nat
  BY TimesTyped DEF TypeOK, JobTypeOK, Setup
<1>3. now = reload * serviced + reload /\ reload * serviced \in Nat
  BY TickServed
<1>4. /\ work_left(u) \in Nat /\ (work_left(u) > 0 <=> job_active[u])
  BY LeftFacts
<1>5. ProcessorOf!Arrives(u) <=>
         /\ work_left(u) = 0
         /\ IF period(u) = Never
            THEN jobs_released[u] = 0 /\ now >= setup.release_phase[u]
            ELSE now >= setup.release_phase[u] + jobs_released[u] * period(u)
  BY <1>1, SameOperators DEF ProcessorOf!Arrives
<1>6. u \in Due <=> ~job_active[u] /\ next_release[u] # Never /\ now >= next_release[u]
  BY DEF Due
<1>7. ProcessorOf!Arrives(u) <=> u \in Due
  <2>1. CASE period(u) = Never
    <3>1. next_release[u] = Never <=> jobs_released[u] = 1
      BY <2>1 DEF JobLifecycle
    <3>2. jobs_released[u] <= 1
      BY <2>1 DEF JobLifecycle
    <3>3. jobs_released[u] = 0 => next_release[u] = setup.release_phase[u]
      BY <2>1 DEF AllPlain, Plain
    <3> QED
      BY <1>2, <1>4, <1>5, <1>6, <2>1, <3>1, <3>2, <3>3
  <2>2. CASE period(u) # Never
    <3>1. next_release[u] = setup.release_phase[u] + period(u) * jobs_released[u]
      BY <2>2 DEF ReleasesKeepPhase
    <3>2. period(u) * jobs_released[u] = jobs_released[u] * period(u)
      BY <1>2, <2>2
    <3>3. jobs_released[u] * period(u) \in Nat
      BY <1>2, <2>2
    <3>4. next_release[u] \in Nat /\ next_release[u] # Never
      BY <1>2, <3>1, <3>2, <3>3, NeverAssumption
    <3> QED
      BY <1>4, <1>5, <1>6, <2>2, <3>1, <3>2, <3>4
  <2> QED
    BY <2>1, <2>2
<1>8. ProcessorOf!Expires(u) <=>
         /\ job_active[u] /\ deadline[u] # Never
         /\ now >= deadline[u] /\ now - reload < deadline[u]
  BY <1>1, <1>4, SameOperators DEF ProcessorOf!Expires
<1>9. /\ job_active'[u] = (u \in Due \/ job_active[u])
      /\ deadline'[u] = IF u \notin Due THEN deadline[u]
                        ELSE IF period(u) = Never THEN Never ELSE now + period(u)
  BY DEF ServiceInterrupts, on_tick
<1>10. u \in Overdue <=> /\ job_active'[u] /\ (u \in Due \/ ~missed_current[u])
                         /\ deadline'[u] # Never /\ now >= deadline'[u]
  BY DEF Overdue
<1>11. ProcessorOf!Expires(u) <=> u \in Overdue
  <2>1. CASE u \in Due
    <3>1. ~job_active[u]
      BY <1>6, <2>1
    <3>2. deadline'[u] # Never => ~(now >= deadline'[u])
      BY <1>2, <1>9, <2>1 DEF OnlyComputes
    <3> QED
      BY <1>8, <1>10, <3>1, <3>2
  <2>2. CASE u \notin Due
    <3>1. job_active[u] /\ deadline[u] # Never
            => (missed_current[u] <=> reload * serviced >= deadline[u])
      BY DEF AllPlain, Plain
    <3>4. deadline[u] # Never =>
            (now - reload < deadline[u] <=> ~(reload * serviced >= deadline[u]))
      BY <1>2, <1>3
    <3> QED
      BY <1>2, <1>8, <1>9, <1>10, <2>2, <3>1, <3>4
  <2> QED
    BY <2>1, <2>2
<1> QED
  BY <1>5, <1>7, <1>11

\* A job that is released has the work of its whole program before it.
LEMMA LeftAtRelease ==
    ASSUME TypeOK, Standing, ServiceInterrupts, "Timer" \in pending, NEW u \in Tasks
    PROVE  work_left(u)' = IF u \in Due THEN budget(u) ELSE work_left(u)
<1>1. /\ job_active'[u] = (u \in Due \/ job_active[u])
      /\ pc'[u] = IF u \in Due THEN 0 ELSE pc[u]
      /\ compute_remaining'[u] = IF u \in Due THEN 0 ELSE compute_remaining[u]
      /\ setup' = setup
  BY DEF ServiceInterrupts, on_tick
<1>2. program(u)' = program(u)
  BY <1>1 DEF program
<1>3. CASE u \notin Due
  <2>1. job_active'[u] = job_active[u]
    BY <1>1, <1>3, TaskFieldsTyped
  <2>2. pc'[u] = pc[u] /\ compute_remaining'[u] = compute_remaining[u]
    BY <1>1, <1>3
  <2>3. current_op(u)' = current_op(u)
    BY <1>2, <2>2 DEF current_op
  <2> QED
    BY <1>2, <1>3, <2>1, <2>2, <2>3 DEF work_left
<1>4. CASE u \in Due
  <2>1. job_active'[u] /\ pc'[u] = 0 /\ compute_remaining'[u] = 0
    BY <1>1, <1>4
  <2>2. behind(u)' = 0
    <3>1. behind(u)' = SumFunctionOnSet(Works(program(u)), 1..0) /\ 1..0 = {}
      BY <1>2, <2>1 DEF behind
    <3> QED
      BY <3>1, SumEmpty
  <2>3. budget(u) \in Nat /\ budget(u)' = budget(u)
    BY <1>2, BudgetTyped DEF budget
  <2>4. work_left(u)' = budget(u)' - behind(u)' - under_way(u)' /\ under_way(u)' = 0
    BY <2>1 DEF work_left, budget, behind, under_way
  <2> QED
    BY <1>4, <2>2, <2>3, <2>4
<1> QED
  BY <1>3, <1>4

\* The interrupt is the processor's Arrive.
LEMMA InterruptArrives ==
    ASSUME TypeOK, Agreement, JobLifecycle, ReleasesKeepPhase, TimerAgrees, Standing,
           OnlyComputes, AllPlain, ServiceInterrupts
    PROVE  ProcessorOf!Arrive
<1>1. /\ mode' = "dispatch" /\ mode = "isr" /\ setup' = setup /\ now' = now /\ now \in Nat
  BY DEF ServiceInterrupts, clockVars, TypeOK, ControlTypeOK
<1>2. /\ counter \in 1..reload /\ reload \in Nat \ {0} /\ fired \in Nat
      /\ now + counter = reload * (fired + 1)
      /\ pending = IF counter = reload THEN {"Timer"} ELSE {}
  BY <1>1, TimesTyped DEF TypeOK, McuTypeOK, Setup, reload, AtLeast, TimerAgrees
<1>3. now % reload = 0 <=> "Timer" \in pending
  <2>1. now % reload = 0 <=> counter = reload
    BY <1>1, <1>2, QuotientAndRemainder
  <2> QED
    BY <1>2, <2>1
<1>4. jobs_completed' = jobs_completed
  BY DEF ServiceInterrupts, on_tick, jobVars
<1>5. CASE "Timer" \in pending
  <2>1. /\ jobs_released' = [u \in Tasks |-> IF u \in Due THEN jobs_released[u] + 1
                                                          ELSE jobs_released[u]]
        /\ deadline' = [u \in Tasks |-> IF u \notin Due THEN deadline[u]
                          ELSE IF period(u) = Never THEN Never ELSE now + period(u)]
        /\ deadlines_missed' = [u \in Tasks |-> IF u \in Overdue THEN deadlines_missed[u] + 1
                                                                ELSE deadlines_missed[u]]
    BY <1>5 DEF ServiceInterrupts, on_tick
  <2>2. \A u \in Tasks : /\ ProcessorOf!Arrives(u) <=> u \in Due
                         /\ ProcessorOf!Expires(u) <=> u \in Overdue
    BY <1>5, SameArrivals
  <2>3. Left' = [u \in Tasks |-> IF ProcessorOf!Arrives(u) THEN budget(u) ELSE Left[u]]
    BY <1>5, <2>2, LeftAtRelease DEF Left
  <2> QED
    BY <1>1, <1>3, <1>4, <1>5, <2>1, <2>2, <2>3, SameOperators DEF ProcessorOf!Arrive, Left
<1>6. CASE "Timer" \notin pending
  <2>1. UNCHANGED <<pc, compute_remaining, job_active, jobs_released, deadline, deadlines_missed>>
    BY <1>6 DEF ServiceInterrupts, computeVars, jobVars
  <2>2. Left' = Left
    BY <1>1, <2>1, LeftFrame
  <2> QED
    BY <1>1, <1>3, <1>4, <1>6, <2>1, <2>2, SameOperators DEF ProcessorOf!Arrive, Left
<1> QED
  BY <1>5, <1>6

-----------------------------------------------------------------------------
\* The processor serves the tasks with a job, in the order of pick.
LEMMA SameService ==
    ASSUME TypeOK, Agreement, Standing, OnlyComputes, AllPlain
    PROVE  /\ ProcessorOf!Busy = Runnable
           /\ ProcessorOf!Best(ProcessorOf!Busy, setup.base_priority) = pick
<1>1. ProcessorOf!Busy = {u \in Tasks : work_left(u) > 0}
  BY DEF ProcessorOf!Busy
<1>2. ProcessorOf!Busy = Runnable
  BY <1>1, LeftFacts, RunnableAreActive
<1> QED
  BY <1>2, SameOperators, RunnableAreActive DEF pick

\* An idle kernel has no job to serve.
LEMMA IdleServes ==
    ASSUME TypeOK, Agreement, Standing, OnlyComputes, AllPlain, Idle
    PROVE  ProcessorOf!Serve
<1>1. /\ mode = "dispatch" /\ mode' = "tick" /\ setup' = setup /\ now' = now /\ Runnable = {}
      /\ UNCHANGED <<job_active, pc, compute_remaining, jobs_released, jobs_completed, deadline,
                     deadlines_missed>>
  BY DEF Idle, jobVars, computeVars
<1>2. Left' = Left
  BY <1>1, LeftFrame
<1>3. pick = {}
  BY <1>1 DEF pick, Best
<1>4. Left = [u \in Tasks |-> IF u \in pick THEN Left[u] - 1 ELSE Left[u]]
  BY <1>3 DEF Left
<1>5. jobs_completed = [u \in Tasks |-> IF u \in pick /\ Left[u] = 1 THEN jobs_completed[u] + 1
                                                                   ELSE jobs_completed[u]]
  BY <1>3, TaskFieldsTyped
<1> QED
  BY <1>1, <1>2, <1>4, <1>5, SameService DEF ProcessorOf!Serve, Left

\* A Compute that takes time is the processor's Serve, and one that takes none
\* is nothing to it.
LEMMA ComputeServes ==
    ASSUME TypeOK, Agreement, Standing, OnlyComputes, AllPlain, RunsThePick,
           NEW t \in Tasks, Compute(t)
    PROVE  ProcessorOf!Serve \/ UNCHANGED ProcessorOf!processorVars
<1>1. /\ mode = "quantum" /\ running = t /\ ~AtEnd(t)
      /\ NoTime(t) \/ SomeTime(t) \/ LastTime(t)
      /\ setup' = setup /\ now' = now
  BY ComputeCases
<1>2. /\ NoTime(t) => mode' = "quantum"
      /\ SomeTime(t) \/ LastTime(t) => mode' = "tick"
      /\ UNCHANGED <<jobs_released, deadline, deadlines_missed>>
  BY <1>1 DEF NoTime, SomeTime, LastTime, complete_job, Block, schedVars, jobVars
<1>3. \A u \in Tasks :
         /\ u # t => work_left(u)' = work_left(u) /\ jobs_completed'[u] = jobs_completed[u]
         /\ u = t /\ NoTime(t) => work_left(u)' = work_left(u)
         /\ u = t /\ SomeTime(t) =>
              /\ work_left(u) > 1 /\ work_left(u)' = work_left(u) - 1
              /\ jobs_completed'[u] = jobs_completed[u]
         /\ u = t /\ LastTime(t) =>
              /\ work_left(u) = 1 /\ work_left(u)' = 0
              /\ jobs_completed'[u] = jobs_completed[u] + 1
  BY LeftAfter
<1>4. CASE NoTime(t)
  <2>1. Left' = Left
    BY <1>3, <1>4 DEF Left
  <2>2. jobs_completed' = jobs_completed
    BY <1>4 DEF NoTime, jobVars
  <2>3. Time' = Time /\ Turn' = Turn
    BY <1>1, <1>2, <1>4 DEF Time, Turn
  <2> QED
    BY <1>1, <1>2, <2>1, <2>2, <2>3, ProcessorRests
<1>5. CASE SomeTime(t) \/ LastTime(t)
  <2>1. pick = {t}
    <3>1. t \in pick
      BY <1>1 DEF RunsThePick
    <3>2. Runnable \in SUBSET Nat /\ \A x \in Runnable : eff_priority[x] \in Nat
      <4>1. Runnable \subseteq Tasks
        BY DEF Runnable
      <4>2. \A x \in Tasks : eff_priority[x] \in Nat
        BY DEF TypeOK, PriorityTypeOK, Priority
      <4> QED
        BY <4>1, <4>2, TasksAssumption
    <3> QED
      BY <3>1, <3>2, BestUnique DEF pick
  <2>2. work_left(t) \in Nat
    BY LeftFacts
  <2>3. Left' = [u \in Tasks |-> IF u \in pick THEN Left[u] - 1 ELSE Left[u]]
    BY <1>3, <1>5, <2>1, <2>2 DEF Left
  <2>4. DOMAIN jobs_completed' = Tasks /\ jobs_completed' \in [Tasks -> Nat]
    <3>1. jobs_completed' = jobs_completed \/ jobs_completed' = [jobs_completed EXCEPT ![t] = @ + 1]
      BY <1>5 DEF SomeTime, LastTime, complete_job, jobVars
    <3> QED
      BY <3>1, TaskFieldsTyped
  <2>5. jobs_completed' = [u \in Tasks |-> IF u \in pick /\ Left[u] = 1 THEN jobs_completed[u] + 1
                                                                      ELSE jobs_completed[u]]
    BY <1>3, <1>5, <2>1, <2>2, <2>4 DEF Left
  <2> QED
    BY <1>1, <1>2, <1>5, <2>3, <2>5, SameService DEF ProcessorOf!Serve, Left
<1> QED
  BY <1>1, <1>4, <1>5

-----------------------------------------------------------------------------
\* Every step is one of the processor, or a stutter.
LEMMA ProcessorStep ==
    ASSUME TypeOK, Agreement, JobLifecycle, ReleasesKeepPhase, TimerAgrees, Standing,
           OnlyComputes, AllPlain, RunsThePick, [Next]_vars
    PROVE  ProcessorOf!PNext \/ UNCHANGED ProcessorOf!processorVars
<1>1. CASE UNCHANGED vars \/ Tick \/ \E t \in Tasks : Dispatch(t)
  <2>1. UNCHANGED <<setup, job_active, pc, compute_remaining, jobs_released, jobs_completed,
                    deadline, deadlines_missed>>
    BY <1>1 DEF vars, Tick, Dispatch, jobVars, computeVars
  <2>2. Time' = Time /\ Turn' = Turn
    BY <1>1 DEF vars, schedVars, clockVars, Tick, Dispatch, Time, Turn, TypeOK, ControlTypeOK
  <2> QED
    BY <2>1, <2>2, LeftFrame, ProcessorRests
<1>2. CASE ServiceInterrupts
  BY <1>2, InterruptArrives DEF ProcessorOf!PNext
<1>3. CASE Idle
  BY <1>3, IdleServes DEF ProcessorOf!PNext
<1>4. CASE \E t \in Tasks : Compute(t)
  BY <1>4, ComputeServes DEF ProcessorOf!PNext
<1> QED
  BY <1>1, <1>2, <1>3, <1>4, ComputeSteps

\* The invariant of tasks that only compute.
LEMMA PlainInvariant == Spec => [](OnlyComputes => AllPlain /\ RunsThePick)
<1> DEFINE Inv == OnlyComputes => AllPlain /\ RunsThePick
<1>1. Init => Inv
  BY PlainInit
<1>2. TypeOK /\ Agreement /\ JobLifecycle /\ TimerAgrees /\ Inv /\ [Next]_vars => Inv'
  <2> SUFFICES ASSUME TypeOK, Agreement, JobLifecycle, TimerAgrees, Inv, [Next]_vars,
                      OnlyComputes'
               PROVE  AllPlain' /\ RunsThePick'
    OBVIOUS
  <2>1. OnlyComputes
    BY McuFrame DEF OnlyComputes, period, program
  <2> QED
    BY <2>1, PlainStep
<1> QED
  BY <1>1, <1>2, TypeCorrect, AgreementCorrect, JobsAccounted, TimerAgreement, PTL DEF Spec

\* For any number of tasks that only compute, whatever their periods, phases,
\* programs and priorities, the kernel gives every tick to the most urgent
\* task with work left, begins every job on its grid, and counts every miss.
THEOREM KernelIsTheProcessor == Spec => ImplementsProcessor
<1>1. TypeOK /\ Agreement /\ JobLifecycle /\ ReleasesKeepPhase /\ TimerAgrees /\ Standing
        /\ (OnlyComputes => AllPlain /\ RunsThePick) /\ [Next]_vars
        => [OnlyComputes => ProcessorOf!PNext]_(ProcessorOf!processorVars)
  BY ProcessorStep
<1>2. Init => (OnlyComputes => ProcessorOf!PInit)
  BY ProcessorInit
<1> QED
  BY <1>1, <1>2, PlainInvariant, TypeCorrect, AgreementCorrect, JobsAccounted, ReleasesInPhase,
     TimerAgreement, StandingInvariant, PTL DEF Spec, ImplementsProcessor

-----------------------------------------------------------------------------
(***************************************************************************)
(* The schedulability analysis, carried over from the processor.           *)
(***************************************************************************)

\* The processor with its theorems, under the refinement mapping of the kernel.
Analysis ==
    INSTANCE ProcessorProofs WITH
        time <- Time, turn <- Turn, left <- Left,
        arrived <- jobs_released, served <- jobs_completed,
        due_by <- deadline, late <- deadlines_missed

\* It is the processor that the kernel implements.
LEMMA SameProcessor ==
    /\ Analysis!PInit <=> ProcessorOf!PInit
    /\ Analysis!processorVars = ProcessorOf!processorVars
    /\ Analysis!PNext <=> ProcessorOf!PNext
<1>1. Analysis!PInit <=> ProcessorOf!PInit
  BY DEF Analysis!PInit, ProcessorOf!PInit, Time, Turn, Left
<1>2. Analysis!processorVars = ProcessorOf!processorVars
  BY DEF Analysis!processorVars, ProcessorOf!processorVars, Time, Turn, Left
<1>3. \A f, S : Analysis!SumFunctionOnSet(f, S) = ProcessorOf!SumFunctionOnSet(f, S)
  BY DEF Analysis!SumFunctionOnSet, ProcessorOf!SumFunctionOnSet, ProcessorOf!FoldFunctionOnSet,
     Analysis!FoldFunctionOnSet, ProcessorOf!MapThenFoldSet, Analysis!MapThenFoldSet
<1>4. \A t : Analysis!cost(t) = ProcessorOf!cost(t) /\ Analysis!period(t) = ProcessorOf!period(t)
  BY <1>3 DEF ProcessorOf!cost, ProcessorOf!compute_budget, ProcessorOf!Works,
     ProcessorOf!SumFunction, ProcessorOf!program,
     Analysis!cost, Analysis!compute_budget, Analysis!Works,
     Analysis!SumFunction, Analysis!program, Analysis!period, ProcessorOf!period
<1>5. \A a, b : Analysis!AtLeast(a, b) = ProcessorOf!AtLeast(a, b)
  BY DEF Analysis!AtLeast, ProcessorOf!AtLeast
<1>6. \A S, p : Analysis!Best(S, p) = ProcessorOf!Best(S, p)
  BY DEF Analysis!Best, ProcessorOf!Best
<1>7. \A t : Analysis!Arrives(t) <=> ProcessorOf!Arrives(t)
  BY <1>4 DEF Analysis!Arrives, ProcessorOf!Arrives, Time, Turn, Left
<1>8. \A t : Analysis!Expires(t) <=> ProcessorOf!Expires(t)
  BY <1>5 DEF Analysis!Expires, ProcessorOf!Expires, Time, Turn, Left
<1>9. Analysis!Arrive <=> ProcessorOf!Arrive
  BY <1>4, <1>5, <1>7, <1>8 DEF Analysis!Arrive, ProcessorOf!Arrive, Time, Turn, Left
<1>10. Analysis!Serve <=> ProcessorOf!Serve
  BY <1>6 DEF Analysis!Serve, ProcessorOf!Serve, Analysis!Busy, ProcessorOf!Busy, Time, Turn, Left
<1> QED
  BY <1>1, <1>2, <1>9, <1>10 DEF Analysis!PNext, ProcessorOf!PNext

\* What its module assumes of the constants holds of those of the kernel.
LEMMA Assumptions ==
    /\ Tasks \subseteq Nat /\ Analysis!IsFiniteSet(Tasks) /\ NoTask \notin Tasks
    /\ Mutexes \subseteq Nat /\ Never \notin Nat /\ PIN_COUNT \in Nat /\ Horizon \in Nat
    /\ \A s \in Setups : s \in Analysis!Setup
    /\ Analysis!Setup = Setup
<1>1. Analysis!Op = Op /\ Analysis!Priority = Priority
  BY DEF Analysis!Op, Op, Analysis!Priority, Priority
<1>2. Analysis!Setup = Setup
  BY <1>1 DEF Analysis!Setup, Setup
<1>3. Analysis!IsFiniteSet(Tasks)
  BY TasksAssumption DEF IsFiniteSet, Analysis!IsFiniteSet
<1> QED
  BY <1>2, <1>3, TasksAssumption, MutexesAssumption, NeverAssumption, PinAssumption,
     HorizonAssumption, SetupsAssumption

\* Its operators on task sets are those of the kernel's analysis.
LEMMA SameSums ==
    /\ \A f, S : Analysis!SumFunctionOnSet(f, S) = SumFunctionOnSet(f, S)
    /\ \A f : Analysis!SumFunction(f) = SumFunction(f)
    /\ \A p : Analysis!compute_budget(p) = compute_budget(p)
<1>1. \A f, S : Analysis!SumFunctionOnSet(f, S) = SumFunctionOnSet(f, S)
  BY DEF Analysis!SumFunctionOnSet, Analysis!FoldFunctionOnSet, Analysis!MapThenFoldSet,
     SumFunctionOnSet, FoldFunctionOnSet, MapThenFoldSet
<1>2. \A f : Analysis!SumFunction(f) = SumFunction(f)
  BY <1>1 DEF Analysis!SumFunction, SumFunction
<1>3. \A p : Analysis!compute_budget(p) = compute_budget(p)
  BY <1>2 DEF Analysis!compute_budget, compute_budget, Analysis!Works, Works
<1> QED
  BY <1>1, <1>2, <1>3

LEMMA SameResponse ==
    \A ts, t : Analysis!response_time(ts, t) = response_time(ts, t)
BY DEF Analysis!response_time, Analysis!iteration, Analysis!demand, Analysis!interference,
     Analysis!interferers, Analysis!Periodic, Analysis!div_ceil, Analysis!SumFunctionOnSet,
     Analysis!FoldFunctionOnSet, Analysis!MapThenFoldSet, SumFunctionOnSet, FoldFunctionOnSet,
     MapThenFoldSet, response_time, iteration, demand, interference, interferers, Periodic, div_ceil

LEMMA SameTaskSet ==
    /\ Analysis!task_set = task_set
    /\ \A ts : Analysis!Periodic(ts) = Periodic(ts)
    /\ Analysis!TaskSet = TaskSet
<1>1. Analysis!TaskSetOf(setup) = TaskSetOf(setup)
  BY SameSums DEF Analysis!TaskSetOf, TaskSetOf
<1> QED
  BY <1>1 DEF Analysis!task_set, task_set, Analysis!Periodic, Periodic, Analysis!TaskSet, TaskSet

\* A program that ends with work asks for some.
LEMMA BudgetPositive ==
    ASSUME TypeOK, OnlyComputes, NEW u \in Tasks
    PROVE  budget(u) \in Nat \ {0}
<1> DEFINE c == Works(program(u))
           len == Len(program(u))
           W(n) == SumFunctionOnSet(c, 1..n)
<1>1. len \in Nat \ {0} /\ c \in [1..len -> Nat] /\ budget(u) = W(len) /\ budget(u) \in Nat
  BY ComputesOnly, BudgetTyped
<1>2. c[len] > 0
  <2>1. /\ program(u) \in Seq(Op) /\ len \in DOMAIN program(u)
        /\ program(u)[len][1] = "Compute" /\ program(u)[len][2] > 0
    BY <1>1, ProgramTyped DEF OnlyComputes
  <2> QED
    BY <2>1 DEF Works
<1> HIDE DEF c, len
<1>3. len - 1 \in Nat /\ len - 1 <= len /\ len <= len /\ len - 1 + 1 = len
  BY <1>1
<1>4. W(len - 1) \in Nat
  BY <1>1, <1>3, PrefixSums
<1>5. W(len) = W(len - 1) + c[len]
  <2>1. \A i \in 1..(len - 1)+1 : c[i] \in Int
    BY <1>1, <1>3
  <2> QED
    BY <1>3, <2>1, SumUpTo
<1>6. c[len] \in Nat
  BY <1>1
<1> HIDE DEF W
<1> QED
  BY <1>1, <1>2, <1>4, <1>5, <1>6

\* Such a setup has a task set.
LEMMA TaskSetTyped ==
    ASSUME TypeOK, OnlyComputes
    PROVE  /\ task_set \in TaskSet
           /\ \A t \in Tasks : task_set.period[t] = period(t)
<1>1. setup \in Setup
  BY DEF TypeOK
<1>2. /\ setup.period \in [Tasks -> Nat \union {Never}]
      /\ setup.base_priority \in [Tasks -> Nat]
  <2>1. /\ setup.period \in [Tasks -> Nat \union {Never}]
        /\ setup.base_priority \in [Tasks -> Priority]
    BY <1>1 DEF Setup
  <2>2. Priority \subseteq Nat
    BY DEF Priority
  <2> QED
    BY <2>1, <2>2
<1>3. \A t \in Tasks : setup.period[t] # 0
  BY DEF OnlyComputes, period
<1>4. setup.period \in [Tasks -> (Nat \ {0}) \union {Never}]
  BY <1>2, <1>3
<1>5. \A t \in Tasks : compute_budget(setup.program[t]) \in Nat \ {0}
  BY BudgetPositive DEF budget, program
<1>6. [t \in Tasks |-> compute_budget(setup.program[t])] \in [Tasks -> Nat \ {0}]
  BY <1>5
<1>7. task_set \in TaskSet
  BY <1>2, <1>4, <1>6 DEF task_set, TaskSetOf, TaskSet
<1> QED
  BY <1>7 DEF task_set, TaskSetOf, period

\* What the properties are about is what the theorems of the processor are about.
LEMMA AnalysedHolds ==
    ASSUME TypeOK, Analysable, Staggered
    PROVE  Analysis!Analysed
<1>1. OnlyComputes /\ setup.tick_reload <= 1 /\ setup \in Setup
  BY DEF Analysable, TypeOK
<1>2. setup \in Analysis!Setup
  BY <1>1, Assumptions
<1>3. Analysis!task_set \in Analysis!TaskSet
  BY <1>1, TaskSetTyped, SameTaskSet
<1>4. Analysis!Periodic(Analysis!task_set) = Periodic(task_set)
  BY SameTaskSet
<1>5. \A t \in Periodic(task_set) : setup.release_phase[t] >= 1
  BY DEF Staggered
<1>6. \A t \in Periodic(task_set) : \A u \in Tasks \ {t} :
          /\ base_priority(u) # base_priority(t)
          /\ base_priority(u) > base_priority(t) => period(u) # Never
  BY DEF Analysable
<1>7. \A u : Analysis!base_priority(u) = base_priority(u) /\ Analysis!period(u) = period(u)
  BY DEF Analysis!base_priority, base_priority, Analysis!period, period
<1> QED
  BY <1>1, <1>2, <1>3, <1>4, <1>5, <1>6, <1>7 DEF Analysis!Analysed

\* Releases at tick 1 are together and not before it.
LEMMA TogetherHolds ==
    ASSUME Synchronous
    PROVE  Staggered /\ Analysis!Together
<1>1. Analysis!Periodic(Analysis!task_set) = Periodic(task_set)
  BY SameTaskSet
<1> QED
  BY <1>1 DEF Synchronous, Staggered, Analysis!Together, Analysis!phase

\* The setup never changes.
LEMMA OnlyComputesStays == [Next]_vars => (OnlyComputes' <=> OnlyComputes)
<1> SUFFICES ASSUME [Next]_vars PROVE OnlyComputes' <=> OnlyComputes
  OBVIOUS
<1>1. setup' = setup
  BY McuFrame
<1> QED
  BY <1>1 DEF OnlyComputes, period, program

\* For tasks that only compute the kernel is a processor of the analysis.
LEMMA AnalysisApplies == Spec => ([]OnlyComputes /\ Analysis!PSpec) \/ []~OnlyComputes
<1>1. [Next]_vars => (OnlyComputes' <=> OnlyComputes)
  BY OnlyComputesStays
<1>2. (OnlyComputes => ProcessorOf!PInit) => (OnlyComputes => Analysis!PInit)
  BY SameProcessor
<1>3. OnlyComputes /\ [OnlyComputes => ProcessorOf!PNext]_(ProcessorOf!processorVars)
        => [Analysis!PNext]_(Analysis!processorVars)
  BY SameProcessor DEF Analysis!processorVars, ProcessorOf!processorVars, Time, Turn, Left
<1> QED
  BY <1>1, <1>2, <1>3, KernelIsTheProcessor, PTL
  DEF Spec, ImplementsProcessor, Analysis!PSpec

\* No time passes within a quantum.
LEMMA QuantumTime ==
    ASSUME TypeOK, NEW t \in Tasks, RunQuantum(t)
    PROVE  now' = now /\ mode = "quantum" /\ mode' \in {"quantum", "tick"}
<1>1. ASSUME EndOfProgram(t) \/ Compute(t) \/ Delay(t) \/ Peripheral(t)
      PROVE  now' = now /\ mode = "quantum" /\ mode' \in {"quantum", "tick"}
  BY <1>1 DEF EndOfProgram, Compute, Delay, Peripheral, Executing, quantumFrame, clockVars,
     complete_job, Block, Continue, EndQuantum, schedVars
<1>2. ASSUME NEW m \in Mutexes,
             Lock(t, m) \/ BlockOnMutex(t, m) \/ Unlock(t, m)
      PROVE  now' = now /\ mode = "quantum" /\ mode' \in {"quantum", "tick"}
  BY <1>2 DEF Lock, BlockOnMutex, Unlock, Executing, quantumFrame, clockVars, Block, Continue,
     Wake, schedVars
<1>3. ASSUME NEW s \in Semaphores, SemWait(t, s) \/ SemSignal(t, s)
      PROVE  now' = now /\ mode = "quantum" /\ mode' \in {"quantum", "tick"}
  BY <1>3 DEF SemWait, SemSignal, Executing, quantumFrame, clockVars, Block, Continue, Wake,
     schedVars
<1>4. ASSUME NEW q \in Queues, QueueSend(t, q) \/ QueueRecv(t, q)
      PROVE  now' = now /\ mode = "quantum" /\ mode' \in {"quantum", "tick"}
  BY <1>4 DEF QueueSend, QueueRecv, Executing, quantumFrame, clockVars, Block, Wake
<1> QED
  BY <1>1, <1>2, <1>3, <1>4 DEF RunQuantum

\* How time passes in a step.
LEMMA TimeStep ==
    ASSUME TypeOK, [Next]_vars
    PROVE  \/ now' = now + 1 /\ mode = "tick" /\ mode' = "isr"
           \/ now' = now /\ mode' = mode
           \/ now' = now /\ mode = "isr" /\ mode' = "dispatch"
           \/ now' = now /\ mode = "quantum" /\ mode' = "tick"
           \/ Idle
           \/ \E l \in Tasks : Dispatch(l)
<1>1. CASE UNCHANGED vars \/ Tick \/ ServiceInterrupts \/ Finished
  BY <1>1 DEF vars, schedVars, clockVars, Tick, ServiceInterrupts, Finished
<1> QED
  BY <1>1, QuantumTime DEF Next

\* The clock stops at the bound.
LEMMA ClockBounded == Spec => [](now <= Horizon)
<1>1. Init => now <= Horizon
  BY HorizonAssumption DEF Init
<1>2. ASSUME now <= Horizon, TypeOK, [Next]_vars PROVE (now <= Horizon)'
  <2>1. now \in Nat
    BY <1>2 DEF TypeOK, ControlTypeOK
  <2>2. CASE Tick
    BY <1>2, <2>1, <2>2, HorizonAssumption DEF Tick
  <2>3. CASE \/ UNCHANGED vars \/ ServiceInterrupts \/ Idle \/ Finished
             \/ \E t \in Tasks : Dispatch(t)
    BY <1>2, <2>3 DEF vars, clockVars, ServiceInterrupts, Idle, Dispatch, Finished
  <2> QED
    BY <1>2, <2>2, <2>3, QuantumTime DEF Next
<1> QED
  BY <1>1, <1>2, TypeCorrect, PTL DEF Spec

-----------------------------------------------------------------------------
\* What the theorems of the processor say of the kernel: the names of the kernel
\* for the work, the job and the response time of a periodic task.
KernelBounds(t) ==
    Response(t) # Never =>
        /\ deadlines_missed[t] = 0
        /\ Turn = "arrive" /\ Left[t] > 0 => Time - (deadline[t] - period(t)) + 1 < Response(t)

KernelReaches(t) ==
    LET done == IF Turn = "arrive" THEN Time ELSE Time - 1
    IN  /\ Response(t) # Never /\ jobs_completed[t] > 0 => Response(t) <= done
        /\ Response(t) = Never /\ Time > period(t) => deadlines_missed[t] >= 1

KernelRepeats(t) ==
    Response(t) # Never /\ Turn = "arrive" =>
        \A k \in Nat : Time = k * period(t) =>
            /\ Left[t] = 0 /\ jobs_completed[t] = k
            /\ setup.release_phase[t] + jobs_released[t] * period(t) = Time + 1

LEMMA BoundsCarried ==
    ASSUME \A t \in Analysis!Periodic(Analysis!task_set) : Analysis!ResponseBounds(t)
    PROVE  \A t \in Periodic(task_set) : KernelBounds(t)
<1>1. Analysis!Periodic(Analysis!task_set) = Periodic(task_set)
  BY SameTaskSet
<1>2. \A t : Analysis!response_time(Analysis!task_set, t) = Response(t)
  BY SameTaskSet, SameResponse DEF Response
<1>3. \A t : Analysis!begun(t) = deadline[t] - period(t)
  BY DEF Analysis!begun, Analysis!period, period
<1> QED
  BY <1>1, <1>2, <1>3 DEF Analysis!ResponseBounds, KernelBounds

LEMMA ReachesCarried ==
    ASSUME \A t \in Analysis!Periodic(Analysis!task_set) :
               Analysis!ResponseReached(t) /\ Analysis!Repeats(t)
    PROVE  \A t \in Periodic(task_set) : KernelReaches(t) /\ KernelRepeats(t)
<1>1. Analysis!Periodic(Analysis!task_set) = Periodic(task_set)
  BY SameTaskSet
<1>2. \A t : Analysis!response_time(Analysis!task_set, t) = Response(t)
  BY SameTaskSet, SameResponse DEF Response
<1>3. /\ Analysis!elapsed = IF Turn = "arrive" THEN Time ELSE Time - 1
      /\ \A t : /\ Analysis!period(t) = period(t)
                /\ Analysis!next_due(t) = setup.release_phase[t] + jobs_released[t] * period(t)
  BY DEF Analysis!elapsed, Analysis!next_due, Analysis!phase, Analysis!period, period
<1> QED
  BY <1>1, <1>2, <1>3
  DEF Analysis!ResponseReached, Analysis!Repeats, KernelReaches, KernelRepeats

\* The theorems of the processor as they hold of the kernel.
LEMMA KernelBounded ==
    Spec => [](Analysable /\ Staggered => \A t \in Periodic(task_set) : KernelBounds(t))
<1>1. Analysis!PSpec => [](Analysis!Analysed =>
          \A t \in Analysis!Periodic(Analysis!task_set) : Analysis!ResponseBounds(t))
  BY Analysis!AnalysisSound, Assumptions
<1>2. TypeOK /\ (Analysis!Analysed =>
          \A t \in Analysis!Periodic(Analysis!task_set) : Analysis!ResponseBounds(t))
        => (Analysable /\ Staggered => \A t \in Periodic(task_set) : KernelBounds(t))
  BY AnalysedHolds, BoundsCarried
<1>3. ~OnlyComputes => ~(Analysable /\ Staggered)
  BY DEF Analysable
<1> QED
  BY <1>1, <1>2, <1>3, AnalysisApplies, TypeCorrect, PTL

LEMMA KernelReached ==
    Spec => [](Analysable /\ Synchronous =>
                   \A t \in Periodic(task_set) : KernelReaches(t) /\ KernelRepeats(t))
<1>1. Analysis!PSpec => [](Analysis!Analysed /\ Analysis!Together =>
          \A t \in Analysis!Periodic(Analysis!task_set) :
              Analysis!ResponseReached(t) /\ Analysis!Repeats(t))
  BY Analysis!AnalysisTight, Assumptions
<1>2. TypeOK /\ (Analysis!Analysed /\ Analysis!Together =>
          \A t \in Analysis!Periodic(Analysis!task_set) :
              Analysis!ResponseReached(t) /\ Analysis!Repeats(t))
        => (Analysable /\ Synchronous =>
                \A t \in Periodic(task_set) : KernelReaches(t) /\ KernelRepeats(t))
  BY AnalysedHolds, TogetherHolds, ReachesCarried
<1>3. ~OnlyComputes => ~(Analysable /\ Synchronous)
  BY DEF Analysable
<1> QED
  BY <1>1, <1>2, <1>3, AnalysisApplies, TypeCorrect, PTL

\* What a job of the kernel is to the processor.
LEMMA JobsOfProcessor ==
    ASSUME TypeOK, JobLifecycle, ReleasesKeepPhase, Standing, AllPlain, OnlyComputes,
           NEW t \in Periodic(task_set)
    PROVE  /\ t \in Tasks /\ period(t) \in Nat \ {0} /\ now \in Nat
           /\ Left[t] > 0 <=> job_active[t]
           /\ jobs_completed[t] \in Nat
           /\ jobs_released[t] = jobs_completed[t] + (IF job_active[t] THEN 1 ELSE 0)
           /\ next_release[t] = setup.release_phase[t] + jobs_released[t] * period(t)
           /\ setup.release_phase[t] \in Nat /\ jobs_released[t] \in Nat
<1>1. t \in Tasks /\ period(t) # Never
  BY TaskSetTyped, PeriodicTyped DEF Periodic
<1>2. period(t) \in Nat \ {0} /\ now \in Nat /\ jobs_released[t] \in Nat
  BY <1>1, TimesTyped DEF OnlyComputes
<1>3. Left[t] > 0 <=> job_active[t]
  BY <1>1, LeftFacts DEF Left
<1>4. jobs_completed[t] \in Nat /\ setup.release_phase[t] \in Nat
  BY <1>1 DEF TypeOK, JobTypeOK, Setup
<1>5. next_release[t] = setup.release_phase[t] + period(t) * jobs_released[t]
  BY <1>1 DEF ReleasesKeepPhase
<1>6. period(t) * jobs_released[t] = jobs_released[t] * period(t)
  BY <1>2
<1>7. jobs_released[t] = jobs_completed[t] + (IF job_active[t] THEN 1 ELSE 0)
  BY <1>1 DEF JobLifecycle
<1> QED
  BY <1>1, <1>2, <1>3, <1>4, <1>5, <1>6, <1>7

\* The analysis is safe, for any number of tasks, any periods, programs and
\* priorities, and any release phases: a task with a response time
\* never misses a deadline, and no job of it takes longer.
THEOREM AnalysisIsSound == Spec => [](Analysable /\ Staggered => ResponseSafe)
<1>1. TypeOK /\ JobLifecycle /\ ReleasesKeepPhase /\ Standing
        /\ (OnlyComputes => AllPlain /\ RunsThePick)
        /\ (Analysable /\ Staggered => \A t \in Periodic(task_set) : KernelBounds(t))
        => (Analysable /\ Staggered => ResponseSafe)
  <2> SUFFICES ASSUME TypeOK, JobLifecycle, ReleasesKeepPhase, Standing, AllPlain, OnlyComputes,
                      NEW t \in Periodic(task_set), KernelBounds(t), Response(t) # Never
               PROVE  /\ deadlines_missed[t] = 0
                      /\ mode = "tick" /\ job_active[t] => Age(t) + 1 < Response(t)
    BY DEF Analysable, ResponseSafe
  <2>1. mode = "tick" => Turn = "arrive" /\ Time = now
    BY DEF Turn, Time
  <2> QED
    BY <2>1, JobsOfProcessor DEF KernelBounds, Age
<1> QED
  BY <1>1, KernelBounded, TypeCorrect, JobsAccounted, ReleasesInPhase, StandingInvariant,
     PlainInvariant, PTL

\* The verdict of the analysis is exact for tasks released together: who has a
\* response time misses no deadline, and who has none has missed the first.
THEOREM AnalysisIsExact == Spec => [](Analysable /\ Synchronous => AnalysisExact)
<1>1. (Analysable /\ Staggered => \A t \in Periodic(task_set) : KernelBounds(t))
        /\ (Analysable /\ Synchronous =>
                \A t \in Periodic(task_set) : KernelReaches(t) /\ KernelRepeats(t))
        => (Analysable /\ Synchronous => AnalysisExact)
  <2> SUFFICES ASSUME NEW t \in Periodic(task_set), KernelBounds(t), KernelReaches(t)
               PROVE  /\ Response(t) # Never => deadlines_missed[t] = 0
                      /\ Response(t) = Never /\ mode = "quantum" /\ now > period(t)
                           => deadlines_missed[t] >= 1
    BY TogetherHolds DEF AnalysisExact
  <2>1. mode = "quantum" => Time = now
    BY DEF Time
  <2> QED
    BY <2>1 DEF KernelBounds, KernelReaches
<1> QED
  BY <1>1, KernelBounded, KernelReached, PTL

\* And its response time is the worst case: the first job takes exactly as long,
\* and no later one longer.
THEOREM ResponseIsExact == Spec => [](Analysable /\ Synchronous => ResponseExact)
<1>1. TypeOK /\ JobLifecycle /\ ReleasesKeepPhase /\ Standing
        /\ (OnlyComputes => AllPlain /\ RunsThePick)
        /\ (Analysable /\ Staggered => \A t \in Periodic(task_set) : KernelBounds(t))
        /\ (Analysable /\ Synchronous =>
                \A t \in Periodic(task_set) : KernelReaches(t) /\ KernelRepeats(t))
        => (Analysable /\ Synchronous => ResponseExact)
  <2> SUFFICES ASSUME TypeOK, JobLifecycle, ReleasesKeepPhase, Standing, AllPlain, OnlyComputes,
                      task_set \in TaskSet,
                      NEW t \in Periodic(task_set), KernelBounds(t), KernelReaches(t),
                      Response(t) # Never
               PROVE  /\ jobs_completed[t] >= 1 => now >= Response(t)
                      /\ mode = "tick" /\ job_active[t] => Age(t) + 1 < Response(t)
    BY TogetherHolds, TaskSetTyped DEF Analysable, ResponseExact
  <2>1. mode = "tick" => Turn = "arrive" /\ Time = now
    BY DEF Turn, Time
  <2>2. mode = "tick" /\ job_active[t] => Age(t) + 1 < Response(t)
    BY <2>1, JobsOfProcessor DEF KernelBounds, Age
  <2>3. ASSUME jobs_completed[t] >= 1 PROVE now >= Response(t)
    <3>1. Response(t) \in Nat
      BY ResponseTimeIsLeast DEF Response
    <3>2. jobs_completed[t] > 0 /\ now \in Nat
      BY <2>3, JobsOfProcessor
    <3>3. Response(t) <= IF Turn = "arrive" THEN Time ELSE Time - 1
      BY <3>2 DEF KernelReaches
    <3>4. Time \in Int /\ Time <= now
      BY <3>2 DEF Time
    <3> QED
      BY <3>1, <3>2, <3>3, <3>4
  <2> QED
    BY <2>2, <2>3
<1> QED
  BY <1>1, KernelBounded, KernelReached, TypeCorrect, JobsAccounted, ReleasesInPhase,
     StandingInvariant, PlainInvariant, PTL

\* The utilization bound is sufficient: every set within it, with rate-monotonic
\* priorities and any release phases, runs without a missed deadline.
THEOREM BoundIsSufficient == Spec => [](Analysable /\ Staggered /\ RateMonotone => BoundSufficient)
<1>1. TypeOK /\ (Analysable /\ Staggered => \A t \in Periodic(task_set) : KernelBounds(t))
        => (Analysable /\ Staggered /\ RateMonotone => BoundSufficient)
  <2> SUFFICES ASSUME TypeOK, OnlyComputes, RateMonotone, within_rm_bound(task_set),
                      NEW t \in Periodic(task_set), KernelBounds(t)
               PROVE  deadlines_missed[t] = 0
    BY DEF Analysable, BoundSufficient
  <2>1. task_set \in TaskSet
    BY TaskSetTyped
  <2>2. ShortFirst(task_set, t)
    <3>1. \A u : task_set.base_priority[u] = base_priority(u) /\ task_set.period[u] = period(u)
      BY DEF task_set, TaskSetOf, base_priority, period
    <3> QED
      BY <3>1 DEF ShortFirst, interferers, RateMonotone
  <2>3. Response(t) # Never
    BY <2>1, <2>2, BoundAdmits DEF Response
  <2> QED
    BY <2>3 DEF KernelBounds
<1> QED
  BY <1>1, TypeCorrect, KernelBounded, PTL

\* A multiple of the hyperperiod is a multiple of every period.
LEMMA MultipleOfPeriod ==
    ASSUME TypeOK, OnlyComputes, now <= Horizon, now % hyperperiod(task_set, Horizon + 1) = 0,
           NEW t \in Periodic(task_set)
    PROVE  \E k \in Nat : now = k * period(t)
<1> DEFINE H == hyperperiod(task_set, Horizon + 1)
           T == period(t)
<1>1. task_set \in TaskSet /\ t \in Tasks /\ task_set.period[t] = T
  BY TaskSetTyped, PeriodicTyped
<1>2. H \in Nat \ {0} /\ (H = Horizon + 1 \/ Divides(T, H))
  BY <1>1, HyperperiodMultiple, HorizonAssumption
<1>3. now \in Nat /\ T \in Nat
  <2>1. T # Never
    BY <1>1 DEF Periodic
  <2> QED
    BY <1>1, <2>1, TimesTyped
<1>4. now % H = 0
  OBVIOUS
<1> HIDE DEF H, T
<1>5. now = (now \div H) * H /\ now \div H \in Nat
  <2>1. now = (now \div H) * H + (now % H) /\ now \div H \in Nat
    BY <1>2, <1>3, DivisionExact
  <2>2. (now \div H) * H \in Nat
    BY <1>2, <2>1
  <2> QED
    BY <1>3, <1>4, <2>1, <2>2
<1>6. CASE H = Horizon + 1
  <2>1. now < H
    BY <1>2, <1>3, <1>6, HorizonAssumption
  <2>2. now = 0
    BY <1>2, <1>3, <1>4, <2>1
  <2>3. 0 * T = 0
    BY <1>3
  <2> QED
    BY <2>2, <2>3 DEF T
<1>7. CASE Divides(T, H)
  <2>1. Divides(T, now)
    BY <1>2, <1>3, <1>5, <1>7, DividesMultiple
  <2> QED
    BY <2>1 DEF Divides, T
<1> QED
  BY <1>2, <1>6, <1>7

\* The schedule of a schedulable set released together repeats with the
\* hyperperiod, for every set of independent tasks.
THEOREM ScheduleDoesRepeat == Spec => [](Analysable /\ Synchronous => ScheduleRepeats)
<1>1. TypeOK /\ JobLifecycle /\ ReleasesKeepPhase /\ Standing /\ now <= Horizon
        /\ (OnlyComputes => AllPlain /\ RunsThePick)
        /\ (Analysable /\ Synchronous =>
                \A t \in Periodic(task_set) : KernelReaches(t) /\ KernelRepeats(t))
        => (Analysable /\ Synchronous => ScheduleRepeats)
  <2> SUFFICES ASSUME TypeOK, JobLifecycle, ReleasesKeepPhase, Standing, now <= Horizon,
                      AllPlain, OnlyComputes, schedulable(task_set), mode = "tick",
                      now % hyperperiod(task_set, Horizon + 1) = 0,
                      NEW t \in Periodic(task_set), KernelRepeats(t)
               PROVE  /\ ~job_active[t]
                      /\ next_release[t] = now + 1
                      /\ jobs_completed[t] * period(t) = now
    BY DEF Analysable, ScheduleRepeats
  <2>1. PICK k \in Nat : now = k * period(t)
    BY MultipleOfPeriod
  <2>2. Turn = "arrive" /\ Time = now /\ Response(t) # Never
    BY DEF Turn, Time, Response, schedulable
  <2>3. /\ Left[t] = 0 /\ jobs_completed[t] = k
        /\ setup.release_phase[t] + jobs_released[t] * period(t) = now + 1
    BY <2>1, <2>2 DEF KernelRepeats
  <2>4. ~job_active[t] /\ next_release[t] = now + 1
    BY <2>3, JobsOfProcessor
  <2> QED
    BY <2>1, <2>3, <2>4
<1> QED
  BY <1>1, KernelReached, ClockBounded, TypeCorrect, JobsAccounted, ReleasesInPhase,
     StandingInvariant, PlainInvariant, PTL
=============================================================================
