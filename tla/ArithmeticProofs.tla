-------------------------- MODULE ArithmeticProofs --------------------------
(***************************************************************************)
(* Theorems about the times of a task at the width the code gives them,    *)
(* for every width, every period, every sleep and every length of the run, *)
(* in builds that check for overflow and in builds that wrap.              *)
(***************************************************************************)
EXTENDS TickArithmetic, TLAPS

Times == 0..Limit-1

TypesInRange ==
    /\ checked \in BOOLEAN /\ turn \in {"isr", "run"}
    /\ period \in Times /\ delay \in Times
    /\ now \in 0..Ticks
    /\ next_release \in Times /\ deadline \in Times /\ wake_at \in Times
    /\ job_active \in BOOLEAN /\ missed_current \in BOOLEAN /\ asleep \in BOOLEAN
    /\ released_at \in 0..now /\ slept_at \in 0..now

\* A time that was to come at the sum of two others has the value the code
\* computed, and it did not wrap in a build that would have panicked.
Computed(time, sum) ==
    IF sum < Limit THEN time = sum ELSE ~checked /\ time = sum - Limit

\* The deadline of a job is the time computed at its release, and it is flagged
\* as it should be.
DeadlineAgrees ==
    job_active =>
        /\ Computed(deadline, due_at)
        /\ missed_current <=> due_at >= Limit \/ (due_at # NEVER /\ now >= due_at)

\* A sleeper's wake-up time has not come, or it wrapped and the task has just
\* fallen asleep.
WakeUpAgrees ==
    asleep =>
        /\ job_active
        /\ Computed(wake_at, sleep_end)
        /\ IF sleep_end < Limit THEN now < wake_at ELSE now = slept_at

TimesAgree == ~panicked => DeadlineAgrees /\ WakeUpAgrees

\* A sleeper that is woken has slept for as long as the property says.
WokenInTime ==
    asleep /\ ~asleep' => IF sleep_end < Limit
                         THEN now' = sleep_end
                         ELSE ~checked /\ now' = slept_at + 1

\* The code's addition gives the sum, or wraps once, or panics.
LEMMA SumComputed ==
    ASSUME NEW a \in Times, NEW b \in Times
    PROVE  /\ plus(a, b) \in Times
           /\ ~overflows(a, b) => Computed(plus(a, b), a + b)
           /\ a + b >= Limit => plus(a, b) < a
<1>1. Limit \in Nat /\ Limit > 0 /\ a \in Nat /\ b \in Nat /\ a < Limit /\ b < Limit
  BY LimitAssumption DEF Times
<1>2. \A x \in Int : x >= 0 /\ x < Limit => (x % Limit) = x
  BY <1>1
<1>3. CASE a + b < Limit
  <2>1. plus(a, b) = a + b
    BY <1>1, <1>2, <1>3 DEF plus
  <2> QED
    BY <1>1, <1>3, <2>1 DEF Computed, Times
<1>4. CASE a + b >= Limit
  <2> DEFINE q == (a + b) \div Limit
             r == (a + b) % Limit
  <2>1. q \in Int /\ r \in Int /\ 0 <= r /\ r < Limit /\ a + b = Limit * q + r
    BY <1>1
  <2> HIDE DEF q, r
  <2>2. q >= 2 => Limit * q >= Limit * 2
    BY <1>1, <2>1
  <2>3. q <= 0 => Limit * q <= 0
    BY <1>1, <2>1
  <2>4. q = 1
    BY <1>1, <1>4, <2>1, <2>2, <2>3
  <2>5. r = a + b - Limit
    BY <1>1, <2>1, <2>4
  <2>6. plus(a, b) = a + b - Limit
    BY <2>5 DEF plus, r
  <2> QED
    BY <1>1, <1>4, <2>6 DEF Computed, Times, overflows
<1> QED
  BY <1>1, <1>3, <1>4

LEMMA TimesInit == TickInit => TypesInRange /\ TimesAgree
<1> SUFFICES ASSUME TickInit PROVE TypesInRange /\ TimesAgree
  OBVIOUS
<1>1. period \in Times /\ delay \in Times
  BY LengthsAssumption DEF TickInit, Times
<1>2. Limit \in Nat /\ Ticks \in Nat /\ Limit > 1
  BY LimitAssumption
<1>3. /\ now = 0 /\ turn = "isr" /\ next_release = 1 /\ deadline = 0 /\ wake_at = 0
      /\ job_active = FALSE /\ missed_current = FALSE /\ asleep = FALSE
      /\ released_at = 0 /\ slept_at = 0 /\ checked \in BOOLEAN
  BY DEF TickInit
<1>4. 0 \in Times /\ 1 \in Times /\ 0 \in 0..Ticks /\ 0 \in 0..0
  BY <1>2 DEF Times
<1>5. TypesInRange
  BY <1>1, <1>3, <1>4 DEF TypesInRange
<1> QED
  BY <1>3, <1>5 DEF TimesAgree, DeadlineAgrees, WakeUpAgrees

LEMMA TimesByInterrupt ==
    ASSUME TypesInRange, TimesAgree, Interrupt
    PROVE  TypesInRange' /\ TimesAgree' /\ WokenInTime
<1>1. /\ Limit \in Nat /\ Ticks \in Nat /\ Ticks < Limit /\ NEVER = Limit - 1
      /\ now \in Nat /\ now < Ticks /\ now' = now + 1 /\ turn' = "run" /\ ~panicked
      /\ now' \in Times /\ period \in Times /\ next_release \in Times
      /\ released_at \in Nat /\ released_at <= now /\ slept_at \in Nat /\ slept_at <= now
  BY LimitAssumption DEF TypesInRange, Interrupt, NEVER, Times
<1> DEFINE due == ~job_active /\ next_release # NEVER /\ now' >= next_release
<1>2. /\ panicked' = (due /\ (overflows(now', period) \/ overflows(next_release, period)))
      /\ deadline' = IF due THEN plus(now', period) ELSE deadline
      /\ next_release' = IF due THEN plus(next_release, period) ELSE next_release
      /\ released_at' = IF due THEN now' ELSE released_at
      /\ job_active' = (due \/ job_active)
      /\ asleep' = (asleep /\ ~Expired)
      /\ missed_current' = ((~due /\ missed_current) \/ (job_active' /\ Late))
      /\ checked' = checked /\ period' = period /\ delay' = delay
      /\ wake_at' = wake_at /\ slept_at' = slept_at
  BY DEF Interrupt, task
<1>3. due => ~job_active
  OBVIOUS
<1> HIDE DEF due
<1>4. /\ plus(now', period) \in Times /\ plus(next_release, period) \in Times
      /\ ~overflows(now', period) => Computed(plus(now', period), now' + period)
  BY <1>1, SumComputed
<1>5. DeadlineAgrees /\ WakeUpAgrees
  BY <1>1 DEF TimesAgree
<1>6. TypesInRange'
  <2>1. now' \in 0..Ticks /\ released_at' \in 0..now' /\ slept_at' \in 0..now'
    BY <1>1, <1>2
  <2>2. job_active' \in BOOLEAN /\ asleep' \in BOOLEAN /\ missed_current' \in BOOLEAN
    BY <1>2
  <2>3. next_release' \in Times /\ deadline' \in Times
    BY <1>2, <1>4 DEF TypesInRange
  <2>4. Times' = Times
    BY DEF Times
  <2> QED
    BY <1>1, <1>2, <2>1, <2>2, <2>3, <2>4 DEF TypesInRange
<1>7. ~panicked' => DeadlineAgrees'
  <2> SUFFICES ASSUME ~panicked', job_active' PROVE DeadlineAgrees'
    BY DEF DeadlineAgrees
  <2>1. CASE due
    <3>1. deadline' = plus(now', period) /\ Computed(plus(now', period), now' + period)
      BY <1>2, <1>4, <2>1
    <3>2. due_at' = now' + period
      BY <1>2, <2>1 DEF due_at
    <3>3. missed_current' <=> deadline' # NEVER /\ now' >= deadline'
      BY <1>2, <2>1 DEF Late
    <3>4. period \in Nat /\ period < Limit /\ now' \in Nat /\ now' < Limit
      BY <1>1 DEF Times
    <3>5. CASE now' + period < Limit
      <4>1. deadline' = now' + period
        BY <3>1, <3>5 DEF Computed
      <4> QED
        BY <3>2, <3>3, <3>4, <3>5, <4>1, <1>1 DEF Computed, DeadlineAgrees
    <3>6. CASE now' + period >= Limit
      <4>1. deadline' = now' + period - Limit /\ ~checked
        BY <3>1, <3>4, <3>6, <1>1 DEF Computed
      <4>2. deadline' # NEVER /\ now' >= deadline'
        BY <4>1, <3>4, <1>1
      <4>3. ~(due_at' < Limit) /\ due_at' >= Limit
        BY <3>2, <3>4, <3>6, <1>1
      <4>4. Computed(deadline, due_at)'
        <5>1. deadline' = due_at' - Limit
          BY <1>1, <3>2, <3>4, <4>1
        <5>2. ~checked'
          BY <1>2, <4>1
        <5> QED
          BY <4>3, <5>1, <5>2 DEF Computed
      <4> QED
        BY <3>3, <4>2, <4>3, <4>4 DEF DeadlineAgrees
    <3> QED
      BY <3>4, <3>5, <3>6, <1>1
  <2>2. CASE ~due
    <3>1. job_active /\ deadline' = deadline /\ due_at' = due_at
      BY <1>2, <2>2 DEF due_at
    <3>2. /\ Computed(deadline, due_at)
          /\ missed_current <=> due_at >= Limit \/ (due_at # NEVER /\ now >= due_at)
      BY <1>5, <3>1 DEF DeadlineAgrees
    <3>3. missed_current' <=> missed_current \/ (deadline # NEVER /\ now' >= deadline)
      BY <1>2, <2>2, <3>1 DEF Late
    <3>4. due_at \in Nat
      BY <1>1 DEF due_at, Times
    <3>5. missed_current' <=> due_at >= Limit \/ (due_at # NEVER /\ now' >= due_at)
      BY <1>1, <3>2, <3>3, <3>4 DEF Computed
    <3> QED
      BY <1>2, <3>1, <3>2, <3>5 DEF Computed, DeadlineAgrees
  <2> QED
    BY <2>1, <2>2
<1>8. asleep => /\ job_active
                /\ Computed(wake_at, sleep_end)
                /\ IF sleep_end < Limit THEN now < wake_at ELSE now = slept_at
  BY <1>5 DEF WakeUpAgrees
<1>9. sleep_end \in Nat /\ sleep_end < slept_at + Limit /\ wake_at \in Nat
  BY <1>1 DEF TypesInRange, Times, sleep_end
<1>10. asleep => (asleep' <=> ~(now' >= wake_at))
  BY <1>2 DEF Expired
<1>11. asleep /\ ~(sleep_end < Limit) => now' >= wake_at /\ ~checked /\ now = slept_at
  BY <1>1, <1>8, <1>9 DEF Computed
<1>12. WakeUpAgrees'
  <2>1. asleep' => asleep /\ job_active' /\ sleep_end < Limit /\ now' < wake_at
    <3>1. asleep' => asleep
      BY <1>2
    <3>2. asleep' => sleep_end < Limit
      BY <3>1, <1>10, <1>11
    <3>3. asleep' => now' < wake_at
      BY <3>1, <1>1, <1>9, <1>10
    <3> QED
      BY <1>2, <1>8, <3>1, <3>2, <3>3
  <2>2. asleep' => wake_at = sleep_end
    BY <1>8, <2>1 DEF Computed
  <2>3. sleep_end' = sleep_end /\ wake_at' = wake_at
    BY <1>2 DEF sleep_end
  <2> QED
    BY <2>1, <2>2, <2>3 DEF Computed, WakeUpAgrees
<1>13. WokenInTime
  <2> SUFFICES ASSUME asleep, ~asleep' PROVE WokenInTime
    BY DEF WokenInTime
  <2>1. now' >= wake_at
    BY <1>10
  <2>2. CASE sleep_end < Limit
    <3>1. wake_at = sleep_end /\ now < wake_at
      BY <1>8, <2>2 DEF Computed
    <3>2. now' = sleep_end
      BY <1>1, <1>9, <2>1, <3>1
    <3> QED
      BY <2>2, <3>2 DEF WokenInTime
  <2>3. CASE ~(sleep_end < Limit)
    BY <1>1, <1>11, <2>3 DEF WokenInTime
  <2> QED
    BY <2>2, <2>3
<1> QED
  BY <1>6, <1>7, <1>12, <1>13 DEF TimesAgree

LEMMA TimesByRun ==
    ASSUME TypesInRange, TimesAgree, Run
    PROVE  TypesInRange' /\ TimesAgree' /\ (asleep => asleep')
<1>1. /\ Limit \in Nat /\ Ticks \in Nat /\ Ticks < Limit
      /\ now \in Times /\ delay \in Times /\ Times' = Times /\ ~panicked
      /\ turn' = "isr" /\ now' = now /\ checked' = checked
      /\ period' = period /\ delay' = delay /\ next_release' = next_release
      /\ deadline' = deadline /\ missed_current' = missed_current
      /\ released_at' = released_at
  BY LimitAssumption DEF TypesInRange, Run, task, Times
<1>2. DeadlineAgrees /\ WakeUpAgrees
  BY <1>1 DEF TimesAgree
<1>3. (job_active' => job_active) => DeadlineAgrees'
  BY <1>1, <1>2 DEF DeadlineAgrees, Computed, due_at
<1>4. CASE UNCHANGED <<job_active, asleep, pc, wake_at, slept_at, panicked>>
  <2>1. TypesInRange'
    BY <1>1, <1>4 DEF TypesInRange
  <2>2. WakeUpAgrees'
    BY <1>1, <1>2, <1>4 DEF WakeUpAgrees, Computed, sleep_end
  <2> QED
    BY <1>3, <1>4, <2>1, <2>2 DEF TimesAgree
<1>5. CASE /\ job_active /\ ~asleep /\ delay > 0
           /\ panicked' = overflows(now, delay) /\ wake_at' = plus(now, delay)
           /\ asleep' = TRUE /\ slept_at' = now /\ job_active' = job_active
  <2>1. /\ wake_at' \in Times
        /\ ~panicked' => Computed(wake_at', now + delay)
    BY <1>1, <1>5, SumComputed
  <2>2. sleep_end' = now + delay /\ now < now + delay /\ slept_at' \in 0..now'
    BY <1>1, <1>5 DEF sleep_end, Times
  <2>3. TypesInRange'
    BY <1>1, <1>5, <2>1, <2>2 DEF TypesInRange
  <2>4. ~panicked' => WakeUpAgrees'
    BY <1>1, <1>5, <2>1, <2>2 DEF WakeUpAgrees, Computed
  <2> QED
    BY <1>3, <1>5, <2>3, <2>4 DEF TimesAgree
<1>6. CASE /\ ~asleep /\ job_active' = FALSE
           /\ UNCHANGED <<asleep, wake_at, slept_at, panicked>>
  BY <1>1, <1>3, <1>6 DEF TypesInRange, TimesAgree, WakeUpAgrees
<1> QED
  BY <1>4, <1>5, <1>6 DEF Run

LEMMA TimesStep ==
    TypesInRange /\ TimesAgree /\ [Interrupt \/ Run \/ TickStops]_vars =>
        TypesInRange' /\ TimesAgree' /\ WokenInTime
<1> SUFFICES ASSUME TypesInRange, TimesAgree, [Interrupt \/ Run \/ TickStops]_vars
             PROVE  TypesInRange' /\ TimesAgree' /\ WokenInTime
  OBVIOUS
<1>1. CASE UNCHANGED vars
  BY <1>1 DEF vars, task, TypesInRange, Times, TimesAgree, DeadlineAgrees, WakeUpAgrees,
              Computed, due_at, sleep_end, WokenInTime
<1>2. CASE Run
  BY <1>2, TimesByRun DEF WokenInTime
<1> QED
  BY <1>1, <1>2, TimesByInterrupt DEF TickStops

\* In u64 arithmetic, whatever the width, the period and the sleep: a job is
\* flagged exactly from the tick at which it has been there for a period, never
\* if that tick is u64::MAX, and at once if the sum wraps, which a build that
\* checks for overflow excludes.
THEOREM MissIsExact == TickSpec => []MissExact
<1>1. TickInit => TypesInRange /\ TimesAgree
  BY TimesInit
<1>2. TypesInRange /\ TimesAgree /\ [Interrupt \/ Run \/ TickStops]_vars =>
         TypesInRange' /\ TimesAgree'
  BY TimesStep
<1>3. TypesInRange /\ TimesAgree => MissExact
  <2> SUFFICES ASSUME TypesInRange, TimesAgree PROVE MissExact
    OBVIOUS
  <2>1. due_at \in Nat /\ Limit \in Nat
    BY LimitAssumption DEF TypesInRange, Times, due_at
  <2> QED
    BY <2>1 DEF TimesAgree, DeadlineAgrees, Computed, MissExact
<1> QED
  BY <1>1, <1>2, <1>3, PTL DEF TickSpec

\* Likewise a task that sleeps is ready again at exactly the tick it asked for,
\* u64::MAX included, whatever happened to its deadline in between, and at the
\* next tick if the sum wraps.
THEOREM SleepIsExact == TickSpec => SleepsFully
<1>1. TickInit => TypesInRange /\ TimesAgree
  BY TimesInit
<1>2. TypesInRange /\ TimesAgree /\ [Interrupt \/ Run \/ TickStops]_vars =>
         TypesInRange' /\ TimesAgree' /\ [WokenInTime]_vars
  BY TimesStep
<1>3. TypesInRange /\ TimesAgree /\ [Interrupt \/ Run \/ TickStops]_vars =>
         [asleep /\ ~asleep' => IF sleep_end < Limit
                                THEN now' = sleep_end
                                ELSE ~checked /\ now' = slept_at + 1]_vars
  BY <1>2 DEF WokenInTime
<1> QED
  BY <1>1, <1>2, <1>3, PTL DEF TickSpec, SleepsFully
=============================================================================
