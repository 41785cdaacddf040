--------------------------- MODULE TickArithmetic ---------------------------
(***************************************************************************)
(* The times of a task at the width the code gives them.  The kernel's     *)
(* model lets them be any natural number; in the code they are u64, the    *)
(* greatest value also means never, and a sum that does not fit panics in  *)
(* a debug build and wraps in a release build.                             *)
(*                                                                         *)
(* One task, alone on the processor, whose jobs sleep once and end.        *)
(***************************************************************************)
EXTENDS Integers

CONSTANTS
    Limit,      \* one more than the greatest time
    Periods,    \* periods under study
    Delays,     \* lengths of the sleep under study
    Ticks       \* bound: ticks run

ASSUME LimitAssumption == Limit \in Nat \ {0, 1} /\ Ticks \in Nat /\ Ticks < Limit
ASSUME LengthsAssumption == Periods \subseteq 0..Limit-1 /\ Delays \subseteq 0..Limit-1

NEVER == Limit - 1

VARIABLES
    checked,        \* the build panics on overflow
    period, delay,  \* the task
    now, turn,      \* the tick, and whether the interrupt or the task is next
    next_release, deadline, wake_at,
    job_active, missed_current, asleep, pc,
    released_at, slept_at,  \* history: when the job was released and fell asleep
    panicked

task == <<checked, period, delay>>
vars == <<task, now, turn, next_release, deadline, wake_at, job_active, missed_current,
          asleep, pc, released_at, slept_at, panicked>>

TickInit ==
    /\ checked \in BOOLEAN
    /\ period \in Periods
    /\ delay \in Delays
    /\ now = 0 /\ turn = "isr"
    /\ next_release = 1 /\ deadline = 0 /\ wake_at = 0
    /\ job_active = FALSE /\ missed_current = FALSE /\ asleep = FALSE /\ pc = 0
    /\ released_at = 0 /\ slept_at = 0
    /\ panicked = FALSE

overflows(a, b) == checked /\ a + b >= Limit

plus(a, b) == (a + b) % Limit

\* A fault: sleepers wake one tick early.
expired_early == asleep /\ now' + 1 >= wake_at

Expired == asleep /\ now' >= wake_at

\* A fault: never is a deadline like any other.
late_at_never == now' >= deadline'

Late == deadline' # NEVER /\ now' >= deadline'

\* The tick interrupt.
Interrupt ==
    /\ turn = "isr" /\ ~panicked /\ now < Ticks
    /\ now' = now + 1
    /\ turn' = "run"
    /\ LET due == ~job_active /\ next_release # NEVER /\ now' >= next_release
       IN  /\ panicked' = (due /\ (overflows(now', period) \/ overflows(next_release, period)))
           /\ deadline' = IF due THEN plus(now', period) ELSE deadline
           /\ next_release' = IF due THEN plus(next_release, period) ELSE next_release
           /\ pc' = IF due THEN 0 ELSE pc
           /\ released_at' = IF due THEN now' ELSE released_at
           /\ job_active' = (due \/ job_active)
           /\ asleep' = (asleep /\ ~Expired)
           /\ missed_current' =
                ((~due /\ missed_current) \/ (job_active' /\ Late))
    /\ UNCHANGED <<task, wake_at, slept_at>>

\* The quantum: the job sleeps, or it ends.
Run ==
    /\ turn = "run" /\ ~panicked
    /\ turn' = "isr"
    /\ \/ /\ ~job_active \/ asleep
          /\ UNCHANGED <<job_active, asleep, pc, wake_at, slept_at, panicked>>
       \/ /\ job_active /\ ~asleep /\ pc = 0 /\ delay > 0
          /\ panicked' = overflows(now, delay)
          /\ wake_at' = plus(now, delay)
          /\ asleep' = TRUE
          /\ pc' = 1
          /\ slept_at' = now
          /\ UNCHANGED job_active
       \/ /\ job_active /\ ~asleep
          /\ pc = 1 \/ delay = 0
          /\ job_active' = FALSE
          /\ pc' = 0
          /\ UNCHANGED <<asleep, wake_at, slept_at, panicked>>
    /\ UNCHANGED <<task, now, next_release, deadline, missed_current, released_at>>

\* The run is over, or it has panicked.
TickStops ==
    /\ \/ panicked
       \/ now = Ticks /\ turn = "isr"
    /\ UNCHANGED vars

TickSpec == TickInit /\ [][Interrupt \/ Run \/ TickStops]_vars

-----------------------------------------------------------------------------
\* The sums the code means.
due_at == released_at + period
sleep_end == slept_at + delay

\* A sleeper becomes ready at exactly the tick it asked for, u64::MAX included;
\* when the sum wraps it does at the next tick, which happens in a build
\* without overflow checks only.
SleepsFully ==
    [][asleep /\ ~asleep' => IF sleep_end < Limit
                             THEN now' = sleep_end
                             ELSE ~checked /\ now' = slept_at + 1]_vars

\* A job is flagged exactly from the tick at which it has been there for a
\* period, but never if that tick is u64::MAX; when the sum wraps the job is
\* flagged at once, which happens in a build without overflow checks only.
MissExact ==
    job_active /\ turn = "run" /\ ~panicked =>
        IF due_at < Limit
        THEN missed_current <=> due_at # NEVER /\ now >= due_at
        ELSE ~checked /\ missed_current
=============================================================================
