# A verification of the Emberchip kernel

Emberchip (`src/`) is a deterministic simulator of a small real-time operating
system: a preemptive fixed-priority kernel with mutexes and priority
inheritance, semaphores and message queues, on an emulated microcontroller with
a tick timer, an interrupt latch, GPIO pins and a UART. This directory holds
TLA+ modules that model the kernel and its hardware, TLC configurations that
check them on small instances, and TLAPS proofs of what holds on all instances.

## 1. The system

| Component | Source (under `src/src/`) | State | Operations | Correct when |
|---|---|---|---|---|
| Task model | `kernel/task.rs` | base priority, period, program of `Op`s | construction | constant during a run |
| Mutexes | `kernel/mutex.rs` | owner, wait list | try_acquire, add_waiter, release | owner, wait list and tasks agree; exclusion; hand-off to the most urgent waiter |
| Semaphores | `kernel/semaphore.rs` | count, maximum, wait list | try_wait, add_waiter, signal | units conserved; nobody waits beside a unit |
| Queues | `kernel/queue.rs` | buffer, capacity, two wait lists, counters | try_send, try_recv, wake_receiver, wake_sender | FIFO, each value once; no lost wake-up |
| Timer, interrupts | `mcu/timer.rs`, `mcu/interrupt.rs`, `mcu/mod.rs` | countdown, latch | clock, raise, take_pending | one tick interrupt per reload clocks, none lost |
| GPIO, UART | `mcu/gpio.rs`, `mcu/uart.rs` | pins, text sent | set, toggle, write | each effect exactly once |
| Tick interrupt | `kernel/mod.rs` `on_tick` | jobs: next release, deadline, active, missed | release, wake sleepers, flag misses | releases stay on their grid; misses flagged at the deadline |
| Scheduler | `kernel/mod.rs` `step`, `pick` | running task, task states | dispatch, preempt, idle | one running task, the most urgent |
| Interpreter | `kernel/mod.rs` `run_quantum`, `complete_job` | program position, remaining work | eleven operations | no operation repeated or skipped; CPU time = work |
| Inheritance | `kernel/mod.rs` `apply_inheritance`, `recompute_holder` | effective priorities, held sets | boost a chain, restore | exactly the boosts justified by waiters; bounded inversion |
| Scenarios | `workload.rs` | none | task sets, their hyperperiods, `blocking_ticks` | inversion and blocking are what the tests measure; deadlines are met |
| Schedulability | `schedulability.rs` | none | utilization bound, response times | the verdict agrees with the kernel |
| Stress harness | `bin/stress.rs` | folds over the log | six scenarios that scale | what each scenario asserts of a run |
| RAM, RNG, log, timeline, CLI, playground | `mcu/memory.rs`, `rng.rs`, `kernel/event.rs`, `timeline.rs`, `bin/emberchip.rs`, `lib.rs`, `docs/` | | | not part of the kernel's behaviour (section 7) |

**How they interact.** `Kernel::run` calls `step` once per tick. A step clocks
the hardware (the timer may latch an interrupt), drains the latch (the timer
interrupt runs `on_tick`, which releases jobs, wakes sleepers and flags missed
deadlines), picks a task, and runs one quantum of it. Within the quantum the
task's operations call into mutexes, semaphores and queues, which hold *task
indices* in their wait lists; the kernel must keep the fields of the tasks
(state, blocking reason, position, held mutexes, effective priority) in step
with those lists by hand. There are no threads and no callbacks except the
`priority_of` closures, which read a snapshot of the effective priorities.

**What is hard.** Concurrency here is the interleaving of *task programs* by
releases, sleeps, preemption and hand-offs, at operation granularity. The state
of one wait is spread over up to nine fields in two structures. A waiter is
resumed in two ways: a mutex or a unit is *handed over* and the waiter advanced
past its operation, whereas a queue partner is only woken and *retries*. Boosts
form chains. The edges are in the timing: the tick at a deadline, the job that
overruns its period, work of length zero, timers that skip clocks.
`PROJECT.json` lists these hazards with their source lines.

## 2. Modules

| Module | Models | Builds on |
|---|---|---|
| `TaskModel` | priorities, operations, states, blocking reasons, setups; the rule "highest priority, then lowest id" (`Best`) | |
| `Mutex`, `Semaphore`, `Queue` | the three synchronization objects, one operator per method | `TaskModel` |
| `Mcu` | timer, interrupt latch, GPIO, UART | `TaskModel` |
| `Kernel` | the tick loop, the interrupt, the scheduler, the interpreter, jobs, inheritance: the composition | all of the above |
| `KernelInvariants` | invariants and action properties | `Kernel` |
| `KernelProperties` | properties that sum over programs or follow chains of waiters; the loop of `apply_inheritance`; what the documentation says about time | `KernelInvariants`, `TaskSets` |
| `KernelHistory` | the kernel with history variables: what the folds of the stress harness compute from the log; waits as `BlockingTracker` measures them, one that goes on with the ticks it has lasted (`blocking_ticks` returns the first completed wait, `u64::MAX` for one that goes on) | `KernelProperties` |
| `LockService`, `KernelRefinesLocks` | an abstract lock service, and the mapping of the kernel to it | `KernelInvariants` |
| `Processor`, `KernelRefinesProcessor` | an ideal priority-driven processor, and the mapping of the kernel to it | `KernelProperties`, `TaskSets` |
| `TaskSets` | the work of programs and sets of periodic tasks: `Works`, `compute_budget`, `gcd`, `lcm`, `hyperperiod`, `power`, `rm_bound`, the two random generators | `TaskModel` |
| `Schedulability` | `response_time` (`interference`, `demand`, the loop as `iteration`) and the verdict of `analyze` | `TaskSets` |
| `KernelSchedulability` | what the analysis says against what the kernel does, and the task sets it is about | `KernelRefinesProcessor`, `Schedulability` |
| `Workload` | the scenarios of `workload.rs` as setups; the inversion scenarios as families | `TaskModel` |
| `Stress` | the scenarios of the stress harness, scaled as in the code | `Workload` |
| `KernelScenarios` | what the scenarios promise when the kernel runs them | `KernelHistory`, `Stress` |
| `TickArithmetic` | releases, deadlines and sleeps in numbers of fixed width | |
| `MCKernel`, `MCHistory`, `MCSchedulability`, `MCScenarios`, `MCTickArithmetic` | instances for TLC | |
| `TaskSetProofs`, `ProcessorProofs`, `KernelProofs`, `WorkProofs`, `TimeProofs`, `LockProofs`, `HistoryProofs`, `ArithmeticProofs` | theorems and proofs (section 5) | |

**State and actions.** A variable is a field of a Rust struct, as a function
over tasks, mutexes, semaphores or queues, with the field's name. `setup` holds
what is fixed before a run: configuration, priorities, periods, programs,
capacities, first releases. A run of the program is a function of these and
nothing else, so the specification chooses a setup in `Init` and what TLC
explores is every setup of a set. Within one call of `step`, `mode` tells which
phase comes next:

| `mode` | Action | Code |
|---|---|---|
| `tick` | `Tick` | `now += 1`, `Mcu::cycle` |
| `isr` | `ServiceInterrupts` | the `take_pending` loop, with all of `on_tick` |
| `dispatch` | `Dispatch(t)`, `Idle` | `pick`, the decision check, preemption |
| `quantum` | `Compute`, `Delay`, `Peripheral`, `Lock`, `BlockOnMutex`, `Unlock`, `SemWait`, `SemSignal`, `QueueSend`, `QueueRecv`, `EndOfProgram` | one turn of the loop in `run_quantum` |

Each action does everything its arm of the match does: `Unlock` releases, hands
over, advances both tasks and recomputes both priorities in one step. The
three loops of `on_tick` are one action; `Overdue` reads the primed job
variables because its loop runs after the releases.

**Abstractions.** Vectors used as sets are sets (wait lists and held mutexes:
their order is never used, and the choice among waiters is by priority and id).
The walk of `apply_inheritance` is stated as the least set of owners closed
under "is owner of what a boosted task waits for, and is less urgent"
(`Boosted`): no recursion is needed and the proofs can use it. That this set is
what the loop of the code reaches, turn by turn and also on a circle of owners,
is a property of its own (`BoostIsTheWalk`), checked and proved. The latch is a set of interrupt
sources in which all GPIO lines are one, because no code raises them. `u64`
counters are naturals in `Kernel` and have their width in `TickArithmetic`.
`u64::MAX` as "no release" and a `None` period are the one value `Never`. The
log and the tick records are left out; `KernelHistory` keeps what the tests
compute from them. The UART keeps a sequence of texts. A random generator is the
set of all task sets it can draw from a given pool of periods, and the floating-point test of `rm_bound` is
multiplied out to integers. The scenarios' semaphores of unlimited maximum have
one no run can reach.

Operators under "Faulty variants" comments ("A fault: ...") are not part of the
model: each is a plausible bug used to make sure that a property can fail.

## 3. Two abstract specifications

*The lock service* (`LockService`) has clients that hold and want locks, and no
tasks, priorities, ticks or wait lists. A client that wants a lock does nothing
until it has it, and a wanted lock goes from its holder straight to one that
wants it. The kernel implements it with `holds <- held_mutexes` and
`wants <- ` the mutex a task is blocked on: the interrupt never wakes a task
out of the wait for a mutex, a job that ends with a mutex keeps it, an `Unlock` with
waiters is a hand-over and one by a stranger changes nothing. This is both
model-checked (`ImplementsLockService` in `locks`) and proved
(`LocksImplemented`).

*The processor* (`Processor`) has jobs that are amounts of work. In every tick it
gives one unit to the most urgent job with work left, jobs arrive on the grid of
their periods but not before the one at hand is done, and late jobs are counted.
It knows neither states nor preemption nor interrupts. For tasks that only
compute the kernel implements it (`ImplementsProcessor` in `timing`), which is
what the schedulability analysis takes for granted. This one too is proved
(`KernelIsTheProcessor`), and it is used: what the analysis promises is proved of the
processor, where it is a matter of arithmetic, and carried over to the kernel.

## 4. Runs

| Run | Setups | Distinct states | Shows |
|---|---|---|---|
| `locks` | 7 programs on 3 tasks and 2 mutexes, 2 priority orders (one with a tie), 2 phasings, periodic or one-shot, inheritance on and off | 322k | `SingleRunner`, `MutexConsistent`, `BlockedAtItsOperation`, `InheritanceExact`, `MutualExclusion`, `OrderedLocksNeverDeadlock`, `RisesOnlyWhenBlocking`, `MutexHandedToWaiter`, `NoInversion`, `CycleContained`, `BoostIsTheWalk`, `ImplementsLockService` |
| `sync` | 8 programs on 3 tasks, a semaphore (empty, half full, full, saturating or not), a queue (capacity 0, raised to 1, or 1, or 2), ties, periodic or one-shot | 394k | `TypeOK`, `WaitListsConsistent`, `BlockedAtItsOperation`, `NoStrandedUnit`, `QueueConserves`, `NoLostWakeup`, `EffectsExactlyOnce`, `FifoDelivery`, `UnitsConserved` |
| `timing` | 5 mixed and 5 computing programs on 3 tasks, 7 vectors of periods from idle to overloaded (period 0 included), reload 0 to 3 | 353k | `JobLifecycle`, `ReleasesKeepPhase`, `TimerExact`, `TickServicesAll`, `JobCost`, `OneUnitPerTick`, `ImplementsProcessor` |
| `inversion` | the two inversion scenarios of `workload.rs` over ranges of section lengths, bursts and arrivals (the code's own included), all mixes of 4 contending tasks, and of 4 tasks that lock in order without inheritance | 77k | `InversionBounded`, `BlockingBounded`, `LockGranted` |
| `schedulability` | every set the two generators can draw for 2 or 3 tasks from small pools of periods | 146k | `AnalysisExact`, `ResponseExact`, `ScheduleRepeats`, `BoundSufficient` |
| `scenarios` | `demo`, `contended_set`, and lockstorm, herd, queue churn, many tasks and deadlock of the harness at one to three sizes each | 12k | `MeetsDeadlines`, `BossBlockingBounded`, `EveryTaskProgresses` |
| `arithmetic` | one task that sleeps, every period and every sleep of 5 bits, up to the greatest time, checked and wrapping builds | 115k | `MissExact`, `SleepsFully` |

What they say, briefly.

- *Agreement*: the two sides of every wait and every ownership are the same at
  all times, for well- and ill-behaved programs (a foreign unlock, a double lock,
  a job that ends with a mutex held).
- *Resumption*: a blocked task stands at the operation that blocked it, and
  effects and CPU time add up to exactly what the programs passed through.
- *Inheritance*: the effective priority is exactly the greatest claim on a task;
  a boost reaches every owner of a chain; at a dispatch nothing less urgent runs
  than the task that waits behind somebody schedulable.
- *Deadlock*: ordered programs never deadlock; a deadlock that is there stays
  as it is, takes no bystander in, and loses no mutex.
- *Bounds*: less urgent work that delays a task blocked on a mutex is limited to
  critical sections, for programs that lock in order and do not sleep, take units or
  use queues inside a section (`SectionsContained`; others can hold a mutex for
  as long as somebody else likes). The sections cost their work and one extra
  quantum for each `Lock` (`SectionWork`), because after an `Unlock` the quantum goes
  on: a low task may take the mutex of a second section before it can be
  preempted. The bound adds up over the jobs released (`SectionCosts`); `inversion` has one
  job per task, the theorem (section 5) any number. The boss of the lockstorm waits
  for one section and a hand-over, whatever the number of holders and hogs.
- *Queues and semaphores*: values come out once and in order; while a receiver
  sleeps, every buffered value has a schedulable taker; no unit is made or, below
  the maximum, lost.
- *Time*: no release is lost by an overrun and a late release does not shift the
  ones after it; a deadline is seen on its tick.
- *Analysis*: a set is called schedulable exactly when it misses nothing; the
  response time is the tick on which the first job ends and no later job takes
  longer; the schedule is back at its start after the hyperperiod; the
  utilization bound is sufficient.

**Bounds.** `Horizon` is the number of ticks `run` is called with, and the only
bound on the behaviours of the kernel. It is twice the longest job in `locks` and
`sync`, several periods in `timing`, past the end of every job in `inversion`,
past the longest hyperperiod in `schedulability` (50), and past the end of a period
of every task in `scenarios` (160 at most). Two mutexes give chains of length two and both lock
orders, three tasks a waiter, an owner and an interferer (four in `inversion`,
for a chain of three and noise); capacity 1 and 2 and sleepers on both ends make
queues full, empty and in between. The sizes of the scenarios are the smallest at
which their roles interact: in the lockstorm built for 160 tasks a hog arrives while the boss
is blocked and only the boost keeps it away. `Limit` in `arithmetic` is small so that every sum
is tried below, at and beyond the greatest time, which the clock itself reaches. `Finished` lets a run that has reached the horizon stutter, so
the deadlock check of TLC is on in every run: the kernel is never stuck.

**Fairness.** `FairHistorySpec` assumes weak fairness of the next-state relation
as a whole: the loop of `Kernel::run` takes its next step, as a `for` loop does.
It assumes nothing about tasks. Which task runs is decided by the scheduler, and
`LockGranted` and `EveryTaskProgresses` depend on its decisions: a starved
low-priority task or a lost wake-up violates them under this fairness.

**Divergences from the documentation.** Five runs expect a violation; each
checks a sentence of the documentation that the code does not satisfy in a
corner case. `PROJECT.json` quotes the sentences.

| Run | Property | In short |
|---|---|---|
| `trailing` | `JobEndsWithItsBudget` | a job whose last operation is not a `Compute` needs one more quantum |
| `coarse` | `MissFlaggedAtDeadline` | with `tick_reload` above 1 a job runs, even completes, at its deadline unflagged |
| `saturation` | `SignalsNeverLost` | a signal at the maximum is dropped |
| `overtaken` | `WokenPartnerProgresses` | a woken receiver can be overtaken and block again |
| `ties` | `AnalysisExact` | tasks of equal priority delay each other; the analysis ignores it and calls an overloaded pair schedulable |

Three further observations are not runs. After an overrun a job's deadline is
one period after its late release, so it lies beyond the next release on the
grid. Sums of ticks beyond `u64::MAX` panic in a debug build and wrap in a release
build, where the job is flagged as late at the tick it is released and the sleeper wakes at
the next tick; a deadline that is exactly `u64::MAX` is taken for none and is never
flagged. `arithmetic` checks that this is all that happens. And the lockstorm's comment
(`src/src/bin/stress.rs:193`) relies on the boss blocking at every scale, but the
released pattern of some sizes (about 90 to 110 tasks) never makes it block, and
at several others no hog arrives while it does, so a run there shows nothing of
inheritance.

## 5. Proofs

Forty-two theorems hold for any sets of tasks, mutexes, semaphores and queues,
any setups (priorities, programs, periods, capacities, maxima) and any horizon:

| Module | Theorem | Statement |
|---|---|---|
| `KernelProofs` | `TypeCorrect` | `Spec => []TypeOK` |
| | `AgreementCorrect` | `Spec => []Agreement`, the inductive invariant |
| | `SingleRunnerCorrect`, `MutexCorrect`, `WaitListsCorrect` | `[]SingleRunner`, `[]MutexConsistent`, `[]WaitListsConsistent` |
| | `UnitsNeverStranded`, `ValuesConserved` | `[]NoStrandedUnit`, `[]QueueConserves` |
| | `HandOverCorrect` | `MutexHandedToWaiter` |
| | `BlockedInPlace` | `[]BlockedAtItsOperation` |
| `WorkProofs` | `JobCostHolds`, `TicksNotOverspent` | `[]JobCost`, `[]OneUnitPerTick` |
| | `EffectsAreExact` | `[]EffectsExactlyOnce` |
| `TimeProofs` | `JobsAccounted`, `ReleasesInPhase` | `[]JobLifecycle`, `[]ReleasesKeepPhase` |
| | `TimerCorrect`, `InterruptCorrect` | `[]TimerExact`, `[]TickServicesAll` |
| | `KernelIsTheProcessor` | `ImplementsProcessor`: the refinement of the processor |
| | `AnalysisIsSound` | `[](Analysable /\ Staggered => ResponseSafe)` |
| | `AnalysisIsExact`, `ResponseIsExact`, `ScheduleDoesRepeat` | `[](Analysable /\ Synchronous => AnalysisExact)`, and for `ResponseExact` and `ScheduleRepeats` |
| | `BoundIsSufficient` | `[](Analysable /\ Staggered /\ RateMonotone => BoundSufficient)` |
| `LockProofs` | `MutualExclusionHolds` | `[]MutualExclusion` |
| | `OrderExcludesDeadlock`, `CirclesStay` | `[]OrderedLocksNeverDeadlock`, `CycleContained` |
| | `LocksImplemented` | `ImplementsLockService`: the refinement of the lock service |
| | `InheritanceCorrect` | `[]InheritanceExact` |
| | `RisesCorrect`, `InversionExcluded` | `RisesOnlyWhenBlocking`, `NoInversion` |
| | `WalkIsTheBoost` | `BoostIsTheWalk` |
| `HistoryProofs` | `NoWakeupIsLost` | `[]NoLostWakeup` |
| | `FifoHolds`, `UnitsBalance` | `HistorySpec => []FifoDelivery`, `HistorySpec => []UnitsConserved` |
| | `InversionIsBounded`, `BlockingIsBounded` | `HistorySpec => []InversionBounded`, `HistorySpec => []BlockingBounded` |
| | `BossIsBlockedBriefly` | `HistorySpec => [](BriefSections => BossBlockingBounded)` |
| `TaskSetProofs` | `ResponseTimeIsLeast` | the loop of `response_time` ends, with the least window that covers its demand or with none |
| | `BoundAdmits` | in a set within `rm_bound` a task whose more urgent ones have no longer periods has a response time |
| `ProcessorProofs` | `AnalysisSound`, `AnalysisTight` | the bounds of the analysis on the ideal processor, and that they are reached |
| `ArithmeticProofs` | `MissIsExact`, `SleepIsExact` | `TickSpec => []MissExact`, `TickSpec => SleepsFully` |

The assumptions are those of `TaskModel`: task ids are a finite set of naturals,
mutex ids are naturals, `NoTask` is no task, `Never` is no tick, setups are well
typed. (`HistoryProofs` extends `KernelScenarios` and so sees its `SchedulableAssumption`
too; no proof uses it.) The two of `ArithmeticProofs` are about `TickArithmetic`, for any width,
any period and any sleep of that width: they assume only that the clock itself does not
wrap.

The theorems about the analysis say of which task sets it speaks, in terms of the
setup alone. `Analysable`: tasks only compute, the timer
interrupts every tick, no period is zero, no task has the priority of a
periodic one (the run `ties` shows what happens otherwise) and none without a
period is more urgent than a periodic one (the code's analysis ignores those).
`Staggered`: first releases are at tick 1 or later, any of them.
`Synchronous`: all at tick 1, as `add_task` leaves them; that is the worst phasing,
where the bounds are reached. `RateMonotone`: who is more urgent has no longer
period. All setups of the run
`schedulability` satisfy all four.
`BriefSections` says that sections do not nest and contain no wait, that who has
the priority of the boss is alone at the top, and that a job of another
spends at most `LOCKSTORM_CS + 1` quanta in sections: the setups that
`build_lockstorm` makes for any number of tasks.

*Type correctness* is inductive. Frame lemmas (`MutexFrame`, `SemFrame`,
`QueueFrame`, `JobFrame`, `McuFrame`) say which actions change which component,
so that each conjunct is proved against the few actions that matter.

*Agreement.* `MutexConsistent` is not inductive. When the interrupt releases a
task it clears its blocking reason; if that task were on a wait list the two
would disagree. `ActivityAgrees` excludes it: a task without an active job is
suspended or waits for its period. When a waiter is woken it must not be the
running task, which `SingleRunner` provides. And a task taken from a semaphore's
or queue's list must not be on a mutex's list, which `WaitListsConsistent`
provides, and conversely. `Agreement` is the conjunction of the four, with a
lemma per action or family of actions. Every other proof below uses it.

*Place.* `BlockedAtItsOperation` needs only that a step leaves a task where it
is, frees it from its wait, or parks it for the operation it stands at
(`PlacedWell`, shown for every action).

*Time.* The timer's countdown and the clock agree (`TimerAgrees`): what is left
to count and what has been counted make a multiple of the reload. `TimerExact`
follows by uniqueness of quotient and remainder, and `TickServicesAll` because
at a multiple the interrupt is pending and runs.

*The lock service.* The abstract `Request` is the kernel's `BlockOnMutex`,
`HandOver` its `Unlock` with waiters, and all else is `Acquire`, `Release` or a
stutter. That a hand-over goes to a client that wants the lock needs both sides
of `MutexConsistent`.

*Inheritance.* `InheritanceHolds` is inductive: a priority is the base or that of
a waiter, and at least both (`ExactFor`). When a task blocks, the set `Boosted` is
closed, so no owner down the chain is left below its waiter, and minimal, so each
boosted owner has a waiter in the set of the same priority. After a release
`recompute_holder` restores exactness of both parties. `NoInversion` follows:
along a chain priorities do not fall, and the end of the chain competes in the
pick with the priority of its most urgent waiter.

*Sections.* `Sections` ties a task's position to what it owns: a task that stands
between a `Lock` and its `Unlock` owns the mutex, and if programs lock in order it
owns nothing else. Mutual exclusion is then a consequence of a mutex having one owner. In
ordered programs a blocked owner waits above everything it owns, so the numbers
of the mutexes grow along every chain and no chain closes. A circle stays: its
members are blocked, only an owner can release, and the interrupt releases no
active job (`StuckStep`).

*Wake-ups.* `NoLostWakeup` is a count. A step on a queue changes the buffer by
one value at most, and the set of schedulable tasks standing at an operation on
that queue by its actor and the one task it wakes; all others stay there
(`AttemptersStay`). `ServedBySend` and `ServedByRecv` balance the two.

*Order.* `FifoDelivery` is inductive with the types of the logs; it is proved of
the kernel with history, whose steps are steps of the kernel.

*Units.* `UnitMoves` says what one step does to a semaphore: exactly one task
passes a `SemWait` and the count drops, or a signal is counted, dropped at the
maximum, or passed to exactly one waiter. That nobody else moves past a `SemWait`
needs `BlockedAtItsOperation`; that a dropped signal breaks no balance below the
maximum needs `NoStrandedUnit`.

*Sums.* The work, the texts and the toggles of a program are sums over a set
(`SumFunctionOnSet` of the community modules), and to reason about them is to do
induction. The induction theorems of the library take the property as an operator
parameter, which the provers cannot instantiate; but that the subsets of a finite set
are well founded is stated there without one, and a property can be passed as a
*set* of things that have it. `SubsetInduction` and `NaturalInduction` say so. From
the first follow the laws of sums: a sum takes its elements in any order
(`SumTakesAny`), depends on the values only (`SumSame`), changes by what one of
them changes (`SumChanges`), and grows along a prefix (`SumUpTo`).

*Work.* Every step does one of five things to a task (`GoesOn`): it leaves its job
alone, begins it, ends it after its last operation, moves past an operation that takes
no time, or does one unit of work, the last of its operation or its job or not.
`Standing` ties the position to the work the `Compute` at hand has left: none
without a job, less than the operation asks for, and never past the end. What a task has
executed is a multiple of its program and a prefix of it (`Contribution`), and with
`Standing` each of the five adds to it what it should. `OneUnitPerTick` is not inductive: the unit of this
tick may be used or still to be used, which `UnitsUsed` counts. `EffectsExactlyOnce`
sums over tasks as well; that a waiter which is handed something does not move
past a write needs `BlockedAtItsOperation`.

*The processor.* Among tasks that only compute nobody waits for an object
(`Plain`), so the kernel's `Runnable` are the tasks with a job and their priorities the
base priorities, and the task that runs is one `pick` allows (`RunsThePick`). A job
with a position has work left and its last operation takes time, so the job ends
with its work (`LeftFacts`); a `Compute` that takes no time is a stutter. A job is flagged exactly when
an interrupt that has been served was at or after its deadline, which turns the
processor's count of misses into the kernel's.

*The walk.* The loop of `apply_inheritance` is a recursive function, and
`TurnsExist` shows by induction that there is one. After *n* turns it has raised
*n* tasks of `Boosted` that have passed the boost on, or it has left the loop
(`Walked`). The task that blocked is never among them, so the loop is left within as many turns
as there are tasks, and what it raised is then closed under waiting: it is all of `Boosted`.

*Fixed width.* A deadline is the release time plus the period and a wake-up time the
time of the sleep plus its length, or less than that by the limit in a build that wraps
(`Computed`). A wrapped deadline lies before the release, so the interrupt that
releases the job flags it; a wrapped wake-up time lies before the sleep, so the
next interrupt ends it, and in every other case a sleeper's time has not come (`TimesAgree`).

*Bounded inversion.* Neither bound is inductive, and no bound on a single wait is: a
low task may have used part of its section before anybody waits. Each task has
an `account` of the quanta it has had to get out of its sections: the `SectionWork`
behind it, and what the operation at hand has had. A task that could run
in its section but does not has one quantum still to come (`Reserved`), which is
subtracted. That is what makes it work: when a task is dispatched inside
its section, its account rises by that one quantum; when it is preempted or a
zero-length operation passes, it does not fall. No step lowers an account (`AccountStep`), and
none exceeds `SectionCosts` (`AccountBelow`). A dispatch that inverts *t*
is one of a task inside a section: the chain of *t* ends in a schedulable owner
(`ChainEndsRunnable`, which needs that no chain closes and that nobody sleeps in
a section), as in `InversionExcluded` the picked task is at least as urgent as *t*,
and being less urgent by its base it must be boosted, so it owns a mutex. So
its account pays (`InversionIsSpent`), and `Paid`, `inverted[t]` at most the sum of the
accounts of the less urgent, is inductive. For the most urgent task every tick of a wait is
a tick of inversion (`WaitsCounted`): while it waits, the processor is never idle
and only less urgent tasks run.

*One section.* `BossBlockingBounded` is about single waits, so `account` is taken
relative to the job at hand: `spent` is what the owner has had for its sections in
this job. Where sections do not nest, a task in a section waits for no mutex (`OwnersRun`), so
a task that waits owns none and keeps its own priority (`WaitersAreNotBoosted`).
Hence whoever is dispatched while the boss waits is boosted by the boss itself and
owns its mutex (`OnlyTheOwnerRuns`); and the wait is for one owner in one job,
because a mutex that is handed over goes to the most urgent waiter, which is the
boss (`OwnerStays`). So the ticks of a wait are at most `spent` of one task plus the
quantum reserved at its start (`BossHandled`), and no job spends more than its sections cost.

*The iteration.* The loop of `response_time` is a recursive function over all
windows, and that there is one is itself proved (`IterationExists`): it is given
outright, by what the loop must come to, and shown to satisfy its equation. Demand grows with
the window, so from below no step of the loop passes a window that covers its demand
(`IterationIsLeast`).

*The analysis on the processor.* `AnalysisSound` is the critical-instant argument
as an invariant. As long as *t* has work there is a tick since which only *t* and more
urgent tasks have been served, that the work pending then was nothing, and that
what has been asked for since is at most what `demand` says of a window of that
length (`Windowed`). It opens when work arrives (`WindowOpens`), grows by a tick at
a time (`WindowGrows`), and cannot get longer than a window that covers its own demand.
So each job is done within the response time, which is at most the period, so no job is late
and the next window opens on the grid (`Punctual`). `AnalysisTight` is the
converse with all released together: until the first job of *t* is done every tick goes to it or
to a more urgent task, and what has been asked for is exactly the demand
(`FirstJob`), so it is done in the first window that covers its demand and, if
there is none, not within the period (`Misses`).

*From the processor to the kernel.* `TimeProofs` instantiates `ProcessorProofs`
under the refinement mapping and applies its lemmas to the mapped steps of
`KernelIsTheProcessor`. What remains is to translate: work left is a job that
is active, the processor's time is the clock minus the tick not yet counted, a
late job of the processor is a miss flagged by the interrupt (`KernelBounded`,
`KernelReached`).

*The hyperperiod.* At a common multiple of the periods each task has had a whole
number of releases and, if schedulable, of completed jobs. That `lcm` is a
multiple of both, through the recursive function for `gcd`, and the fold over all
periods a multiple of each (`HyperperiodMultiple`) is shown by the inductions of
*Sums* above.

*The utilization bound.* `BoundAdmits` is the theorem of Liu and Layland, in the
integers into which `within_rm_bound` multiplies it out. Suppose a task's period
is not enough. Then in that period the demand exceeds the time at each moment *x*
at which a more urgent task arrives for the last time, and at the end. So when
these last jobs of length *c* are added one by one, in the order they arrive in, to what is asked for
without them, each makes it grow by a factor of at most 1 + c/x (`MeanGrows`); with
a last factor for the end of the period, it has then more than doubled
(`MeanExceeds`). The sum of all c/x is at most the utilization, because the
least favourable work is (`WorkCovers`). But a product of *n* factors is at most the *n*-th power of
their mean, by Bernoulli's inequality and an induction that adds a task at a time
(`Bernoulli`, `MeanStep`, `MeanOfAll`), so (1 + U/n)^n > 2 and the set is not
within the bound.

**Model-checked only.** Liveness (`LockGranted`, `EveryTaskProgresses`), because
the proof system has no fairness. `MeetsDeadlines` is about the fixed setups of the
scenarios: their tasks lock, signal and send, and no general reason but their numbers
makes them meet their deadlines. The theorems on `BossBlockingBounded` and the four
properties of `schedulability` are implications, from hypotheses about the setup
that the runs' setups satisfy; that the generators make such sets for every
size is not proved.

## 6. What a reader should not conclude

The model is of the kernel with its tasks fixed before the run. Adding tasks or
objects during a run is possible through public fields; no caller does it.
`AnalysisExact` is for distinct priorities; with equal ones it is false (`ties`).
It also needs all first releases at tick 1: with other phases a task without a
response time may be lucky, and only `ResponseSafe` holds. A first release at
tick 0, which no caller asks for, puts the first job a tick late on its own grid
and outside of both.
`BoundSufficient` is for the exact bound of `rm_bound`, which the generator compares with.
`analyze` accepts a utilization above it by 1e-9 (`src/src/schedulability.rs:66`), which
no set of the run falls into; one task with a period of 1e9 ticks and one tick more of
work would, and it is not schedulable.
`BlockingBounded` is for the one most urgent task; a task between others can be
blocked by several sections in turn. Both bounds count every section of the jobs
released so far and not, as in textbooks, one section of each lower task for each
wait: they are what holds over a run, and loose for a late job of a long one.

## 7. Not modelled

- RAM: no operation of the kernel reads or writes it.
- The random generator: a pure function of the seed, used to build task sets and
  never during a run. The models take every set a generator could draw, from
  smaller pools of periods than the code's.
- The event log and the timeline: reporting. What the tests compute from the log
  is in `KernelHistory`.
- The command line: parses arguments, runs scenarios that are modelled, prints.
- The harness's determinism scenario, its chunking and hashing of the log: two
  runs from one setup are one behaviour of the model, which has no choice after
  `Init`.
- The web playground: a separate implementation for the documentation.
