----------------------------- MODULE TaskModel -----------------------------
(***************************************************************************)
(* The task model of the kernel: what a task is before it runs (priority,  *)
(* period, program), the operations a program is made of, and the rule     *)
(* every part of the kernel uses to choose one task among several.         *)
(*                                                                         *)
(* A run of the program is a pure function of its configuration and task   *)
(* set (the kernel has no other input).  The specification therefore picks *)
(* one setup in Init and never changes it; Setups is the set of all the    *)
(* setups a model is about.                                                *)
(***************************************************************************)
EXTENDS Integers, Sequences, FiniteSets

CONSTANTS
    Tasks,       \* task ids, the indices of Kernel.tasks
    NoTask,      \* Option::<usize>::None
    Never,       \* u64::MAX as a release time or deadline; a None period
    Mutexes,     \* indices of Kernel.mutexes
    Semaphores,  \* indices of Kernel.semaphores
    Queues,      \* indices of Kernel.queues
    Values,      \* values sent through queues
    Texts,       \* strings written to the UART
    PIN_COUNT,   \* number of GPIO pins
    Setups,      \* the configurations and task sets under study
    Horizon      \* bound: ticks requested of Kernel::run

Priority == 0..255

\* The operations of a program.  GPIO pins are not limited to the pins that
\* exist: the port ignores a bad pin.
Op ==      ({"Compute", "Delay"} \X Nat)
    \union ({"Lock", "Unlock"} \X Mutexes)
    \union ({"SemWait", "SemSignal"} \X Semaphores)
    \union ({"QueueSend"} \X Queues \X Values)
    \union ({"QueueRecv"} \X Queues)
    \union ({"GpioSet"} \X Nat \X BOOLEAN)
    \union ({"GpioToggle"} \X Nat)
    \union ({"Uart"} \X Texts)

TaskState == {"Ready", "Running", "Blocked", "Suspended"}

None == <<"None">>
Sleep == <<"Sleep">>
WaitPeriod == <<"WaitPeriod">>

BlockReason ==
    {None, Sleep, WaitPeriod}
        \union ({"Mutex"} \X Mutexes)
        \union ({"Semaphore"} \X Semaphores)
        \union ({"QueueSend", "QueueRecv"} \X Queues)

\* A configuration with its task set.  release_phase is the tick of the first
\* release: 1 as add_task leaves it, later where a scenario staggers a task.
Setup ==
    [ base_priority        : [Tasks -> Priority],
      period               : [Tasks -> Nat \union {Never}],
      release_phase        : [Tasks -> Nat],
      program              : [Tasks -> Seq(Op)],
      priority_inheritance : BOOLEAN,
      tick_reload          : Nat,
      sem_initial          : [Semaphores -> Nat],
      sem_max              : [Semaphores -> Nat],
      capacity             : [Queues -> Nat] ]

ASSUME TasksAssumption ==
    /\ Tasks \subseteq Nat
    /\ IsFiniteSet(Tasks)
    /\ NoTask \notin Tasks
ASSUME MutexesAssumption == Mutexes \subseteq Nat
ASSUME NeverAssumption == Never \notin Nat
ASSUME PinAssumption == PIN_COUNT \in Nat
ASSUME HorizonAssumption == Horizon \in Nat
ASSUME SetupsAssumption == \A s \in Setups : s \in Setup

VARIABLE setup

base_priority(t) == setup.base_priority[t]
program(t) == setup.program[t]
period(t) == setup.period[t]

AtLeast(a, b) == IF a >= b THEN a ELSE b
AtMost(a, b) == IF a <= b THEN a ELSE b

\* The tasks of S that win under prio: highest priority, ties to the lowest
\* id.  A singleton when S is not empty.
Best(S, prio) ==
    {w \in S : \A x \in S : \/ prio[w] > prio[x]
                            \/ prio[w] = prio[x] /\ w <= x}
=============================================================================
