----------------------------- MODULE Semaphore -----------------------------
(***************************************************************************)
(* Counting semaphores.  A unit is taken from the count, or handed from a  *)
(* signal straight to the best waiter; a signal at the maximum is dropped. *)
(***************************************************************************)
EXTENDS TaskModel

VARIABLES
    count,          \* [Semaphores -> Nat]
    sem_waiters     \* [Semaphores -> sets of tasks]

semVars == <<count, sem_waiters>>

sem_max(s) == setup.sem_max[s]

SemTypeOK ==
    /\ count \in [Semaphores -> Nat]
    /\ sem_waiters \in [Semaphores -> SUBSET Tasks]

SemInit ==
    /\ count = [s \in Semaphores |-> AtMost(setup.sem_initial[s], sem_max(s))]
    /\ sem_waiters = [s \in Semaphores |-> {}]

\* A fault: the count is not checked.
try_wait_unchecked(s) ==
    /\ count' = [count EXCEPT ![s] = @ - 1]
    /\ UNCHANGED sem_waiters

\* Takes a unit; not enabled when there is none.
try_wait(s) ==
    /\ count[s] > 0
    /\ count' = [count EXCEPT ![s] = @ - 1]
    /\ UNCHANGED sem_waiters

sem_add_waiter(s, t) ==
    /\ sem_waiters' = [sem_waiters EXCEPT ![s] = @ \union {t}]
    /\ UNCHANGED count

\* A fault: the unit is counted and left for the waiters to find.
signal_counts(s, prio, woken) ==
    /\ woken = NoTask
    /\ count' = [count EXCEPT ![s] = IF @ < sem_max(s) THEN @ + 1 ELSE @]
    /\ UNCHANGED sem_waiters

\* A fault: the unit is counted even when a waiter gets it.
signal_twice(s, prio, woken) ==
    /\ count' = [count EXCEPT ![s] = IF @ < sem_max(s) THEN @ + 1 ELSE @]
    /\ woken \in IF sem_waiters[s] = {} THEN {NoTask} ELSE Best(sem_waiters[s], prio)
    /\ sem_waiters' = [sem_waiters EXCEPT ![s] = @ \ {woken}]

\* woken is the result: the waiter the unit goes to, or NoTask.
signal(s, prio, woken) ==
    \/ /\ sem_waiters[s] = {}
       /\ woken = NoTask
       /\ count' = [count EXCEPT ![s] = IF @ < sem_max(s) THEN @ + 1 ELSE @]
       /\ UNCHANGED sem_waiters
    \/ /\ woken \in Best(sem_waiters[s], prio)
       /\ sem_waiters' = [sem_waiters EXCEPT ![s] = @ \ {woken}]
       /\ UNCHANGED count
=============================================================================
