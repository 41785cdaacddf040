------------------------------- MODULE Mutex -------------------------------
(***************************************************************************)
(* The kernel's mutexes: an owner and the tasks blocked on it.  The code   *)
(* keeps waiters in a vector; their order is never used, because the next  *)
(* owner is chosen by priority and id, and add_waiter refuses duplicates,  *)
(* so a set is the same thing.                                             *)
(***************************************************************************)
EXTENDS TaskModel

VARIABLES
    owner,      \* [Mutexes -> Tasks or NoTask]
    waiters     \* [Mutexes -> sets of tasks]

mutexVars == <<owner, waiters>>

MutexTypeOK ==
    /\ owner \in [Mutexes -> Tasks \union {NoTask}]
    /\ waiters \in [Mutexes -> SUBSET Tasks]

MutexInit ==
    /\ owner = [m \in Mutexes |-> NoTask]
    /\ waiters = [m \in Mutexes |-> {}]

is_free(m) == owner[m] = NoTask

\* Takes the mutex for t; not enabled when it is owned.
try_acquire(m, t) ==
    /\ is_free(m)
    /\ owner' = [owner EXCEPT ![m] = t]
    /\ UNCHANGED waiters

add_waiter(m, t) ==
    /\ waiters' = [waiters EXCEPT ![m] = @ \union {t}]
    /\ UNCHANGED owner

\* A fault: any task may release the mutex, not only its owner.
release_unowned(m, t, prio, next) ==
    \/ /\ waiters[m] = {}
       /\ next = NoTask
       /\ owner' = [owner EXCEPT ![m] = NoTask]
       /\ UNCHANGED waiters
    \/ /\ next \in Best(waiters[m], prio)
       /\ owner' = [owner EXCEPT ![m] = next]
       /\ waiters' = [waiters EXCEPT ![m] = @ \ {next}]

\* A fault: the new owner stays on the wait list.
release_keeps_waiter(m, t, prio, next) ==
    \/ /\ owner[m] # t \/ waiters[m] = {}
       /\ next = NoTask
       /\ owner' = [owner EXCEPT ![m] = IF @ = t THEN NoTask ELSE @]
       /\ UNCHANGED waiters
    \/ /\ owner[m] = t
       /\ next \in Best(waiters[m], prio)
       /\ owner' = [owner EXCEPT ![m] = next]
       /\ UNCHANGED waiters

\* A fault: the waiter with the lowest id gets the mutex, whatever its priority.
release_by_id(m, t, prio, next) ==
    \/ /\ owner[m] # t \/ waiters[m] = {}
       /\ next = NoTask
       /\ owner' = [owner EXCEPT ![m] = IF @ = t THEN NoTask ELSE @]
       /\ UNCHANGED waiters
    \/ /\ owner[m] = t
       /\ next \in waiters[m] /\ \A w \in waiters[m] : next <= w
       /\ owner' = [owner EXCEPT ![m] = next]
       /\ waiters' = [waiters EXCEPT ![m] = @ \ {next}]

\* Release m on behalf of t.  next is the result: the waiter that now owns m,
\* or NoTask.  A release by a task that does not own m changes nothing.
release(m, t, prio, next) ==
    \/ /\ owner[m] # t
       /\ next = NoTask
       /\ UNCHANGED mutexVars
    \/ /\ owner[m] = t
       /\ waiters[m] = {}
       /\ next = NoTask
       /\ owner' = [owner EXCEPT ![m] = NoTask]
       /\ UNCHANGED waiters
    \/ /\ owner[m] = t
       /\ next \in Best(waiters[m], prio)
       /\ owner' = [owner EXCEPT ![m] = next]
       /\ waiters' = [waiters EXCEPT ![m] = @ \ {next}]
=============================================================================
