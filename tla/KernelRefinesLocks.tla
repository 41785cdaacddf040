------------------------- MODULE KernelRefinesLocks -------------------------
(***************************************************************************)
(* The kernel implements the lock service: a task holds the mutexes of its *)
(* held_mutexes and wants the one it is blocked on.                        *)
(***************************************************************************)
EXTENDS KernelInvariants

wanted_mutexes == [t \in Tasks |-> {m \in Mutexes : blocked_on[t] = <<"Mutex", m>>}]

LockServiceOf ==
    INSTANCE LockService WITH
        Clients <- Tasks,
        Locks <- Mutexes,
        holds <- held_mutexes,
        wants <- wanted_mutexes

\* Every step of the kernel is a step of the lock service or leaves it alone:
\* the interrupt never wakes a task out of the wait for a mutex, a job that
\* ends with a mutex keeps it, and a release with waiters is a hand-over.
ImplementsLockService == LockServiceOf!Spec
=============================================================================
