------------------------------- MODULE Queue -------------------------------
(***************************************************************************)
(* Bounded message queues with two wait lists.  A wake takes a task off    *)
(* its list and nothing more: the woken task retries its operation later,  *)
(* when the scheduler picks it.  A task is pushed on a list only when it   *)
(* blocks, and it leaves the list before it runs again, so the vectors of  *)
(* the code have no duplicates and are modelled as sets.                   *)
(***************************************************************************)
EXTENDS TaskModel

VARIABLES
    buf,            \* [Queues -> Seq(Values)]
    recv_waiters,   \* [Queues -> sets of tasks]
    send_waiters,   \* [Queues -> sets of tasks]
    sent,           \* [Queues -> Nat]
    received        \* [Queues -> Nat]

queueVars == <<buf, recv_waiters, send_waiters, sent, received>>

capacity(q) == AtLeast(setup.capacity[q], 1)

QueueTypeOK ==
    /\ buf \in [Queues -> Seq(Values)]
    /\ recv_waiters \in [Queues -> SUBSET Tasks]
    /\ send_waiters \in [Queues -> SUBSET Tasks]
    /\ sent \in [Queues -> Nat]
    /\ received \in [Queues -> Nat]

QueueInit ==
    /\ buf = [q \in Queues |-> <<>>]
    /\ recv_waiters = [q \in Queues |-> {}]
    /\ send_waiters = [q \in Queues |-> {}]
    /\ sent = [q \in Queues |-> 0]
    /\ received = [q \in Queues |-> 0]

\* A fault: one value too many fits.
is_overfull(q) == Len(buf[q]) > capacity(q)

is_full(q) == Len(buf[q]) >= capacity(q)
is_empty(q) == buf[q] = <<>>

\* A fault: the value goes to the front.
try_send_front(q, v) ==
    /\ ~is_full(q)
    /\ buf' = [buf EXCEPT ![q] = <<v>> \o @]
    /\ sent' = [sent EXCEPT ![q] = @ + 1]
    /\ UNCHANGED received

\* The values moved by a send and a receive; neither is enabled when the code
\* returns false or None.
try_send(q, v) ==
    /\ ~is_full(q)
    /\ buf' = [buf EXCEPT ![q] = Append(@, v)]
    /\ sent' = [sent EXCEPT ![q] = @ + 1]
    /\ UNCHANGED received

try_recv(q) ==
    /\ ~is_empty(q)
    /\ buf' = [buf EXCEPT ![q] = Tail(@)]
    /\ received' = [received EXCEPT ![q] = @ + 1]
    /\ UNCHANGED sent

\* The task a wake takes from a wait list, or NoTask from an empty one.
pop_best(list, prio) == IF list = {} THEN {NoTask} ELSE Best(list, prio)

\* Faults: a woken receiver stays on the list; a receive wakes nobody.
wake_receiver_listed(q, prio, r) ==
    /\ r \in pop_best(recv_waiters[q], prio)
    /\ UNCHANGED <<recv_waiters, send_waiters>>

wake_no_sender(q, prio, s) ==
    /\ s = NoTask
    /\ UNCHANGED <<recv_waiters, send_waiters>>

wake_receiver(q, prio, r) ==
    /\ r \in pop_best(recv_waiters[q], prio)
    /\ recv_waiters' = [recv_waiters EXCEPT ![q] = @ \ {r}]
    /\ UNCHANGED send_waiters

wake_sender(q, prio, s) ==
    /\ s \in pop_best(send_waiters[q], prio)
    /\ send_waiters' = [send_waiters EXCEPT ![q] = @ \ {s}]
    /\ UNCHANGED recv_waiters
=============================================================================
