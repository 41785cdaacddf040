---------------------------- MODULE LockService ----------------------------
(***************************************************************************)
(* What the kernel promises of its mutexes, without tasks, priorities,     *)
(* ticks or wait lists: clients hold locks and want locks.  A client that  *)
(* wants a lock does nothing until it has it; a lock that is wanted goes   *)
(* from its holder straight to a client that wants it.                     *)
(***************************************************************************)
CONSTANTS Clients, Locks

VARIABLES
    holds,      \* [Clients -> sets of locks]
    wants       \* [Clients -> sets of locks, at most one each]

lockServiceVars == <<holds, wants>>

Init ==
    /\ holds = [c \in Clients |-> {}]
    /\ wants = [c \in Clients |-> {}]

Free(l) == \A c \in Clients : l \notin holds[c]
Wanted(l) == \E c \in Clients : l \in wants[c]

Acquire(c, l) ==
    /\ wants[c] = {}
    /\ Free(l)
    /\ holds' = [holds EXCEPT ![c] = @ \union {l}]
    /\ UNCHANGED wants

Request(c, l) ==
    /\ wants[c] = {}
    /\ ~Free(l)
    /\ wants' = [wants EXCEPT ![c] = {l}]
    /\ UNCHANGED holds

Release(c, l) ==
    /\ wants[c] = {}
    /\ l \in holds[c]
    /\ ~Wanted(l)
    /\ holds' = [holds EXCEPT ![c] = @ \ {l}]
    /\ UNCHANGED wants

HandOver(c, w, l) ==
    /\ wants[c] = {}
    /\ l \in holds[c]
    /\ l \in wants[w]
    /\ holds' = [holds EXCEPT ![c] = @ \ {l}, ![w] = @ \union {l}]
    /\ wants' = [wants EXCEPT ![w] = {}]

Next ==
    \E c \in Clients, l \in Locks :
        \/ Acquire(c, l)
        \/ Request(c, l)
        \/ Release(c, l)
        \/ \E w \in Clients : HandOver(c, w, l)

Spec == Init /\ [][Next]_lockServiceVars
=============================================================================
