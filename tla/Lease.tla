-------------------------------- MODULE Lease --------------------------------
(***************************************************************************)
(* What Memory.lock promises: one client at a time holds the resource.  A  *)
(* client gets it when nobody holds it, with a handle that releases it     *)
(* once.  It keeps it until it uses its handle or its time is over: the    *)
(* handle of another client, also of one that held the resource before,    *)
(* does nothing, and nothing else takes it away.                           *)
(***************************************************************************)
EXTENDS Integers

CONSTANTS
    Clients,   \* those who lock
    Nobody,    \* no client
    ExpireMs   \* how long a client may hold the resource

VARIABLES
    holder,   \* who holds the resource
    left,     \* the time it has left
    handles   \* the clients with a handle they have not used

Init == holder = Nobody /\ left = 0 /\ handles = {}

Acquire(c) ==
    /\ holder = Nobody
    /\ holder' = c
    /\ left' = ExpireMs
    /\ handles' = handles \cup {c}

Release(c) ==
    /\ c \in handles
    /\ handles' = handles \ {c}
    /\ IF holder = c THEN holder' = Nobody /\ left' = 0
                     ELSE UNCHANGED <<holder, left>>

Pass ==
    /\ holder # Nobody
    /\ IF left > 0 THEN holder' = holder /\ left' = left - 1
                   ELSE holder' = Nobody /\ left' = 0
    /\ UNCHANGED handles

Next == Pass \/ \E c \in Clients : Acquire(c) \/ Release(c)

Spec == Init /\ [][Next]_<<holder, left, handles>>
=============================================================================
