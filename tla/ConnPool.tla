------------------------------ MODULE ConnPool ------------------------------
(***************************************************************************)
(* What the USB transport promises about its connections, independently   *)
(* of channels, goroutines and the device: a connection is idle or owned   *)
(* by exactly one party; a round trip owns at most one connection; it      *)
(* obtains only an idle connection; the ownership of a connection whose    *)
(* response was abandoned moves to a background drain task; and only the   *)
(* current owner returns a connection, once.                               *)
(***************************************************************************)
CONSTANTS
    Conns,      \* the bulk connections, one per IPP-over-USB interface
    Sessions,   \* the round trips (callers of RoundTrip)
    Drainer,    \* the owner standing for a background drain task
    NoOwner     \* the owner of an idle connection

ASSUME Drainer \notin Sessions /\ NoOwner \notin Sessions \cup {Drainer}

VARIABLES idle, owner

Owners == Sessions \cup {Drainer}

TypeOK ==
    /\ idle \subseteq Conns
    /\ owner \in [Conns -> Owners \cup {NoOwner}]

Init ==
    /\ idle = Conns
    /\ owner = [k \in Conns |-> NoOwner]

\* A round trip that holds no connection takes an idle one.
Acquire(s, k) ==
    /\ k \in idle
    /\ \A j \in Conns : owner[j] # s
    /\ idle' = idle \ {k}
    /\ owner' = [owner EXCEPT ![k] = s]

\* The response was closed before it was read to the end: the drain task
\* becomes the owner of the connection.
HandOff(k) ==
    /\ owner[k] \in Sessions
    /\ owner' = [owner EXCEPT ![k] = Drainer]
    /\ UNCHANGED idle

\* The owner of a connection gives it back.
Release(k) ==
    /\ k \notin idle
    /\ owner[k] # NoOwner
    /\ idle' = idle \cup {k}
    /\ owner' = [owner EXCEPT ![k] = NoOwner]

Next ==
    \E k \in Conns :
        \/ \E s \in Sessions : Acquire(s, k)
        \/ HandOff(k)
        \/ Release(k)

Spec == Init /\ [][Next]_<<idle, owner>>

\* Every connection is either idle or owned, never both.
Partition == \A k \in Conns : (k \in idle) <=> (owner[k] = NoOwner)
=============================================================================
