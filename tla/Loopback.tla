------------------------------ MODULE Loopback ------------------------------
(***************************************************************************)
(* Loopback() of src/loopback.go: net.Interfaces, then for every interface *)
(* in order its Addrs; the first interface with a loopback *net.IPNet      *)
(* address gives the result. err is shared by the whole scan: each Addrs   *)
(* call overwrites it. An interface is modelled by what its Addrs call     *)
(* returns: an error, or the kinds of its addresses ("loop" for one whose  *)
(* IP.IsLoopback(), "other" for any other); on Linux Addrs yields only     *)
(* *net.IPNet values.                                                      *)
(***************************************************************************)
EXTENDS Naturals, Sequences, FiniteSets

CONSTANTS
    MaxIfaces,    \* interfaces net.Interfaces may return
    ListError,    \* net.Interfaces failed
    AddrsError    \* this interface's Addrs failed

\* What one Addrs call may return.
AddrResults == {AddrsError} \cup SUBSET {"loop", "other"}

\* Every result of net.Interfaces up to MaxIfaces interfaces.
Inputs == {ListError} \cup UNION {[1..n -> AddrResults] : n \in 0..MaxIfaces}

VARIABLES
    ifaces,   \* what net.Interfaces returned
    i,        \* the interface the loop is at
    err,      \* the shared err: "nil", "list" or "addrs"
    result    \* the returned index and error, Running until then

vars == <<ifaces, i, err, result>>

Running == [index |-> 0, err |-> "running"]

\* The interfaces the loop runs over: none when net.Interfaces failed.
Ifs == IF ifaces = ListError THEN <<>> ELSE ifaces

\* A faulty variant of Scan that gives up at the first Addrs error.
ScanStopOnError ==
    /\ result = Running /\ i <= Len(Ifs)
    /\ IF ifaces[i] = AddrsError
       THEN result' = [index |-> 0, err |-> "addrs"] /\ UNCHANGED <<i, err>>
       ELSE IF "loop" \in ifaces[i]
       THEN result' = [index |-> i, err |-> "nil"] /\ UNCHANGED <<i, err>>
       ELSE err' = "nil" /\ i' = i + 1 /\ UNCHANGED result
    /\ UNCHANGED ifaces

\* One iteration: Addrs sets err; on success the addresses are searched
\* and a loopback one returns the interface's index.
Scan ==
    /\ result = Running /\ i <= Len(Ifs)
    /\ IF ifaces[i] = AddrsError
       THEN err' = "addrs" /\ i' = i + 1 /\ UNCHANGED result
       ELSE IF "loop" \in ifaces[i]
       THEN result' = [index |-> i, err |-> "nil"] /\ UNCHANGED <<i, err>>
       ELSE err' = "nil" /\ i' = i + 1 /\ UNCHANGED result
    /\ UNCHANGED ifaces

\* After the loop, or when net.Interfaces failed: the error is the last
\* one err holds, or "not found".
NotFound ==
    /\ result = Running
    /\ i > Len(Ifs)
    /\ result' = [index |-> 0, err |-> IF err = "nil" THEN "notfound" ELSE err]
    /\ UNCHANGED <<ifaces, i, err>>

Init ==
    /\ ifaces \in Inputs
    /\ i = 1
    /\ err = IF ifaces = ListError THEN "list" ELSE "nil"
    /\ result = Running

Next == Scan \/ NotFound

Spec == Init /\ [][Next]_vars

-----------------------------------------------------------------------------
(* Properties.                                                             *)

\* The reference: the interfaces, in the order listed, whose Addrs
\* succeeded and include a loopback address.
LoopIfaces ==
    {j \in DOMAIN Ifs : Ifs[j] # AddrsError /\ "loop" \in Ifs[j]}

\* Loopback returns the index of the first interface with a loopback
\* address, whatever Addrs errors came before or after it, and an error
\* exactly when there is none.
LoopbackIsFirst ==
    result # Running =>
        IF LoopIfaces = {}
        THEN result.index = 0 /\ result.err # "nil"
        ELSE /\ result.err = "nil"
             /\ result.index \in LoopIfaces
             /\ \A j \in LoopIfaces : result.index <= j
=============================================================================
