---------------------------- MODULE UsbTransport ----------------------------
(***************************************************************************)
(* The USB transport of ipp-usb (UsbTransport in the transport source):    *)
(* round trips that acquire a bulk connection from a buffered channel,     *)
(* write an HTTP request onto it, parse the response and hand the          *)
(* connection to a response-body wrapper that returns it, draining it in   *)
(* a goroutine when the client abandons the body; Shutdown, which waits    *)
(* for connections on the connReleased channel, and Close.                 *)
(*                                                                         *)
(* Data is abstracted to what the properties tell apart: a request is its  *)
(* framing and whether the client's body ends early; what the device       *)
(* still has to read or to send on an interface is a sequence of the       *)
(* round trips it belongs to.                                              *)
(***************************************************************************)
EXTENDS Naturals, Sequences, FiniteSets
LOCAL INSTANCE SequencesExt

CONSTANTS
    Conns,            \* one bulk connection per IPP-over-USB interface
    Sessions,         \* concurrent callers of RoundTrip
    NoConn,           \* "no connection held"
    NoSession,        \* "no response received"
    UsbFaults,        \* may a bulk transfer fail while the device is present?
    ShutdownTimeout,  \* may the context given to Shutdown expire?
    ClientRequests,   \* the requests callers make: length class, short body
    DeviceBuffer,     \* requests a device interface accepts before it
                      \* answers one; a bulk-out transfer beyond it waits
    StallConns        \* interfaces whose device may stop answering

ASSUME /\ Conns # {} /\ Sessions # {}
       /\ NoConn \notin Conns /\ NoSession \notin Sessions
       /\ UsbFaults \in BOOLEAN /\ ShutdownTimeout \in BOOLEAN
       \* Content-Length <= 0, < 16384, >= 16384; the body ends early or not
       /\ ClientRequests \subseteq [cl : {"none", "small", "large"}, short : BOOLEAN]
       /\ DeviceBuffer \in Nat \ {0}
       /\ StallConns \subseteq Conns

VARIABLES
    pool,       \* transport.connPool: the buffered channel, in FIFO order
    shutdown,   \* transport.shutdown has been closed
    sdPc,       \* where the goroutine running Shutdown, then Close, is
    pc,         \* where each round trip is
    req,        \* the outgoing request after body shaping
    cancelled,  \* the caller's request context is done
    conn,       \* the connection a round trip holds
    resp,       \* whose response the round trip's http.ReadResponse parsed
    drained,    \* usbResponseBodyWrapper.drained
    draining,   \* connections held by a background drain goroutine
    devIn,      \* per interface: requests the device received, in order
    devOut      \* per interface: response parts the device sent, unread

rtVars  == <<pc, req, cancelled, conn, resp, drained>>
devVars == <<devIn, devOut>>
vars    == <<pool, shutdown, sdPc, rtVars, draining, devVars>>

Framing      == {"none", "length", "chunked"}
NoRequest    == [framing |-> "none", short |-> FALSE]
Part         == [sess : Sessions, part : {"hdr", "body"}]
Received     == [owner : Sessions, complete : BOOLEAN]
Holding      == {"write", "read", "body"}
SdStates     == {"idle", "check", "log", "wait", "done", "timedout", "closed"}

Closed == sdPc = "closed"

\* cap(transport.connPool) - len(transport.connPool)
connInUse == Cardinality(Conns) - Len(pool)

-----------------------------------------------------------------------------
(* Body shaping, RoundTripWithSession before the connection is allocated.  *)

\* A small body is copied with io.CopyN before any connection is touched;
\* a client body that ends early makes the round trip fail right there.
PrefetchFails(r) == r.cl = "small" /\ r.short

\* A faulty variant that sends a large body with its Content-Length.
ShapeKeepLength(r) ==
    [framing |-> IF r.cl = "none" THEN "none" ELSE "length",
     short   |-> r.short /\ r.cl # "small"]

\* The framing the request is written with: nothing to do for an unknown or
\* zero length, a prefetched in-memory body keeps its Content-Length, a
\* large body is sent chunked (ContentLength = -1). The request body wrapper
\* turns any read error of the client body into io.EOF, so a chunked body
\* that ends early still ends with a well-formed last chunk.
Shape(r) ==
    [framing |-> CASE r.cl = "none"  -> "none"
                   [] r.cl = "small" -> "length"
                   [] r.cl = "large" -> "chunked",
     short   |-> r.short /\ r.cl # "small"]

\* The request reaches the device completely framed; otherwise Request.Write
\* fails with "ContentLength=N with Body length M" after part of it is sent.
RequestIntact(s) == req[s].framing # "length" \/ ~req[s].short

\* What the device holds after bytes of a request of s arrive: bytes that
\* follow an incomplete request are taken as the rest of that request.
Deliver(q, s, complete) ==
    IF q # <<>> /\ ~Last(q).complete
    THEN [q EXCEPT ![Len(q)].complete = TRUE]
    ELSE Append(q, [owner |-> s, complete |-> complete])

-----------------------------------------------------------------------------
(* Connection release: usbConn.put.                                        *)

\* Reset the buffered reader, put the connection back into the channel and
\* signal connReleased without blocking: the signal reaches Shutdown only if
\* it is blocked in its select at this moment, and is dropped otherwise.
Put(k) ==
    /\ pool' = Append(pool, k)
    /\ sdPc' = IF sdPc = "wait" THEN "check" ELSE sdPc

\* The round trip s moves to label l of RoundTripWithSession.
Goto(s, l) == pc' = [pc EXCEPT ![s] = l]

\* The round trip s returns to its caller: its locals are gone.
Return(s) ==
    /\ pc' = [pc EXCEPT ![s] = "idle"]
    /\ conn' = [conn EXCEPT ![s] = NoConn]
    /\ req' = [req EXCEPT ![s] = NoRequest]
    /\ cancelled' = [cancelled EXCEPT ![s] = FALSE]
    /\ resp' = [resp EXCEPT ![s] = NoSession]
    /\ drained' = [drained EXCEPT ![s] = FALSE]

-----------------------------------------------------------------------------
(* Round trips.                                                            *)

\* RoundTrip: a new request is cloned with a background context, Expect
\* removed, keep-alive disabled, its body wrapped and shaped. A small body
\* that cannot be prefetched fails the call before any shared state is
\* touched, so such calls are not steps of the model.
RoundTrip(s) ==
    /\ pc[s] = "idle"
    /\ \E r \in ClientRequests :
        /\ ~PrefetchFails(r)
        /\ req' = [req EXCEPT ![s] = Shape(r)]
    /\ Goto(s, "get")
    /\ UNCHANGED <<pool, shutdown, sdPc, cancelled, conn, resp, drained,
                   draining, devVars>>

\* The caller's context is cancelled (client gone, server timeout).
Cancel(s) ==
    /\ pc[s] = "get"
    /\ ~cancelled[s]
    /\ cancelled' = [cancelled EXCEPT ![s] = TRUE]
    /\ UNCHANGED <<pool, shutdown, sdPc, pc, req, conn, resp, drained,
                   draining, devVars>>

\* usbConnGet: a select over shutdown, the caller's context and the pool.
\* Go picks uniformly among the ready cases, so each is a disjunct.
Get(s) ==
    /\ pc[s] = "get"
    /\ \/ shutdown /\ Return(s) /\ UNCHANGED pool
       \/ cancelled[s] /\ Return(s) /\ UNCHANGED pool
       \/ /\ pool # <<>>
          /\ conn' = [conn EXCEPT ![s] = Head(pool)]
          /\ pool' = Tail(pool)
          /\ Goto(s, "write")
          /\ UNCHANGED <<req, cancelled, resp, drained>>
    /\ UNCHANGED <<shutdown, sdPc, draining, devVars>>

\* outreq.Write(conn): on success the request is on the device; on an error
\* (a send fails, the interface is closed, or the body is shorter than its
\* Content-Length) the connection is put back and the error returned.
\* A failed send may have delivered part of the request.
Write(s) ==
    LET k == conn[s] IN
    /\ pc[s] = "write"
    /\ \/ /\ ~Closed
          /\ Len(Deliver(devIn[k], s, RequestIntact(s))) <= DeviceBuffer
          /\ devIn' = [devIn EXCEPT ![k] = Deliver(@, s, RequestIntact(s))]
          /\ IF RequestIntact(s)
             THEN Goto(s, "read") /\ UNCHANGED <<pool, sdPc, conn, req,
                                                 cancelled, resp, drained>>
             ELSE Put(k) /\ Return(s)
       \/ /\ Closed \/ UsbFaults
          /\ \/ devIn' = devIn
             \/ /\ ~Closed /\ Len(Deliver(devIn[k], s, FALSE)) <= DeviceBuffer
                /\ devIn' = [devIn EXCEPT ![k] = Deliver(@, s, FALSE)]
          /\ Put(k) /\ Return(s)
    /\ UNCHANGED <<shutdown, draining, devOut>>

\* A faulty variant of ReadHeader whose receive does not fail once the
\* interface is closed.
ReadHeaderNoCloseError(s) ==
    LET k == conn[s] IN
    /\ pc[s] = "read"
    /\ ~Closed
    /\ devOut[k] # <<>>
    /\ devOut' = [devOut EXCEPT ![k] = Tail(@)]
    /\ IF Head(devOut[k]).part = "hdr"
       THEN /\ resp' = [resp EXCEPT ![s] = Head(devOut[k]).sess]
            /\ Goto(s, "body")
            /\ UNCHANGED <<pool, sdPc, conn, req, cancelled, drained>>
       ELSE Put(k) /\ Return(s)
    /\ UNCHANGED <<shutdown, draining, devIn>>

\* http.ReadResponse(conn.reader, outreq): usbConn.Read blocks (retrying
\* zero-length reads) until the device sends. A response header is parsed;
\* anything else is a parse error; a failed receive is an I/O error. On an
\* error the connection is put back as it is.
ReadHeader(s) ==
    LET k == conn[s] IN
    /\ pc[s] = "read"
    /\ \/ /\ ~Closed
          /\ devOut[k] # <<>>
          /\ devOut' = [devOut EXCEPT ![k] = Tail(@)]
          /\ IF Head(devOut[k]).part = "hdr"
             THEN /\ resp' = [resp EXCEPT ![s] = Head(devOut[k]).sess]
                  /\ Goto(s, "body")
                  /\ UNCHANGED <<pool, sdPc, conn, req, cancelled, drained>>
             ELSE Put(k) /\ Return(s)
       \/ /\ Closed \/ UsbFaults
          /\ Put(k) /\ Return(s)
          /\ UNCHANGED devOut
    /\ UNCHANGED <<shutdown, draining, devIn>>

\* What a read of the response body takes from the interface: the next
\* part the device sent, or nothing when the receive fails.
BodyRead(k) ==
    \/ ~Closed /\ devOut[k] # <<>> /\ devOut' = [devOut EXCEPT ![k] = Tail(@)]
    \/ (Closed \/ UsbFaults) /\ UNCHANGED devOut

\* usbResponseBodyWrapper.Read until EOF or an error; either marks the
\* wrapper drained.
ReadBody(s) ==
    /\ pc[s] = "body"
    /\ ~drained[s]
    /\ BodyRead(conn[s])
    /\ drained' = [drained EXCEPT ![s] = TRUE]
    /\ UNCHANGED <<pool, shutdown, sdPc, pc, req, cancelled, conn, resp,
                   draining, devIn>>

\* A faulty variant of CloseBody that puts the connection back before the
\* drain goroutine has read the rest of the response.
CloseBodyEarlyPut(s) ==
    LET k == conn[s] IN
    /\ pc[s] = "body"
    /\ Put(k) /\ Return(s)
    /\ draining' = IF drained[s] THEN draining ELSE draining \cup {k}
    /\ UNCHANGED <<shutdown, devVars>>

\* A faulty variant of CloseBody that releases an abandoned connection
\* without draining it.
CloseBodyNoDrain(s) ==
    /\ pc[s] = "body"
    /\ Put(conn[s]) /\ Return(s)
    /\ UNCHANGED <<shutdown, draining, devVars>>

\* usbResponseBodyWrapper.Close: a drained body is closed and the connection
\* put back at once; otherwise a goroutine is started that drains it, and
\* Close returns immediately.
CloseBody(s) ==
    LET k == conn[s] IN
    /\ pc[s] = "body"
    /\ IF drained[s]
       THEN Put(k) /\ UNCHANGED draining
       ELSE draining' = draining \cup {k} /\ UNCHANGED <<pool, sdPc>>
    /\ Return(s)
    /\ UNCHANGED <<shutdown, devVars>>

\* A faulty variant of Drain that never puts the connection back.
DrainNoPut(k) ==
    /\ k \in draining
    /\ BodyRead(k)
    /\ draining' = draining \ {k}
    /\ UNCHANGED <<pool, sdPc, shutdown, rtVars, devIn>>

\* The drain goroutine: io.Copy(ioutil.Discard, body) to EOF or an error,
\* then body.Close() and conn.put().
Drain(k) ==
    /\ k \in draining
    /\ BodyRead(k)
    /\ Put(k)
    /\ draining' = draining \ {k}
    /\ UNCHANGED <<shutdown, rtVars, devIn>>

-----------------------------------------------------------------------------
(* The device, which is not part of the program: it answers a completely   *)
(* received request with a response header and a body, once the host has  *)
(* read everything it sent before. A device behind an interface of         *)
(* StallConns may stop answering for good: its step is not fair, and       *)
(* usbConn.Read then keeps retrying zero-length receives.                  *)

DeviceRespond(k) ==
    LET o == Head(devIn[k]).owner IN
    /\ ~Closed
    /\ devIn[k] # <<>>
    /\ Head(devIn[k]).complete
    /\ devOut[k] = <<>>
    /\ devIn' = [devIn EXCEPT ![k] = Tail(@)]
    /\ devOut' = [devOut EXCEPT ![k] =
                    @ \o <<[sess |-> o, part |-> "hdr"], [sess |-> o, part |-> "body"]>>]
    /\ UNCHANGED <<pool, shutdown, sdPc, rtVars, draining>>

-----------------------------------------------------------------------------
(* Shutdown(ctx), then Close().                                            *)

\* close(transport.shutdown): from now on usbConnGet may return ErrShutdown.
StartShutdown ==
    /\ sdPc = "idle"
    /\ shutdown' = TRUE
    /\ sdPc' = "check"
    /\ UNCHANGED <<pool, rtVars, draining, devVars>>

\* n := transport.connInUse(); if n == 0, break out of the loop.
ShutdownCheck ==
    /\ sdPc = "check"
    /\ sdPc' = IF connInUse = 0 THEN "done" ELSE "log"
    /\ UNCHANGED <<pool, shutdown, rtVars, draining, devVars>>

\* After logging n, Shutdown blocks in select on connReleased and ctx.Done.
ShutdownWait ==
    /\ sdPc = "log"
    /\ sdPc' = "wait"
    /\ UNCHANGED <<pool, shutdown, rtVars, draining, devVars>>

\* ctx.Done fires: Shutdown returns ctx.Err().
ShutdownExpire ==
    /\ ShutdownTimeout
    /\ sdPc = "wait"
    /\ sdPc' = "timedout"
    /\ UNCHANGED <<pool, shutdown, rtVars, draining, devVars>>

\* Close: reset the device if connections are in use, which aborts their
\* transfers and discards what the device holds; then close every interface
\* and the device. Every later transfer fails.
Close ==
    /\ sdPc \in {"done", "timedout"}
    /\ IF connInUse > 0
       THEN devIn' = [k \in Conns |-> <<>>] /\ devOut' = [k \in Conns |-> <<>>]
       ELSE UNCHANGED devVars
    /\ sdPc' = "closed"
    /\ UNCHANGED <<pool, shutdown, rtVars, draining>>

-----------------------------------------------------------------------------

\* NewUsbTransport: every interface opened and its connection put into the
\* pool in index order.
Init ==
    /\ pool = SetToSeq(Conns)
    /\ shutdown = FALSE
    /\ sdPc = "idle"
    /\ pc = [s \in Sessions |-> "idle"]
    /\ req = [s \in Sessions |-> NoRequest]
    /\ cancelled = [s \in Sessions |-> FALSE]
    /\ conn = [s \in Sessions |-> NoConn]
    /\ resp = [s \in Sessions |-> NoSession]
    /\ drained = [s \in Sessions |-> FALSE]
    /\ draining = {}
    /\ devIn = [k \in Conns |-> <<>>]
    /\ devOut = [k \in Conns |-> <<>>]

Next ==
    \/ \E s \in Sessions :
        \/ RoundTrip(s) \/ Cancel(s) \/ Get(s) \/ Write(s) \/ ReadHeader(s)
        \/ ReadBody(s) \/ CloseBody(s)
    \/ \E k \in Conns : Drain(k) \/ DeviceRespond(k)
    \/ StartShutdown \/ ShutdownCheck \/ ShutdownWait \/ ShutdownExpire
    \/ Close

(***************************************************************************)
(* Fairness. Goroutines that are not blocked run: weak fairness for every  *)
(* step of a round trip after allocation, the drain goroutine, the device, *)
(* Shutdown's loop and the Close that follows it, and the context deadline *)
(* of Shutdown. A goroutine blocked receiving from the pool is queued on   *)
(* the channel and served in turn when a connection is put back, which is  *)
(* at least strong fairness of Get. The client reads or closes the         *)
(* response body (the HTTP server always closes it). Starting a request,   *)
(* cancelling one and starting Shutdown are not required to happen, and a  *)
(* device of StallConns is not required to answer. The deadline of the    *)
(* context given to Shutdown passes in real time and ctx.Done() stays      *)
(* closed, so a Shutdown woken back into its loop by put still returns at  *)
(* a later select: strong fairness of ShutdownExpire.                      *)
(***************************************************************************)
Fairness ==
    /\ \A s \in Sessions :
        /\ SF_vars(Get(s))
        /\ WF_vars(Write(s))
        /\ WF_vars(ReadHeader(s))
        /\ WF_vars(ReadBody(s) \/ CloseBody(s))
    /\ \A k \in Conns : WF_vars(Drain(k))
    /\ \A k \in Conns \ StallConns : WF_vars(DeviceRespond(k))
    /\ WF_vars(ShutdownCheck) /\ WF_vars(ShutdownWait)
    /\ SF_vars(ShutdownExpire) /\ WF_vars(Close)

Spec == Init /\ [][Next]_vars /\ Fairness

-----------------------------------------------------------------------------
(* Properties.                                                             *)

\* Types, and the capacity of the pool channel: put sends on a channel made
\* with room for every connection, which Put models as a send that never
\* blocks; the bound says no send ever finds the channel full.
TypeOK ==
    /\ pool \in Seq(Conns)
    /\ Len(pool) <= Cardinality(Conns)
    /\ shutdown \in BOOLEAN
    /\ sdPc \in SdStates
    /\ pc \in [Sessions -> {"idle", "get"} \cup Holding]
    /\ req \in [Sessions -> [framing : Framing, short : BOOLEAN]]
    /\ cancelled \in [Sessions -> BOOLEAN]
    /\ conn \in [Sessions -> Conns \cup {NoConn}]
    /\ resp \in [Sessions -> Sessions \cup {NoSession}]
    /\ drained \in [Sessions -> BOOLEAN]
    /\ draining \subseteq Conns
    /\ devIn \in [Conns -> Seq(Received)]
    /\ devOut \in [Conns -> Seq(Part)]

\* The round trips using connection k.
Users(k) == {s \in Sessions : pc[s] \in Holding /\ conn[s] = k}

\* Spec invariants 1 and 2: every connection created by NewUsbTransport is
\* exactly once in the pool, or held by exactly one round trip, or held by
\* one drain goroutine: put, the early-return error paths and the
\* goroutine started by the response body's Close never lose a connection,
\* return it twice, or let two parties read or write it at once.
ConnOwnership ==
    /\ \A i, j \in DOMAIN pool : i # j => pool[i] # pool[j]
    /\ \A k \in Conns :
        \/ k \in ToSet(pool) /\ Users(k) = {} /\ k \notin draining
        \/ k \notin ToSet(pool) /\ Cardinality(Users(k)) = 1 /\ k \notin draining
        \/ k \notin ToSet(pool) /\ Users(k) = {} /\ k \in draining

\* A connection in the pool carries nothing left over from the round trip
\* that used it: the device holds no unread response part and no request
\* it is still receiving. This is what the drain goroutine of the response
\* body's Close is for, and what the error paths of RoundTripWithSession
\* (put after a failed write or a failed ReadResponse) and of the body
\* wrapper (drained set on a read error) rely on.
ReleasedClean ==
    \A k \in ToSet(pool) : devIn[k] = <<>> /\ devOut[k] = <<>>

\* Every response a round trip hands to its caller is the device's answer
\* to that round trip's own request, never one left over on the interface
\* by an earlier round trip (spec, scenario 5).
ResponseMatchesRequest ==
    \A s \in Sessions : pc[s] = "body" => resp[s] = s

\* While every device answers, every call of RoundTrip eventually returns
\* to its caller and every response body is closed: waiting in usbConnGet
\* ends because connections come back, and a transfer in flight when Close
\* resets the device fails instead of blocking (the zero-read retry loop
\* ends on an error). One round trip stands for all, as below.
RoundTripCompletes ==
    LET s == CHOOSE x \in Sessions : TRUE IN
    (\A k \in StallConns : WF_vars(DeviceRespond(k))) =>
        ((pc[s] # "idle") ~> (pc[s] = "idle"))

\* Even when a device stops answering, once Shutdown has started every
\* round trip returns: one reading the stalled interface when the timeout
\* of Shutdown leads to Close, whose reset makes usbConn.Read fail, and
\* every one queued in usbConnGet behind it on the shutdown case. Round
\* trips are interchangeable (no step, no initial value and no fairness
\* condition tells one from another), so one of them stands for all.
StalledRoundTripsEnd ==
    LET s == CHOOSE x \in Sessions : TRUE IN
    (shutdown /\ pc[s] # "idle") ~> (pc[s] = "idle")

\* Spec law: once shutdown is signalled, no acquisition succeeds
\* (usbConnGet's select is meant to prefer the shutdown case).
NoAcquireAfterShutdown ==
    [][\A s \in Sessions :
         shutdown => ~(pc[s] = "get" /\ pc'[s] = "write")]_vars

\* Spec scenario 6: once every connection is back in the pool, a Shutdown
\* still in its loop returns, without waiting for its context.
ShutdownReturnsOnceIdle ==
    (sdPc \in {"check", "log", "wait"} /\ connInUse = 0) ~> (sdPc = "done")

-----------------------------------------------------------------------------
(* Refinement of the abstract connection pool.                             *)

OwnerOf(k) ==
    IF k \in draining THEN "drainer"
    ELSE IF Users(k) # {} THEN CHOOSE s \in Users(k) : TRUE
    ELSE "none"

Abstract == INSTANCE ConnPool WITH
    Drainer <- "drainer", NoOwner <- "none",
    idle <- ToSet(pool), owner <- [k \in Conns |-> OwnerOf(k)]

\* The transport implements the abstract pool: connections are taken only
\* from the idle ones, a round trip holds at most one, abandoned responses
\* hand theirs to the drain goroutine, and only the owner releases.
PoolRefinement == Abstract!Spec
=============================================================================
