----------------------------- MODULE UsbConnRead -----------------------------
(***************************************************************************)
(* usbConn.Read as http.ReadResponse drives it through the connection's   *)
(* bufio.Reader while it parses the response header line by line.          *)
(*                                                                         *)
(* bufio is Go's library, the environment of the code: ReadSlice looks for *)
(* the end of a line in the buffered bytes; if there is none and the       *)
(* buffer is full it returns ErrBufferFull (textproto keeps the bytes as a *)
(* prefix of the line and goes on); otherwise fill() slides the unread     *)
(* bytes to the start of the buffer and calls Read with the free tail      *)
(* buf[w:]. usbConn.Read trims a buffer of 512 bytes or more to a multiple *)
(* of 512, then calls Recv until it returns data or an error: a zero-size  *)
(* read clears the halt, sleeps and retries with a doubling backoff capped *)
(* at one second.                                                          *)
(*                                                                         *)
(* Sizes are in bytes, and Recv may return any number of them. The buffer  *)
(* size and the alignment are parameters: every comparison the code and    *)
(* bufio make is between a byte count and one of them, so an instance with *)
(* a smaller buffer has the same cases, at the same place relative to      *)
(* BufSize and Align, as the real 4096 and 512.                            *)
(***************************************************************************)
EXTENDS Naturals, Sequences

CONSTANTS
    BufSize,     \* size of the bufio.Reader buffer (bufio.NewReader: 4096)
    Align,       \* the receive alignment, 512 bytes
    Lines,       \* lengths of the response header lines the device sends
    ZeroReads,   \* whether the device may complete a transfer with no data
    UsbFaults    \* whether a transfer may fail

ASSUME /\ BufSize \in Nat \ {0} /\ Align \in Nat \ {0} /\ Align < BufSize
       /\ Lines \in Seq(Nat \ {0})
       /\ ZeroReads \in BOOLEAN /\ UsbFaults \in BOOLEAN

VARIABLES
    rpc,        \* "parse", "recv", "sleep", "done" (header read), "failed"
    sent,       \* bytes of the response that reached the buffer
    consumed,   \* bytes of the response the parser has taken
    recvLen,    \* length of the buffer of the current Recv
    backoff     \* the backoff of the current Read, in milliseconds

vars == <<rpc, sent, consumed, recvLen, backoff>>

RECURSIVE SumFirst(_)
SumFirst(i) == IF i = 0 THEN 0 ELSE Lines[i] + SumFirst(i - 1)

\* Where the lines end in the response, and its length.
LineEnds == {SumFirst(i) : i \in 1..Len(Lines)}
Total == SumFirst(Len(Lines))

\* A faulty variant without the alignment: the buffer bufio gives is used
\* as it is.
AlignNone(n) == n

\* if n := len(b); n >= 512 { n &= ^511 }: n &^ 511 is n rounded down to a
\* multiple of 512.
Aligned(n) == IF n >= Align THEN n - (n % Align) ELSE n

\* bufio.Reader.fill after sliding the unread bytes to the front: Read is
\* given buf[w:], w being the number of unread bytes.
FillLen == BufSize - (sent - consumed)

Min(a, b) == IF a <= b THEN a ELSE b

\* textproto's ReadLine over bufio's ReadSlice('\n').
ReadLine ==
    /\ rpc = "parse"
    /\ LET ends == {e \in LineEnds : consumed < e /\ e <= sent} IN
       IF ends # {}
       THEN LET e == CHOOSE x \in ends : \A y \in ends : x <= y IN
            /\ consumed' = e
            /\ rpc' = IF e = Total THEN "done" ELSE "parse"
            /\ UNCHANGED <<sent, recvLen, backoff>>
       ELSE IF sent - consumed >= BufSize
       THEN consumed' = sent /\ UNCHANGED <<rpc, sent, recvLen, backoff>>
       ELSE /\ recvLen' = Aligned(FillLen)
            /\ backoff' = 100
            /\ rpc' = "recv"
            /\ UNCHANGED <<sent, consumed>>

\* conn.iface.Recv(b, 0): no timeout. The device completes the transfer
\* with up to len(b) bytes of what it has to send, with none (only when
\* ZeroReads), or the transfer fails. Data or an error returns from Read.
Recv ==
    /\ rpc = "recv"
    /\ \/ \E n \in 1..Min(recvLen, Total - sent) :
            sent' = sent + n /\ rpc' = "parse" /\ UNCHANGED backoff
       \/ ZeroReads /\ rpc' = "sleep" /\ UNCHANGED <<sent, backoff>>
       \/ UsbFaults /\ rpc' = "failed" /\ UNCHANGED <<sent, backoff>>
    /\ UNCHANGED <<consumed, recvLen>>

\* A faulty variant of ZeroRead whose backoff is not capped.
ZeroReadNoCap ==
    /\ rpc = "sleep"
    /\ backoff' = 2 * backoff
    /\ rpc' = "recv"
    /\ UNCHANGED <<sent, consumed, recvLen>>

\* A zero-size read: ClearHalt (its error is only logged), time.Sleep, then
\* the backoff doubles up to one second and Recv is called again.
ZeroRead ==
    /\ rpc = "sleep"
    /\ backoff' = Min(2 * backoff, 1000)
    /\ rpc' = "recv"
    /\ UNCHANGED <<sent, consumed, recvLen>>

Init ==
    /\ rpc = "parse"
    /\ sent = 0
    /\ consumed = 0
    /\ recvLen = 0
    /\ backoff = 100

Next == ReadLine \/ Recv \/ ZeroRead

\* The reading goroutine runs whenever it is not blocked in Recv.
Spec == Init /\ [][Next]_vars /\ WF_vars(ReadLine) /\ WF_vars(Recv) /\ WF_vars(ZeroRead)

-----------------------------------------------------------------------------
(* Properties.                                                             *)

TypeOK ==
    /\ rpc \in {"parse", "recv", "sleep", "done", "failed"}
    /\ sent \in 0..Total /\ consumed \in 0..sent
    /\ recvLen \in 0..BufSize
    /\ backoff \in {100, 200, 400, 800, 1000}

\* The comment of usbConn.Read: to avoid LIBUSB_TRANSFER_OVERFLOW the input
\* buffer must always be a multiple of 512 bytes; a shorter one is passed
\* as it is, on the claim that bufio never asks for less than 512 bytes.
\* Every Recv, after bufio slid the unread part of a header line to the
\* front of its buffer, gets a buffer that is a multiple of the alignment.
RecvAligned == rpc = "recv" => recvLen % Align = 0 /\ recvLen > 0
=============================================================================
