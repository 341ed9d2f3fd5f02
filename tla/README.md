# TLA+ models of ipp-usb's USB transport

This directory holds TLA+ models of the HTTP-over-USB transport of ipp-usb
(`src/unnamed/part_000`, the Go file defining `UsbTransport`) and its logger
(`src/logger.go`) and the loopback discovery (`src/loopback.go`). TLC checks them with the configurations (`*.cfg`) kept
beside the modules. `PROJECT.json` records four things:

- every component and whether it is modelled;
- every run and mutant;
- the source lines each definition translates;
- the findings and hazards.

## The system

The transport has these parts:

- **Transport construction** (`NewUsbTransport`, `openUsbConn`). It opens the
  device and claims every IPP-over-USB interface. It then puts one `usbConn`
  per interface into `connPool`, a buffered channel whose capacity is the
  number of interfaces.
- **Round-trip engine** (`RoundTrip`, `RoundTripWithSession`). It works in
  this order:
  1. Clone the request with a background context, so a client cancel cannot
     abort a USB transfer.
  2. Shape the body. A body smaller than 16 KiB is prefetched with
     `io.CopyN` and keeps its Content-Length. A larger body is sent chunked,
     wrapped so that any read error becomes EOF.
  3. Allocate a connection with `usbConnGet`.
  4. Write the request and parse the response header.
  5. Wrap the response body.

  Every error after allocation calls `conn.put()`.
- **Connection pool** (`usbConnGet`, `usbConn.put`).
  - `usbConnGet` is one `select` over three ready cases: `transport.shutdown`,
    the caller's context and the pool. Go picks uniformly among the ready
    cases.
  - `put` resets the reader and sends the connection back on the channel. It
    then signals `connReleased` with a *non-blocking* send, which reaches
    Shutdown only if Shutdown is blocked in its select at that moment.
- **Response body adapter** (`usbResponseBodyWrapper`).
  - `Read` marks the body drained on EOF or on any error.
  - `Close` of a drained body puts the connection back at once. Otherwise it
    starts a goroutine that reads the body to its end, closes it and only
    then puts the connection back. Bytes left on the interface would
    otherwise be read by the next round trip as its own response.
- **Bulk connection I/O** (`usbConn.Read`, `usbConn.Write`). These are
  blocking bulk transfers. `Read` aligns buffers to 512 bytes and retries
  zero-length reads forever, with a backoff that starts at 100 ms, doubles
  and is capped at 1 s.
- **Shutdown and Close** (`Shutdown`, `Close`).
  - `Shutdown` closes `transport.shutdown` and loops. On each pass it reads
    `connInUse()`, returns when that is 0, and otherwise waits for
    `connReleased` or for its context.
  - `Close` resets the device if connections are still in use, then closes
    every interface and the device.
- **Logger** (`src/logger.go`). It has leveled output to console or file,
  multi-line messages built with `Begin`/`Add`/`Commit`, `Pause`/`Resume`
  buffering, carbon copies to other loggers, and file rotation with gzip.
- **Session ids** (`RoundTrip`). A package-level int32 counter, shared by
  every transport, is incremented atomically; the id is the old value mod
  1000 and only labels log lines.
- **Loopback discovery** (`src/loopback.go`). `Loopback()` scans the network
  interfaces for one with a loopback address.
- The **rock packaging** and the **CI workflow** are not modelled. See the
  end of this file.

How the parts interact:

- Round trips of different HTTP clients run concurrently in goroutines and
  compete for the pool.
- Drain goroutines hold connections after the caller has returned.
- `Shutdown` runs concurrently with both, and `Close` follows it.
- The device is an independent party. It answers a completely received
  request with a header and a body, and it holds whatever the host has not
  read yet.

## Modules

### `ConnPool.tla`: the abstract connection pool

This module states what the transport promises about its connections,
without channels or goroutines:

- A connection is idle or owned by one party.
- A round trip owns at most one connection.
- Ownership of an abandoned response passes to a drain task.
- Only the owner releases a connection.

### `UsbTransport.tla`: the transport, as it is written

**State:**

| Variable | Models |
|---|---|
| `pool` | `connPool`, as a FIFO sequence |
| `shutdown` | whether `transport.shutdown` is closed |
| `sdPc` | where the Shutdown goroutine is in its loop, then Close |
| `pc`, `req`, `cancelled`, `conn`, `resp`, `drained` | the locals of each round trip: its label in `RoundTripWithSession`, the shaped request, the caller's context, the connection, the sender of the parsed response, and the wrapper's `drained` flag |
| `draining` | the connections held by drain goroutines |
| `devIn`, `devOut` | what each interface's device holds: received requests (complete or not) and response parts not yet read |

**Actions:**

| Action | Models |
|---|---|
| `RoundTrip` | cloning and shaping through `Shape`, `PrefetchFails` and `RequestIntact` |
| `Cancel` | the caller's context being cancelled |
| `Get` | the three cases of the select |
| `Write` | `outreq.Write` and its error path |
| `ReadHeader` | `http.ReadResponse` and its error paths |
| `ReadBody` | `usbResponseBodyWrapper.Read` |
| `CloseBody` | `usbResponseBodyWrapper.Close` |
| `Drain` | the drain goroutine |
| `StartShutdown`, `ShutdownCheck`, `ShutdownWait`, `ShutdownExpire` | the statements of `Shutdown` |
| `Close` | `Close` |
| `DeviceRespond` | the device, which is not code of this repository |

Each action contains the whole handler. For example, `Write`'s error branch
includes the `put` and the return. `Put` includes the non-blocking signal,
which wakes Shutdown only if it is in `"wait"`.

**Faults.** With `UsbFaults`, any bulk transfer may fail. A failed write may
still have delivered part of the request. After `Close`, every transfer
fails.

**A stalled device.** The device behind an interface of `StallConns` may
stop answering for good: `DeviceRespond` is not fair for it. This is what
`usbConn.Read` sees when it keeps getting zero-length receives (the loop
that `UsbConnRead` models in detail): the round trip stays in
`ReadHeader` until `Close` resets the device.

**Refinement.** The module instantiates `ConnPool` through the mapping:

- `idle` is the set of connections in `pool`.
- The owner is the drain goroutine, the round trip holding the connection,
  or no one.

`PoolRefinement` is `ConnPool`'s specification, checked as a property.

### `UsbConnRead.tla`: `usbConn.Read` under `bufio`

This module models `http.ReadResponse` reading a header through the
connection's `bufio.Reader`. That reader is Go's library, the environment of
the code. It behaves as follows:

- `ReadSlice` returns a line when its end is buffered.
- If no line end is buffered and the buffer is full, it returns
  `ErrBufferFull`.
- Otherwise `fill()` slides the unread bytes to the front of the buffer and
  calls `Read` with the rest of it.

`usbConn.Read` is modelled by three actions:

- `Aligned`: the 512-byte trimming.
- `Recv`: data, a zero-size completion, or an error.
- `ZeroRead`: ClearHalt, sleep, and a backoff that doubles up to 1000 ms.

Sizes are in bytes, and `Recv` may return any number of them. The buffer
size `BufSize` and the alignment `Align` are constants. Every comparison
that `Read` and `fill` make is between a byte count and one of these two,
so the runs use an instance scaled to `BufSize = 64` and `Align = 8` that
is exact to the byte. The client's context is not an input: `RoundTrip`
clones the request with a background context on purpose (the comment at
its start), so nothing cancels the zero-size read loop.

### `Logger.tla`: message building, flushing, pausing and carbon copies

**State:**

| Variable | Models |
|---|---|
| `root[l]` | the root message's buffered lines |
| `out[l]` | what reached the destination |
| `paused[l]` | the atomic counter |
| `opened[l]` | `l.out` being set |
| per-writer variables | the child message being built, and a stack of flushes in progress |

Each frame of the stack holds its logger's `sync.Mutex`, and the carbon
copies still to commit. `Locked(l)` is derived from these frames.

**Actions:**

| Action | Models |
|---|---|
| `Begin`, `Add`, `Commit`, `Reject` | `LogMessage` building a message, then committing it or freeing it unwritten |
| `LogRoot` | `appendLineBuf` on the root message |
| `FlushRoot` | the flush of the root message |
| `RootFlush` | `Flush`'s critical section: paused check, on-demand file open, level filter, preparing the copies |
| `CcCommit` | committing one carbon copy under the target's lock |
| `Unlock` | the deferred unlock |
| `Pause`, `Resume` | `Pause` and `Resume` |

`RootFlush` is split as `Flush` is: `OpenOutcome` (the open on demand,
which may fail), `Keep` (the early returns that leave the lines buffered)
and `Emit` (writing, resetting the root, preparing the copies). The history
variable `logged[l]` records every line committed to `l`'s root message; it
changes no behaviour and lets `NoLineLost` speak of lines that have left
every buffer.

**Configuration.** The levels (through `Adjust`) and the Cc lists are
configuration. `MCLogger` gives, for the loggers a cfg names:

- device loggers (`{dev}` in the run) writing to files, with errors copied to the Console;
- a Console logger writing errors only.

### `LogLevel.tla`: levels

`LogLevel` holds the level names, `Adjust` and `LogAll`; `Logger` extends it.

### `LogLine.tla`: the trim of a line

`Flush` trims trailing blanks from every line with `logLineBuf.trim` before
writing it and before copying it to a carbon copy. A line is modelled as its
bytes over a small alphabet, one representative per byte class: an ASCII
blank, an ASCII letter, the UTF-8 lead bytes 0xC2 and 0xD0, and the
continuation bytes 0x80, 0x85 and 0xA0. `Init` takes every line of up to
three bytes. `Scan` is one iteration of trim's loop. `Truncate` is its
`break loop`, or its end at the start of the line, followed by
`buf.Truncate(i)`.

The reference is `TrimRef`: remove trailing white-space runes, as
`bytes.TrimRightFunc(b, unicode.IsSpace)` does. trim's case list is exactly
the Latin-1 white space of `unicode.IsSpace`. Its last two entries are the
code points U+0085 and U+00A0, which UTF-8 encodes as 0xC2 0x85 and
0xC2 0xA0. `ValidUtf8` restricts the property to lines that are well-formed
one- and two-byte UTF-8.

### `Loopback.tla`: loopback discovery

An interface is abstracted to what its `Addrs` call returns: an error, or
the kinds of its addresses (loopback or other). `Init` takes every answer of
`net.Interfaces` up to three interfaces, including its failure. `Scan` is
one iteration of the loop, with the `err` that every `Addrs` call
overwrites and the early return at the first loopback address; `NotFound`
is the code after the loop.

### `LogRotate.tla`: rotation with failures

The rename loop of `rotate` is the RECURSIVE operator `Shift`. `Flush`
models one write, with its possible rotation. Rotation can end in these ways:

- `Stat` fails, so there is no rotation;
- there are no backups, so the log is truncated;
- gzip succeeds, so the log is truncated;
- gzip fails after the backups were already shifted, so the log is kept;
- with or without backups, `file.Truncate(0)` fails (`TruncFails`); `rotate`
  ignores its error, so the log is kept, and with backups it is also in
  `path.0.gz`.

The errors of `os.Remove` and `os.Rename` on backups are ignored too, but
they are not modelled: the loop always succeeds.

### `MCUsbTransport.tla`

This module fixes the requests callers make (`MCRequests`):

- a complete small body, which is prefetched and sent with its length;
- a large body that ends early, which is sent chunked.

A short small body fails before allocation, so it is never a step of the
model. A body of unknown length takes the same path as an intact chunked
one.

## Runs

All runs use `DeviceBuffer = 1`. The device holds at most one request that
has not been answered, which bounds the state space. One request in flight
per interface is also the IPP-over-USB discipline.

| Run | cfg | Bounds | Checks | Result |
|---|---|---|---|---|
| pool_ownership | MCUsbTransportOwnership.cfg | 2 interfaces, 2 round trips, faults, Shutdown timeout | `TypeOK`, `ConnOwnership`, `PoolRefinement` | pass, about 1.3 M states |
| clean_release | MCUsbTransportClean.cfg | 2 interfaces, 3 round trips, no faults, second interface may stall, Shutdown timeout | `ReleasedClean`, `ResponseMatchesRequest`, `RoundTripCompletes`, `StalledRoundTripsEnd` | pass, about 170 k states, 2 min |
| usb_error_stale_response | MCUsbTransportFaults.cfg | 1 interface, 2 round trips, faults | `ResponseMatchesRequest` | violation |
| acquire_after_shutdown | MCUsbTransportAcquire.cfg | 1 interface, 1 round trip | `NoAcquireAfterShutdown` | violation |
| shutdown_lost_wakeup | MCUsbTransportWakeup.cfg | 1 interface, 1 round trip, no timeout | `ShutdownReturnsOnceIdle` | violation |
| recv_aligned | MCUsbConnReadAligned.cfg | 64-byte buffer, 8-byte alignment, a header line of `BufSize - Align + 1` bytes (3585 at the real sizes), zero reads | `TypeOK`, `RecvAligned` | pass, about 3 k states |
| recv_unaligned_long_line | MCUsbConnReadLongLine.cfg | the same with a line of `BufSize - Align + 2` bytes (3586 at the real sizes) | `RecvAligned` | violation |
| logger_atomic | MCLogger.cfg | 2 writers, 1 message of up to 2 lines each, file open may fail | `TypeOK`, `MessageAtomic`, `NoLineLost`, `LogFlushed`, `FlushReturns` | pass, about 66 k states, 1.5 min |
| log_rotation | MCLogRotate.cfg | 3 backups, rotate after 1 chunk, 12 writes, Stat, gzip and Truncate may fail | `ShiftIsShiftRef`, `KeptHasNoGap` | pass, about 6 k states |
| rotate_truncate_ignored | MCLogRotateTruncate.cfg | the same, 6 writes, only Truncate may fail | `KeptIsRecentHistory` | violation |
| trim_utf8 | MCLogLine.cfg | every line of up to 3 bytes over 7 byte classes | `TrimKeepsText` | violation |
| loopback_first | MCLoopback.cfg | every answer with up to 3 interfaces | `LoopbackIsFirst` | pass |

Why the bounds are enough:

- Two interfaces and two round trips are enough for two parties to compete
  for each connection, and for a drain goroutine to hold one connection while
  a round trip holds the other.
- Three round trips on two interfaces make a waiter behind a round trip
  and a drain that hold both connections.
- In clean_release, one interface that may stall and one that keeps
  answering let round trips keep taking and returning a connection while
  another is stuck, which is what keeps Shutdown's loop from seeing
  `connInUse() == 0`.
- The two liveness properties of clean_release are stated for one round
  trip, chosen with `CHOOSE`. Round trips are interchangeable model values:
  no initial value, step or fairness condition tells one from another. So
  a violation for any one of them would show up for the chosen one too.
  This halves the tableau TLC has to search.
- The violations need only the interleavings their traces show.
- For the logger, two writers with one message each are enough for every
  interleaving that matters:
  - a message against a root line;
  - a Pause or Resume against a flush;
  - a flush of the device logger holding its lock while it takes the
    Console's.

  With two messages per writer the run grows to 27 M states without new
  cases.
- For rotation, 12 writes with rotation after every chunk fill three
  backups several times over, with failures in every position.
- The UsbConnRead bounds sit on the edge of the alignment property. A
  `Read` is unaligned exactly when the unread part of a line is more than
  `BufSize - Align` bytes. With `Recv` splitting the input at every byte
  count, a line of `BufSize - Align + 1` bytes can leave at most
  `BufSize - Align` of them unread at a refill, and a line one byte longer
  can leave `BufSize - Align + 1`. At the real sizes these are 3585 and
  3586 bytes. The scaled instance has the same cases, because it keeps
  every comparison relative to the two constants.

### What the violation runs show

- **usb_error_stale_response.** A request write fails after part of the
  request reached the device, and the connection is put back. The next
  round trip's request completes the partial one on the device, and its
  `ReadResponse` parses the answer meant for the failed round trip. The
  error paths after `ReadResponse` and a body read error behave the same
  way: none of them drains.
- **acquire_after_shutdown.** After `Shutdown` closed its channel,
  `usbConnGet` still hands out an idle connection, because `select` does not
  prefer the shutdown case.
- **shutdown_lost_wakeup.** The drain goroutine puts the last connection
  back while Shutdown is between `connInUse()` and its `select`. The
  non-blocking signal is dropped, and Shutdown then waits until its context
  expires instead of returning nil. Without a deadline it never returns.

- **recv_unaligned_long_line.** A header line of 3586 bytes or more
  arrives in parts, and more than 3584 of its bytes are unread at a refill. `bufio` keeps the partial line and refills the buffer
  with less than 512 bytes free, and `usbConn.Read` passes that unaligned
  buffer to `Recv`. The comment's claim that "bufio never behaves this way"
  does not hold, and neither does the 512-byte receive alignment the spec
  pins.
- **rotate_truncate_ignored.** The log is over the limit and gzip writes
  it into `path.0.gz`, but `file.Truncate(0)` fails. `rotate` drops the
  error, so the same output is now in the backup and in the log. The log
  is still over the limit, so the next flush rotates again and compresses
  it a second time, pushing one real backup out on every flush.

- **trim_utf8.** Take the line `C2 85`, the white-space code point U+0085.
  `trim` removes the byte 0x85 and stops at 0xC2, so `Flush` writes a
  dangling lead byte. A line that ends in a letter whose UTF-8 encoding ends
  in 0x85 or 0xA0 loses half of that letter: Cyrillic Р (D0 A0), х (D1 85),
  and many CJK characters. The comment promises that trim "removes trailing
  spaces", and its case list names the Unicode spaces, but the loop works
  byte by byte. Names the program logs, such as USB string descriptors, can
  end this way.

### What the passing runs show

- **A stalled device does not outlive Shutdown.** Suppose one interface's
  device stops answering while the other keeps serving round trips. Once
  Shutdown has started, every round trip still returns:
  - the round trip stuck in `ReadHeader` returns when `Close` resets the
    device;
  - those queued in `usbConnGet` return on the shutdown case.
  
  This takes the deadline of Shutdown's context. Each `put` on the working
  interface wakes Shutdown back into its loop, and `connInUse()` never
  drops to 0 while the stalled round trip holds its connection. While
  every device answers, every round trip returns without any Shutdown.

- **Message atomicity.** A message's lines come out contiguous, in order and
  once, in the device log and in the Console's copy. This holds although
  `appendLineBuf` on the root unlocks between appending and flushing, and
  although the carbon copy is committed under a nested lock.
- **Buffered lines are written once the logger stays unpaused and its log
  file is open.** A flush that cannot open the file keeps them, and a later
  flush that opens it writes them. This includes the race between `Resume`'s unlocked decrement and flushes that
  read the counter just before it.
- **No committed line is lost.** A line at one of the logger's levels is
  written or still buffered, also when the log file cannot be opened; once
  it has left the root, every Cc target that wants it holds it.
- **Every flush returns.** With an acyclic Cc graph, no two flushes wait for
  each other's locks.
- **Loopback.** For every answer of the interface and address queries, the
  result is the first interface with a loopback address, and an error
  exactly when there is none; an `Addrs` error neither ends the scan nor
  survives a later successful call.
- **Rotation.** The backups and the log never lose or reorder a chunk of
  the recent output, whether Stat, gzip (after the backups were shifted) or
  Truncate fails. Only the Truncate failure breaks the stronger property,
  that each chunk is kept once (rotate_truncate_ignored).

## Fairness

Every goroutine that is not blocked is scheduled. This gives weak fairness
to:

- every step of a round trip after allocation;
- the drain goroutine;
- the device;
- Shutdown's loop and the `Close` that follows.

A receiver blocked on a Go channel is queued and served when a value
arrives, so `Get` has strong fairness. Shutdown's deadline also has strong
fairness. `ctx.Done()` stays closed once the deadline passes, so a select
after it returns even if `put` woke Shutdown back into its loop in between.
A device of `StallConns` has no fairness: it may never answer.

The client reads or closes the response body; Go's HTTP server always closes
it. Starting a request, cancelling one and starting Shutdown are environment
choices that need not happen.

Fairness in the other modules:

- **Logger.** A goroutine that started a message commits it, and one that
  paused a logger resumes it. Acquiring a `sync.Mutex` gets strong
  fairness, because Go's mutex hands itself to a waiter that has starved.
- **UsbConnRead.** The reading goroutine and each step of the device
  have weak fairness. This does not make the device return data: a `Recv`
  may return zero bytes every time. No property of the module is a liveness
  property.

## Not modelled, and why

- **The session-id counter in `RoundTrip`.** It only labels log lines. Its
  int32 wrap to negative ids needs 2^31 round trips in one process.
- **Header edits and logging in `RoundTrip`.** They only change bytes and
  labels that no property tells apart.
- **`usbConnState`.** Its counters are diagnostics. `gotConn` and `putConn`
  change them in the same step as the pool receive and send, so a property
  on them would restate the pool's.
- **A second `Shutdown` call.** `close(transport.shutdown)` would panic; how
  often `Shutdown` runs is decided by callers that are not under `src/`.
- **Logger `Close` and `Exit`.** A file close and `os.Exit`; no modelled
  operation reads back what they change.
- **The construction error path of `NewUsbTransport`.** No transport exists
  after it.
- **`SetLevels` and `Cc` as calls in any order.** `Logger` takes the levels
  and Cc lists as configuration. `Cc` or-s the target's levels into
  `ccLevels` once, so a later `SetLevels` on the target would leave
  `ccLevels` stale. The only `Cc` call under `src/` is `NewUsbTransport`'s
  `log.Cc(Console)`. The Console's levels are set by start-up code that is
  not under `src/`, so the order of these calls lies outside the modelled
  code.
- **Line formatting, `HexDump` and the HTTP/IPP dumpers.** They only
  produce text.
- **`rockcraft.yaml` and the CI workflow.** They are build configuration.

## Plan for the next steps

1. **Construction failures.** Model the error path of `NewUsbTransport`,
   which destroys the connections opened so far and closes the device. It
   is one sequential loop, so it is only worth a run if the run limit
   allows.
