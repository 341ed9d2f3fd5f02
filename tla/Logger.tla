------------------------------- MODULE Logger -------------------------------
(***************************************************************************)
(* The logger of src/logger.go as the transport's goroutines use it: each  *)
(* goroutine ("writer") builds a LogMessage with Begin/Add and commits it, *)
(* or adds a line to the root message directly; the logger may be paused   *)
(* and resumed; a flush writes the root message to the destination under   *)
(* the logger's lock and, while still holding it, commits a carbon copy to *)
(* every logger of its Cc list, taking their locks in turn.                *)
(*                                                                         *)
(* A line is a record naming the message it belongs to (writer, number)   *)
(* and its place in it; its text is left out. Rotation and gzip are in     *)
(* LogRotate; the level filter of Flush and the carbon copies are here.    *)
(***************************************************************************)
EXTENDS Naturals, Sequences, FiniteSets, LogLevel
LOCAL INSTANCE SequencesExt

CONSTANTS
    Loggers,     \* the Logger objects (Log, Console, per-device loggers)
    Writers,     \* goroutines that log
    Cc,          \* [Loggers -> Seq(Loggers)]: the carbon copy lists
    Config,      \* [Loggers -> SUBSET LevelNames]: the masks given to SetLevels
    Dest,        \* [Loggers -> {"console", "file"}]: ToConsole or ToFile
    OpenFails,   \* whether opening a log file may fail
    LineLevels,  \* the levels writers log at
    MaxMsgs,     \* messages each writer logs
    MaxLines,    \* lines of one message
    NoLogger

ASSUME /\ Cc \in [Loggers -> Seq(Loggers)]
       /\ Config \in [Loggers -> SUBSET LevelNames]
       /\ Dest \in [Loggers -> {"console", "file"}]
       /\ OpenFails \in BOOLEAN
       /\ LineLevels \subseteq LevelNames
       /\ MaxMsgs \in Nat /\ MaxLines \in Nat \ {0}
       /\ NoLogger \notin Loggers

VARIABLES
    root,      \* root[l]: the lines of l's root LogMessage, not yet written
    out,       \* out[l]: the lines written to l's destination, in order
    paused,    \* paused[l]: the atomic pause counter
    opened,    \* opened[l]: l.out is set (a file is opened on demand)
    wpc,       \* where each writer is
    target,    \* the logger a writer is logging to
    child,     \* the lines of the child message a writer is building
    sent,      \* messages a writer has committed
    stack,     \* the flushes a writer is inside, innermost last; each
               \* holds the lock of its logger and has carbon copies to send
    pausing,   \* the logger a writer has paused, or NoLogger
    logged     \* history: logged[l], the lines committed to l's root message

vars == <<root, out, paused, opened, wpc, target, child, sent, stack, pausing, logged>>

Line == [w : Writers, n : Nat, i : Nat, lvl : LevelNames]
Frame == [lg : Loggers, todo : Seq([to : Loggers, lines : Seq(Line)])]

\* SetLevels(levels): the mask, adjusted.
levels == [l \in Loggers |-> Adjust(Config[l])]

\* ccLevels: the sum of the levels of the Cc targets, taken when Cc was
\* called.
ccLevels(l) == UNION {levels[Cc[l][i]] : i \in DOMAIN Cc[l]}

\* The check at the top of Add: a line is kept if this logger or one of its
\* carbon copies wants its level.
Admitted(l, lv) == lv \in levels[l] \cup ccLevels(l)

\* The lock of l is held by a flush in progress.
Locked(l) == \E w \in Writers : \E j \in DOMAIN stack[w] : stack[w][j].lg = l

\* The lines of r that a logger with levels m writes.
Filter(r, m) == SelectSeq(r, LAMBDA x : x.lvl \in m)

\* Whether l.out is set after the open-on-demand step: a log file is opened
\* by the first flush that is not paused, and os.OpenFile may fail.
OpenOutcome(l) ==
    IF Dest[l] = "file" /\ ~opened[l] /\ paused[l] = 0
    THEN (IF OpenFails THEN BOOLEAN ELSE {TRUE})
    ELSE {opened[l]}

\* The early returns of Flush: the lines r stay in the root message, the
\* lock is released, and the writer is back in the flush below, if any.
Keep(w, l, r, st) ==
    /\ root' = [root EXCEPT ![l] = r]
    /\ stack' = [stack EXCEPT ![w] = st]
    /\ wpc' = [wpc EXCEPT ![w] = IF st = <<>> THEN "idle" ELSE "flush"]
    /\ UNCHANGED out

\* The lines of r that l's levels select are written, the root becomes
\* rest (msg.lines[:0]), and a carbon copy of r filtered by each Cc
\* target's levels is prepared; the lock stays held until the copies are
\* committed.
Emit(w, l, r, rest, st) ==
    /\ out' = [out EXCEPT ![l] = @ \o Filter(r, levels[l])]
    /\ root' = [root EXCEPT ![l] = rest]
    /\ stack' = [stack EXCEPT ![w] = Append(st,
         [lg |-> l,
          todo |-> [j \in DOMAIN Cc[l] |->
                     [to |-> Cc[l][j], lines |-> Filter(r, levels[Cc[l][j]])]]])]
    /\ wpc' = [wpc EXCEPT ![w] = "flush"]

\* Faulty variants of RootFlush: one does not reset the root message after
\* writing it, one drops the lines when the log file cannot be opened.
RootFlushNoReset(w, l, r, st) ==
    \E o \in OpenOutcome(l) :
        /\ opened' = [opened EXCEPT ![l] = o]
        /\ IF paused[l] # 0 \/ (Dest[l] = "file" /\ ~o)
           THEN Keep(w, l, r, st) ELSE Emit(w, l, r, r, st)

RootFlushDropOnFail(w, l, r, st) ==
    \E o \in OpenOutcome(l) :
        /\ opened' = [opened EXCEPT ![l] = o]
        /\ IF paused[l] # 0 THEN Keep(w, l, r, st)
           ELSE IF Dest[l] = "file" /\ ~o THEN Keep(w, l, <<>>, st)
           ELSE Emit(w, l, r, <<>>, st)

\* Flush of l's root message, holding l's lock, once its lines are r: a
\* paused logger, or one without a destination (a log file that cannot be
\* opened), keeps the lines buffered; else they are emitted. st is the
\* writer's stack below this flush.
RootFlush(w, l, r, st) ==
    \E o \in OpenOutcome(l) :
        /\ opened' = [opened EXCEPT ![l] = o]
        /\ IF paused[l] # 0 \/ (Dest[l] = "file" /\ ~o)
           THEN Keep(w, l, r, st) ELSE Emit(w, l, r, <<>>, st)

\* A line of writer w's current message.
NewLine(w, lv) == [w |-> w, n |-> sent[w], i |-> Len(child[w]) + 1, lvl |-> lv]

-----------------------------------------------------------------------------

\* msg.Begin(): a child of the root message of l.
Begin(w, l) ==
    /\ wpc[w] = "idle"
    /\ sent[w] < MaxMsgs
    /\ wpc' = [wpc EXCEPT ![w] = "msg"]
    /\ target' = [target EXCEPT ![w] = l]
    /\ UNCHANGED <<root, out, paused, opened, child, sent, stack, pausing, logged>>

\* Add on a child message: the line is appended without locking.
Add(w, lv) ==
    /\ wpc[w] = "msg"
    /\ Len(child[w]) < MaxLines
    /\ Admitted(target[w], lv)
    /\ child' = [child EXCEPT ![w] = Append(@, NewLine(w, lv))]
    /\ UNCHANGED <<root, out, paused, opened, wpc, target, sent, stack, pausing, logged>>

\* Commit: Flush under l's lock (an empty message is ignored), then free.
\* The parent is the root, so the root is flushed in the same critical
\* section.
Commit(w) ==
    LET l == target[w] IN
    /\ wpc[w] = "msg"
    /\ ~Locked(l)
    /\ sent' = [sent EXCEPT ![w] = @ + 1]
    /\ child' = [child EXCEPT ![w] = <<>>]
    /\ IF child[w] = <<>>
       THEN wpc' = [wpc EXCEPT ![w] = "idle"] /\ UNCHANGED <<root, out, opened, stack>>
       ELSE RootFlush(w, l, root[l] \o child[w], <<>>)
    /\ logged' = [logged EXCEPT ![l] = @ \cup ToSet(child[w])]
    /\ UNCHANGED <<paused, target, pausing>>

\* Reject: free() drops the lines and returns the message to the pool; no
\* lock is taken and nothing reaches the root message.
Reject(w) ==
    /\ wpc[w] = "msg"
    /\ sent' = [sent EXCEPT ![w] = @ + 1]
    /\ child' = [child EXCEPT ![w] = <<>>]
    /\ wpc' = [wpc EXCEPT ![w] = "idle"]
    /\ UNCHANGED <<root, out, paused, opened, target, stack, pausing, logged>>

\* Add on the root message (l.Info, l.Error, ...): appendLineBuf appends
\* under the lock, unlocks, then calls Flush.
LogRoot(w, l, lv) ==
    /\ wpc[w] = "idle"
    /\ sent[w] < MaxMsgs
    /\ Admitted(l, lv)
    /\ ~Locked(l)
    /\ root' = [root EXCEPT ![l] = Append(@, NewLine(w, lv))]
    /\ sent' = [sent EXCEPT ![w] = @ + 1]
    /\ wpc' = [wpc EXCEPT ![w] = "rootflush"]
    /\ target' = [target EXCEPT ![w] = l]
    /\ logged' = [logged EXCEPT ![l] = @ \cup {NewLine(w, lv)}]
    /\ UNCHANGED <<out, paused, opened, child, stack, pausing>>

\* Flush of the root message, after appendLineBuf or Resume: an empty root
\* is left alone.
FlushRoot(w) ==
    LET l == target[w] IN
    /\ wpc[w] \in {"rootflush", "resume"}
    /\ ~Locked(l)
    /\ IF root[l] = <<>>
       THEN wpc' = [wpc EXCEPT ![w] = "idle"] /\ UNCHANGED <<root, out, opened, stack>>
       ELSE RootFlush(w, l, root[l], <<>>)
    /\ UNCHANGED <<paused, target, child, sent, pausing, logged>>

\* A faulty variant of CcCommit that commits the copy through a message of
\* the flushing logger itself, whose lock this flush holds.
CcCommitOwnLogger(w) ==
    LET top == stack[w][Len(stack[w])]
        c   == Head(top.todo)
        st  == [stack[w] EXCEPT ![Len(stack[w])].todo = Tail(@)]
    IN
    /\ wpc[w] = "flush"
    /\ top.todo # <<>>
    /\ ~Locked(top.lg)
    /\ IF c.lines = <<>>
       THEN stack' = [stack EXCEPT ![w] = st] /\ UNCHANGED <<root, out, opened, wpc>>
       ELSE RootFlush(w, c.to, root[c.to] \o c.lines, st)
    /\ UNCHANGED <<paused, target, child, sent, pausing, logged>>

\* Commit of the next carbon copy: cc.Begin(), the lines added, Commit; its
\* Flush takes the target's lock (also for an empty copy) and, the parent
\* being the target's root, flushes that root, which may have copies of
\* its own.
CcCommit(w) ==
    LET top == stack[w][Len(stack[w])]
        c   == Head(top.todo)
        st  == [stack[w] EXCEPT ![Len(stack[w])].todo = Tail(@)]
    IN
    /\ wpc[w] = "flush"
    /\ top.todo # <<>>
    /\ ~Locked(c.to)
    /\ IF c.lines = <<>>
       THEN stack' = [stack EXCEPT ![w] = st] /\ UNCHANGED <<root, out, opened, wpc>>
       ELSE RootFlush(w, c.to, root[c.to] \o c.lines, st)
    /\ UNCHANGED <<paused, target, child, sent, pausing, logged>>

\* Every copy committed: the deferred Unlock of the innermost flush.
Unlock(w) ==
    /\ wpc[w] = "flush"
    /\ stack[w][Len(stack[w])].todo = <<>>
    /\ stack' = [stack EXCEPT ![w] = SubSeq(@, 1, Len(@) - 1)]
    /\ wpc' = [wpc EXCEPT ![w] = IF Len(stack[w]) = 1 THEN "idle" ELSE "flush"]
    /\ UNCHANGED <<root, out, paused, opened, target, child, sent, pausing, logged>>

\* Pause: atomic increment, no lock.
Pause(w, l) ==
    /\ wpc[w] = "idle"
    /\ pausing[w] = NoLogger
    /\ paused' = [paused EXCEPT ![l] = @ + 1]
    /\ pausing' = [pausing EXCEPT ![w] = l]
    /\ UNCHANGED <<root, out, opened, wpc, target, child, sent, stack, logged>>

\* A faulty variant of Resume that does not forget the pause, so the
\* goroutine may resume twice.
ResumeKeepPausing(w) ==
    LET l == pausing[w] IN
    /\ wpc[w] = "idle"
    /\ l # NoLogger
    /\ paused' = [paused EXCEPT ![l] = @ - 1]
    /\ IF paused[l] - 1 = 0
       THEN wpc' = [wpc EXCEPT ![w] = "resume"] /\ target' = [target EXCEPT ![w] = l]
       ELSE UNCHANGED <<wpc, target>>
    /\ UNCHANGED <<root, out, opened, child, sent, stack, pausing, logged>>

\* A faulty variant of Resume that does not flush what was buffered.
ResumeNoFlush(w) ==
    LET l == pausing[w] IN
    /\ wpc[w] = "idle"
    /\ l # NoLogger
    /\ paused' = [paused EXCEPT ![l] = @ - 1]
    /\ pausing' = [pausing EXCEPT ![w] = NoLogger]
    /\ UNCHANGED <<root, out, opened, wpc, target, child, sent, stack, logged>>

\* Resume: atomic decrement; the writer that brings the counter to zero
\* flushes the root message.
Resume(w) ==
    LET l == pausing[w] IN
    /\ wpc[w] = "idle"
    /\ l # NoLogger
    /\ paused' = [paused EXCEPT ![l] = @ - 1]
    /\ pausing' = [pausing EXCEPT ![w] = NoLogger]
    /\ IF paused[l] - 1 = 0
       THEN wpc' = [wpc EXCEPT ![w] = "resume"] /\ target' = [target EXCEPT ![w] = l]
       ELSE UNCHANGED <<wpc, target>>
    /\ UNCHANGED <<root, out, opened, child, sent, stack, logged>>

-----------------------------------------------------------------------------

\* NewLogger, ToConsole/ToFile (a file is not opened yet), SetLevels, Cc.
Init ==
    /\ root = [l \in Loggers |-> <<>>]
    /\ out = [l \in Loggers |-> <<>>]
    /\ paused = [l \in Loggers |-> 0]
    /\ opened = [l \in Loggers |-> FALSE]
    /\ wpc = [w \in Writers |-> "idle"]
    /\ target = [w \in Writers |-> NoLogger]
    /\ child = [w \in Writers |-> <<>>]
    /\ sent = [w \in Writers |-> 0]
    /\ stack = [w \in Writers |-> <<>>]
    /\ pausing = [w \in Writers |-> NoLogger]
    /\ logged = [l \in Loggers |-> {}]

Next ==
    \E w \in Writers :
        \/ \E l \in Loggers : Begin(w, l) \/ Pause(w, l)
        \/ \E lv \in LineLevels : Add(w, lv)
        \/ \E l \in Loggers, lv \in LineLevels : LogRoot(w, l, lv)
        \/ Commit(w) \/ Reject(w) \/ FlushRoot(w) \/ CcCommit(w) \/ Unlock(w) \/ Resume(w)

(***************************************************************************)
(* A goroutine that has started a message commits or rejects it, one that *)
(* paused a logger resumes it, and a flush runs to its end: weak fairness. *)
(* Waiting for a logger's sync.Mutex ends once it is free often enough    *)
(* (the mutex hands itself to a waiter that starves): strong fairness.     *)
(***************************************************************************)
Fairness ==
    \A w \in Writers :
        /\ SF_vars(Commit(w) \/ Reject(w)) /\ SF_vars(FlushRoot(w)) /\ SF_vars(CcCommit(w))
        /\ WF_vars(Unlock(w)) /\ WF_vars(Resume(w))

Spec == Init /\ [][Next]_vars /\ Fairness

-----------------------------------------------------------------------------
(* Properties.                                                             *)

TypeOK ==
    /\ root \in [Loggers -> Seq(Line)]
    /\ out \in [Loggers -> Seq(Line)]
    /\ paused \in [Loggers -> 0..Cardinality(Writers)]
    /\ opened \in [Loggers -> BOOLEAN]
    /\ wpc \in [Writers -> {"idle", "msg", "rootflush", "resume", "flush"}]
    /\ target \in [Writers -> Loggers \cup {NoLogger}]
    /\ child \in [Writers -> Seq(Line)]
    /\ sent \in [Writers -> 0..MaxMsgs]
    /\ stack \in [Writers -> Seq(Frame)]
    /\ pausing \in [Writers -> Loggers \cup {NoLogger}]
    /\ logged \in [Loggers -> SUBSET Line]

\* The message a line belongs to.
Msg(x) == <<x.w, x.n>>

\* The LogMessage comment, and the spec's requirement that the entries of
\* one round trip are serialised atomically with respect to another's: in
\* every destination, own or carbon copy, the lines of a message appear
\* once each, in the order they were added, and no line of another message
\* comes between them, whatever the interleaving of Commit, appendLineBuf
\* on the root, Pause/Resume and the nested carbon-copy flushes.
MessageAtomic ==
    \A l \in Loggers :
        \A i, k \in DOMAIN out[l] :
            /\ i < k => out[l][i] # out[l][k]
            /\ (i < k /\ Msg(out[l][i]) = Msg(out[l][k])) =>
                  /\ out[l][i].i < out[l][k].i
                  /\ \A j \in i..k : Msg(out[l][j]) = Msg(out[l][i])

\* The lines of carbon copies to t prepared by flushes still in progress.
InFlight(t) ==
    LET frames == UNION {ToSet(stack[w]) : w \in Writers}
        copies == UNION {ToSet(f.todo) : f \in frames}
    IN  UNION {ToSet(c.lines) : c \in {c \in copies : c.to = t}}

\* What t holds: written, buffered in its root, or on the way to it.
Holds(t) == ToSet(out[t]) \cup ToSet(root[t]) \cup InFlight(t)

\* No committed line is lost, also when the log file cannot be opened
\* (Flush returns keeping the lines buffered) or the logger is paused: a
\* line at one of l's levels is written or still buffered in l's root;
\* once it has left l's root, it is held by every Cc target that wants its
\* level.
NoLineLost ==
    \A l \in Loggers : \A x \in logged[l] :
        /\ x.lvl \in levels[l] => x \in ToSet(out[l]) \cup ToSet(root[l])
        /\ x \notin ToSet(root[l]) =>
              \A j \in DOMAIN Cc[l] : x.lvl \in levels[Cc[l][j]] => x \in Holds(Cc[l][j])

\* Lines buffered in a root message are written once the logger stays
\* unpaused with a destination: Flush keeps them while the logger is paused
\* or its log file cannot be opened, and a later flush writes them; the
\* Resume that brings the pause counter to zero flushes them, even when it
\* races with flushes that read the counter before it changed and with a
\* Pause that comes in between.
LogFlushed ==
    \A l \in Loggers :
        <>[](paused[l] = 0 /\ (Dest[l] = "file" => opened[l])) =>
            [](root[l] # <<>> => <>(root[l] = <<>>))

\* Every flush returns: a flush holds its logger's lock while it commits
\* carbon copies under the Cc targets' locks, and no two flushes ever wait
\* for each other's locks.
FlushReturns ==
    \A w \in Writers : (wpc[w] \in {"rootflush", "resume", "flush"}) ~> (wpc[w] = "idle")
=============================================================================
