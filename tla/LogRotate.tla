------------------------------ MODULE LogRotate ------------------------------
(***************************************************************************)
(* Log file rotation, Logger.rotate and Logger.gzip of src/logger.go, as   *)
(* Flush runs it before writing: when the log file is larger than the      *)
(* maximum size, the backups path.0.gz .. path.(N-1).gz are shifted up by  *)
(* one (the oldest removed), the log is compressed into path.0.gz, and the *)
(* log is truncated. The log is a sequence of chunks numbered in the order *)
(* they were written (one chunk per flush); a backup holds the chunks of   *)
(* the log it was made of, or is Missing. The failures covered: Stat, and  *)
(* gzip's open, copy or close (IoFails); file.Truncate, whose error rotate *)
(* ignores (TruncFails). Remove and Rename of backups always succeed.      *)
(***************************************************************************)
EXTENDS Naturals, Sequences

CONSTANTS
    MaxBackupFiles,   \* Conf.LogMaxBackupFiles
    MaxFileSize,      \* Conf.LogMaxFileSize, in chunks
    IoFails,          \* whether Stat, or gzip's open, copy or close, may fail
    TruncFails,       \* whether file.Truncate(0) may fail
    MaxWrites,        \* flushes that write to the log
    Missing

ASSUME /\ MaxBackupFiles \in Nat /\ MaxFileSize \in Nat
       /\ IoFails \in BOOLEAN /\ TruncFails \in BOOLEAN /\ MaxWrites \in Nat

VARIABLES
    log,      \* the chunks in the log file
    backup,   \* backup[i]: the content of path.i.gz, or Missing
    written   \* chunks written so far

vars == <<log, backup, written>>

Slots == 0..(MaxBackupFiles - 1)

\* os.Rename(from, to): nothing happens when from does not exist, or when
\* to is the empty path (prevpath before the first iteration).
Rename(f, from, to) ==
    IF f[from] = Missing \/ to = Missing THEN f
    ELSE [f EXCEPT ![to] = f[from], ![from] = Missing]

\* A faulty variant of the loop that counts upwards.
RECURSIVE ShiftUp(_, _, _)
ShiftUp(f, i, prevpath) ==
    IF i > MaxBackupFiles THEN f
    ELSE LET nextpath == i - 1 IN
         IF i = MaxBackupFiles
         THEN ShiftUp([f EXCEPT ![nextpath] = Missing], i + 1, nextpath)
         ELSE ShiftUp(Rename(f, nextpath, prevpath), i + 1, nextpath)

ShiftedUp(f) == ShiftUp(f, 1, Missing)

\* The loop of rotate, for i from MaxBackupFiles down to 1: the oldest
\* backup is removed, every other is renamed to the next number up.
\* Its result leaves path.0.gz free for gzip.
RECURSIVE Shift(_, _, _)
Shift(f, i, prevpath) ==
    IF i = 0 THEN f
    ELSE LET nextpath == i - 1 IN
         IF i = MaxBackupFiles
         THEN Shift([f EXCEPT ![nextpath] = Missing], i - 1, nextpath)
         ELSE Shift(Rename(f, nextpath, prevpath), i - 1, nextpath)

\* What the backups are after the loop.
Shifted(f) == Shift(f, MaxBackupFiles, Missing)

\* A faulty variant of Flush that truncates the log also when gzip failed.
FlushTruncateAlways ==
    /\ written < MaxWrites
    /\ written' = written + 1
    /\ IF Len(log) <= MaxFileSize
       THEN log' = Append(log, written + 1) /\ UNCHANGED backup
       ELSE \/ /\ IoFails
               /\ log' = Append(log, written + 1) /\ UNCHANGED backup
            \/ /\ MaxBackupFiles = 0
               /\ log' = <<written + 1>> /\ UNCHANGED backup
            \/ /\ MaxBackupFiles = 0 /\ TruncFails
               /\ log' = Append(log, written + 1) /\ UNCHANGED backup
            \/ /\ MaxBackupFiles > 0
               /\ backup' = [Shifted(backup) EXCEPT ![0] = log]
               /\ log' = <<written + 1>>
            \/ /\ MaxBackupFiles > 0 /\ TruncFails
               /\ backup' = [Shifted(backup) EXCEPT ![0] = log]
               /\ log' = Append(log, written + 1)
            \/ /\ MaxBackupFiles > 0 /\ IoFails
               /\ backup' = Shifted(backup)
               /\ log' = <<written + 1>>

\* A Flush that writes: it rotates the file first, if it is larger than
\* the maximum (when Stat fails it does not); without backups the log is
\* just truncated; otherwise gzip either produces path.0.gz, after which
\* the log is truncated, or fails and removes its output, and rotate
\* returns leaving the log as it was; a failed Truncate, whose error is
\* ignored, also leaves the log as it was; then the flushed lines are
\* appended.
Flush ==
    /\ written < MaxWrites
    /\ written' = written + 1
    /\ IF Len(log) <= MaxFileSize
       THEN log' = Append(log, written + 1) /\ UNCHANGED backup
       ELSE \/ /\ IoFails
               /\ log' = Append(log, written + 1) /\ UNCHANGED backup
            \/ /\ MaxBackupFiles = 0
               /\ log' = <<written + 1>> /\ UNCHANGED backup
            \/ /\ MaxBackupFiles = 0 /\ TruncFails
               /\ log' = Append(log, written + 1) /\ UNCHANGED backup
            \/ /\ MaxBackupFiles > 0
               /\ backup' = [Shifted(backup) EXCEPT ![0] = log]
               /\ log' = <<written + 1>>
            \/ /\ MaxBackupFiles > 0 /\ TruncFails
               /\ backup' = [Shifted(backup) EXCEPT ![0] = log]
               /\ log' = Append(log, written + 1)
            \/ /\ MaxBackupFiles > 0 /\ IoFails
               /\ backup' = Shifted(backup)
               /\ log' = Append(log, written + 1)

Init ==
    /\ log = <<>>
    /\ backup = [i \in Slots |-> Missing]
    /\ written = 0

Spec == Init /\ [][Flush]_vars

-----------------------------------------------------------------------------
(* Properties.                                                             *)

\* The reference: every backup one slot up, the oldest gone, slot 0 free.
ShiftRef(f) == [i \in Slots |-> IF i = 0 THEN Missing ELSE f[i - 1]]

\* The rename loop of rotate, run on the backups as they are on disk (with
\* the gaps failed gzips leave, whose renames fail and are ignored), moves
\* every backup up by one slot and drops the oldest.
ShiftIsShiftRef == Shifted(backup) = ShiftRef(backup)

\* What the disk keeps, oldest first: the backups from the highest number
\* down, then the log.
RECURSIVE KeptFrom(_)
KeptFrom(i) ==
    IF i < 0 THEN log
    ELSE (IF backup[i] = Missing THEN <<>> ELSE backup[i]) \o KeptFrom(i - 1)

Kept == KeptFrom(MaxBackupFiles - 1)

\* The files on disk, oldest first, each as the chunks it holds.
RECURSIVE FilesFrom(_)
FilesFrom(i) ==
    IF i < 0 THEN <<log>>
    ELSE (IF backup[i] = Missing THEN <<>> ELSE <<backup[i]>>) \o FilesFrom(i - 1)

\* Chunks that follow one another in the order written.
IsRun(s) == \A j \in 1..(Len(s) - 1) : s[j + 1] = s[j] + 1

\* Whatever fails in rotate (Stat, gzip after the backups were shifted, or
\* the Truncate whose error is ignored), no chunk of the recent history is
\* lost or reordered: every file holds chunks in the order written, a newer
\* file ends later than an older one, and the chunks kept are all those
\* from the oldest kept up to the last written.
KeptHasNoGap ==
    LET fs     == FilesFrom(MaxBackupFiles - 1)
        chunks == UNION {{fs[k][j] : j \in DOMAIN fs[k]} : k \in DOMAIN fs}
    IN  /\ \A k \in DOMAIN fs : IsRun(fs[k])
        /\ \A k \in 1..(Len(fs) - 1) :
              Len(fs[k + 1]) > 0 => fs[k][Len(fs[k])] < fs[k + 1][Len(fs[k + 1])]
        /\ \A c \in chunks : c..written \subseteq chunks

\* Rotation, including the failures of gzip after the backups were
\* already shifted, never reorders the log or leaves a hole in it: the
\* backups and the log together hold the most recent chunks written, each
\* once, in the order written.
KeptIsRecentHistory ==
    Kept = [j \in 1..Len(Kept) |-> written - Len(Kept) + j]
=============================================================================
