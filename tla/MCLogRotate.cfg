\* Three backups, a log that rotates after one chunk, Stat, gzip and Truncate that may fail,
\* enough flushes for the backups to fill and the oldest to be dropped.
CONSTANTS
    MaxBackupFiles = 3
    MaxFileSize = 1
    IoFails = TRUE
    TruncFails = TRUE
    MaxWrites = 12
    Missing = Missing

SPECIFICATION Spec

\* The writes are bounded: after the last one nothing is logged.
CHECK_DEADLOCK FALSE

INVARIANT ShiftIsShiftRef
INVARIANT KeptHasNoGap
