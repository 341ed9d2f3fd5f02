\* As MCLogRotate.cfg, with file.Truncate(0) in rotate that may fail.
CONSTANTS
    MaxBackupFiles = 3
    MaxFileSize = 1
    IoFails = FALSE
    TruncFails = TRUE
    MaxWrites = 6
    Missing = Missing

SPECIFICATION Spec

\* The writes are bounded: after the last one nothing is logged.
CHECK_DEADLOCK FALSE

INVARIANT KeptIsRecentHistory
