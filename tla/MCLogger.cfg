\* Two goroutines logging to a device logger that copies errors to the
\* Console, pausing and resuming loggers, with a log file that may fail to
\* open.
CONSTANTS
    con = con
    Loggers = {dev, con}
    Writers = {w1, w2}
    NoLogger = NoLogger
    Cc <- MCCc
    Config <- MCConfig
    Dest <- MCDest
    OpenFails = TRUE
    LineLevels = {"error", "debug"}
    MaxMsgs = 1
    MaxLines = 2

SPECIFICATION Spec

\* Writers stop after MaxMsgs messages: the logger then has nothing to do.
CHECK_DEADLOCK FALSE

INVARIANT TypeOK
INVARIANT MessageAtomic
INVARIANT NoLineLost
PROPERTY LogFlushed
PROPERTY FlushReturns
