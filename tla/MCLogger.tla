------------------------------ MODULE MCLogger ------------------------------
(* Instantiates the logger as ipp-usb sets it up: per-device loggers       *)
(* writing to files, each with a carbon copy to the Console logger.        *)
EXTENDS Logger

CONSTANTS con

\* Device logs: every level up to debug (SetLevels adjusts "debug" to
\* debug, info and error); Console: errors only.
MCConfig == [l \in Loggers |-> IF l = con THEN {"error"} ELSE {"debug"}]

\* dev.Cc(Console); the Console has no carbon copies.
MCCc == [l \in Loggers |-> IF l = con THEN <<>> ELSE <<con>>]

MCDest == [l \in Loggers |-> IF l = con THEN "console" ELSE "file"]
=============================================================================
