------------------------------ MODULE LogLevel ------------------------------
(* The LogLevel bit mask of src/logger.go, as a set of level names.        *)

\* The LogLevel bits, from the least to the most detailed (the four trace
\* bits, which Adjust treats alike, are one name here).
LevelNames == {"error", "info", "debug", "trace"}

\* LogLevel.Adjust: a more detailed level implies the less detailed ones.
Adjust(m) ==
    CASE m \cap {"trace"} # {} -> m \cup {"debug", "info", "error"}
      [] "debug" \in m        -> m \cup {"info", "error"}
      [] "info" \in m         -> m \cup {"error"}
      [] OTHER                -> m

\* LogAll: every level.
LogAll == LevelNames
=============================================================================
