\* A device whose bulk transfers may fail while it stays attached (a stall,
\* an overflow, a transfer error): one interface, two round trips.
CONSTANTS
    Conns = {c1}
    Sessions = {s1, s2}
    NoConn = NoConn
    NoSession = NoSession
    UsbFaults = TRUE
    ShutdownTimeout = TRUE
    ClientRequests <- MCRequests
    DeviceBuffer = 1
    StallConns = {}

SPECIFICATION Spec

INVARIANT ResponseMatchesRequest
