\* Two interfaces, two concurrent round trips, a device whose transfers may
\* fail, a Shutdown whose context may expire: who owns each connection.
CONSTANTS
    Conns = {c1, c2}
    Sessions = {s1, s2}
    NoConn = NoConn
    NoSession = NoSession
    UsbFaults = TRUE
    ShutdownTimeout = TRUE
    ClientRequests <- MCRequests
    DeviceBuffer = 1
    StallConns = {}

SPECIFICATION Spec

INVARIANT TypeOK
INVARIANT ConnOwnership

PROPERTY PoolRefinement
