\* Shutdown racing a round trip that waits for a connection: one interface,
\* one round trip.
CONSTANTS
    Conns = {c1}
    Sessions = {s1}
    NoConn = NoConn
    NoSession = NoSession
    UsbFaults = FALSE
    ShutdownTimeout = TRUE
    ClientRequests <- MCRequests
    DeviceBuffer = 1
    StallConns = {}

SPECIFICATION Spec

PROPERTY NoAcquireAfterShutdown
