\* Shutdown with a context that never expires, racing the release of the
\* last connection in use: one interface, one round trip.
CONSTANTS
    Conns = {c1}
    Sessions = {s1}
    NoConn = NoConn
    NoSession = NoSession
    UsbFaults = FALSE
    ShutdownTimeout = FALSE
    ClientRequests <- MCRequests
    DeviceBuffer = 1
    StallConns = {}

SPECIFICATION Spec

PROPERTY ShutdownReturnsOnceIdle
