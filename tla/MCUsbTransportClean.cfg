\* Two interfaces, three concurrent round trips, a device that never fails a
\* transfer, whose second interface may stop answering, a Shutdown whose
\* context may expire: what a released connection carries, that every round
\* trip returns while the device answers, and after Shutdown even when not.
CONSTANTS
    Conns = {c1, c2}
    Sessions = {s1, s2, s3}
    NoConn = NoConn
    NoSession = NoSession
    UsbFaults = FALSE
    ShutdownTimeout = TRUE
    ClientRequests <- MCRequests
    DeviceBuffer = 1
    StallConns = {c2}

SPECIFICATION Spec

INVARIANT ReleasedClean
INVARIANT ResponseMatchesRequest

PROPERTY RoundTripCompletes
PROPERTY StalledRoundTripsEnd
