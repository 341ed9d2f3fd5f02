\* Every result of net.Interfaces with up to three interfaces.
CONSTANTS
    MaxIfaces = 3
    ListError = ListError
    AddrsError = AddrsError

SPECIFICATION Spec

\* Loopback returns: the scan ends in a result.
CHECK_DEADLOCK FALSE

INVARIANT LoopbackIsFirst
