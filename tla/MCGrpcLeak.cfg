\* Cancelling the context while the goroutine runs leaves it blocked.
CONSTANTS
    MaxStream = 3
    DeadlineLeft <- MCDeadlineLeft
    Overhead = 1
    TicksPerMs = 2
    HasStreamHandler = FALSE
    MarshalMayFail = TRUE
    RpcMayFail = TRUE
SPECIFICATION Spec
PROPERTY GoroutineTerminates
CHECK_DEADLOCK FALSE
