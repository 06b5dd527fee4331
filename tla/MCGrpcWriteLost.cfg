\* With a stream handler, a failed sw.write is overwritten by the next Recv.
CONSTANTS
    MaxStream = 3
    DeadlineLeft <- MCDeadlineLeft
    Overhead = 1
    TicksPerMs = 2
    HasStreamHandler = TRUE
    MarshalMayFail = TRUE
    RpcMayFail = TRUE
SPECIFICATION Spec
INVARIANT WriteFailureReported
CHECK_DEADLOCK FALSE
