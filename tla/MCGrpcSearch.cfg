\* One search with a stream handler, every server stream of up to three
\* responses, and the context cancelled at any point or never.  A goroutine
\* left blocked on resultCh after the caller returned on ctx.Done() is a
\* real stop, so deadlock is not checked.
CONSTANTS
    MaxStream = 3
    DeadlineLeft <- MCDeadlineLeft
    Overhead = 1
    TicksPerMs = 2
    HasStreamHandler = TRUE
    MarshalMayFail = TRUE
    RpcMayFail = TRUE
SPECIFICATION Spec
INVARIANT TypeOK ReadFailureReported
PROPERTY CallerReturns
CHECK_DEADLOCK FALSE
