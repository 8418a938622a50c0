CONSTANTS
    MaxBytes = 5
    MTU = 2
    SockRoom = 3
    MayBreak = {"in", "out"}
SPECIFICATION FairSpec
INVARIANTS PipeInv NoStuckBytes
PROPERTIES EventuallyThrough EventuallyReported
CHECK_DEADLOCK FALSE
