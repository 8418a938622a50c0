CONSTANTS
    MaxData <- MCOneWay
    WireCap = 1
    RecvCap = 1
    RoundTrips = {"low", "between", "high"}
    Pingers = {"client"}
    MayTimeOut = {"client"}
    None = None
SPECIFICATION Spec
INVARIANTS LinkInv NoLoss NoLostWakeup
PROPERTY AckMonotonic
CHECK_DEADLOCK FALSE
