CONSTANTS
    MaxData <- MCOnePacket
    WireCap = 1
    RecvCap = 1
    RoundTrips = {"low", "between", "high"}
    Pingers = {"client"}
    MayTimeOut = {"client"}
    None = None
SPECIFICATION FairSpec
PROPERTY EventuallyAcked
CHECK_DEADLOCK FALSE
