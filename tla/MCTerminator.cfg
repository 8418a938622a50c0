CONSTANTS
    Streams = {s1}
    MaxChunks <- MCChunks
    MaxRaw <- MCRaw
    Quic = {2}
    MAX_TUN_QUEUE_SIZE = 1
    QUEUE_SIZE = 2
SPECIFICATION FairSpec
INVARIANTS TunInv StreamInOrder NoOrphan NoLostWakeup
PROPERTIES CloseSpreads EventuallyResolved
CHECK_DEADLOCK FALSE
