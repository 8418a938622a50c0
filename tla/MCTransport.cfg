CONSTANTS
    Data = {x, y}
    Empty = Empty
    MaxChannels = 1
    MaxChunks <- MCOneWay
    MAX_BUFFER_PACKETS = 2
    QUEUE_SIZE = 2
SPECIFICATION FairSpec
INVARIANTS InOrder NoStall NoUnknownStream WindowSuffices
PROPERTIES ImplementsOrderedChannels EventuallyForwarded
CHECK_DEADLOCK FALSE
