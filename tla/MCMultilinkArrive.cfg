CONSTANTS
    Links = {a, b}
    MaxPackets = 1
    QUEUE_SIZE = 3
    Mortal = {a}
    Slow = {}
    Bloated = {}
SPECIFICATION FairSpec
PROPERTY AllArrive
CHECK_DEADLOCK FALSE
