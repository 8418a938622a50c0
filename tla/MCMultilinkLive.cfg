CONSTANTS
    Links = {a, b}
    MaxPackets = 1
    QUEUE_SIZE = 3
    Mortal = {a}
    Slow = {a}
    Bloated = {b}
SPECIFICATION FairSpec
PROPERTY EventuallyArrives
CHECK_DEADLOCK FALSE
