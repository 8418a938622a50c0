CONSTANTS
    Links = {a, b}
    MaxPackets = 2
    QUEUE_SIZE = 2
    Mortal = {a, b}
    Slow = {a, b}
    Bloated = {a, b}
SYMMETRY LinkSymmetry
SPECIFICATION Spec
INVARIANTS MultilinkInv NoLoss DuplicateMeansTimeout
CHECK_DEADLOCK FALSE
