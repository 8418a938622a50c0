CONSTANTS
    MaxEvents = 3
    MaxTime = 4
    Deltas = {0, 1, 2}
    Periods = {0, 1}
SPECIFICATION FairSpec
INVARIANTS ExactlyOnce Armed
PROPERTY EventuallyFired
CHECK_DEADLOCK FALSE
