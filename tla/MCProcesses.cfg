CONSTANTS
    Procs = {o1, o2, o3}
    Pids = {101, 102}
    Codes = {0, 1}
    Killed = Killed
    MaxWaits = 1
    None = None
SPECIFICATION FairSpec
INVARIANT ProcessesInv
PROPERTIES EventuallyAnswered HandlerReturns
