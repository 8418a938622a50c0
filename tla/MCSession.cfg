CONSTANTS
    a1 = a1
    a2 = a2
    Addrs = {a1, a2}
    Static <- MCStatic
    MaxConns = 3
    MaxClients = 2
    MaxServers = 2
    MaxBreaks = 1
SPECIFICATION FairSpec
INVARIANTS SessionInv OneInstance NoForgottenAddress HandoverInOrder
PROPERTY EventuallyLinked
CHECK_DEADLOCK FALSE
