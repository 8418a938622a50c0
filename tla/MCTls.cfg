CONSTANTS
    MaxItems <- MCItems
    MAX_BIO_BUFFER = 1
    SocketSize = 1
SPECIFICATION FairSpec
INVARIANTS TlsInv NoLostWakeup
PROPERTIES EventuallyRead WrongKeyReported
CHECK_DEADLOCK FALSE
