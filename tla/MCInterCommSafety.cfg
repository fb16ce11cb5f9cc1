SPECIFICATION FairSpec
CONSTANTS
    RegCount = 3
    RxFrame = 2
    TxFrame = 2
    Attempts = 2
    ByteWidth = 2
    Watched = {}
    Addrs <- MCAddrs
    Quans <- MCQuans
    Slaves <- MCSlaves
INVARIANTS
    TypeOK
    FrameInRange
    BatchInRange
PROPERTIES
    ConfigStableInScan
    LockHeldUntilTaken
