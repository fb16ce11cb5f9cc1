SPECIFICATION Spec
CONSTANTS
    RegCount = 3
    RxFrame = 2
    TxFrame = 2
    Attempts = 2
    Watched = {1}
    ByteWidth = 2
    Addrs <- MCAddrs
    Quans <- MCQuans
    Slaves <- MCSlaves
INVARIANT
    UserValueStaysMarked
