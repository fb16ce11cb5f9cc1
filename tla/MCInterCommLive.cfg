SPECIFICATION FairSpec
CONSTANTS
    RegCount = 2
    RxFrame = 1
    TxFrame = 1
    Attempts = 2
    Watched = {}
    ByteWidth = 2
    Addrs <- MCFixed
    Quans <- MCQuansLive
    Slaves <- MCFixed
PROPERTIES
    LockedEventuallyTaken
    SettingsEventuallyApplied
    RetryReported
