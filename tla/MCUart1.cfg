SPECIFICATION FairSpec
CONSTANTS
    RxSize = 2
    TxSize = 2
    BufferSize = 2
    FrameMax = 2
    Byte <- MCByte
INVARIANTS
    TypeOK
    CompleteMeansSent
    RequestFits
PROPERTIES
    RxIsFifo
    TxIsFifo
    SendReturns
