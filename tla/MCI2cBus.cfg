SPECIFICATION FairSpec
CONSTANTS
    Addr <- MCAddr
    Byte <- MCByte
    BlankByte = 1
    NoRequest = NoRequest
INVARIANTS
    TypeOK
PROPERTIES
    IsEeprom
    AccessReturns
    BusRecovers
