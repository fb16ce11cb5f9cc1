SPECIFICATION Spec
CONSTANTS
    Regs = 2
    FrameRegs = 2
    Value = {0, 1}
    Garbage = Garbage
    AddrHigh = 6
    Request <- MCRequest
INVARIANTS
    TypeOK
    CopyFits
    OkMeansDone
