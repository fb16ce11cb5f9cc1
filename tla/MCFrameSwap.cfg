SPECIFICATION FairSpec
CONSTANTS
    FrontPorch = 2
    VSize = 3
    BackPorch = 1
    Pictures = 3
INVARIANTS
    TypeOK
    FrameFromOnePicture
    ReadsAtMostOneRowPast
PROPERTIES
    IsScreen
    InterfaceKeepsDrawing
