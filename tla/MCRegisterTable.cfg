SPECIFICATION Spec
CONSTANTS
    Rows = 2
    MaxQuan = 6
    MaxScroll = 6
    DefaultQuan = 3
    Word = 65536
INVARIANTS
    TypeOK
    EditsWhatIsShown
    ArrowsAtEnds
PROPERTY
    MenuDoesNotScroll
