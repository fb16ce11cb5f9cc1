SPECIFICATION FairSpec
CONSTANTS
    Quan = 2
    ItemId <- MCItemId
    Stored <- MCStored
    MinValue <- MCMin
    MaxValue <- MCMax
    Default <- MCDefault
    Blank = 4
INVARIANTS
    TypeOK
    SettingsInRange
    ChangesAreQueued
    MarksAreAnnounced
PROPERTIES
    EventuallySaved
