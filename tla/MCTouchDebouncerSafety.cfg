SPECIFICATION Spec
CONSTANTS
    Slots = 4
    Debounce = 3
    HandlerBy = 2
    MaxReadings = 24
CHECK_DEADLOCK FALSE
INVARIANTS
    TypeOK
    QueueInOrder
PROPERTIES
    SentInOrder
    DelayedByQueue
    MovesFollowPress
