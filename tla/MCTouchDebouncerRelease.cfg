SPECIFICATION Spec
CONSTANTS
    Slots = 4
    Debounce = 3
    HandlerBy = 2
    MaxReadings = 12
CHECK_DEADLOCK FALSE
PROPERTY ReleaseFollowsPress
