CONSTANTS
    MaxDelay = 1
    MaxEvents = 8
SPECIFICATION Spec
INVARIANT RootIsEarliest
CHECK_DEADLOCK FALSE
