SPECIFICATION PyVizFairSpec
CONSTANTS
    Periods = {1, 2}
    StopTimes = {1}
    MaxNow = 3
    MaxTimers = 3
    MaxDepth = 2
    MaxMessages = 1
INVARIANTS LockedLooksExclusive NoSelfDeadlock OnePeriodAhead PauseMessagesKept
PROPERTIES PausedTimersEnd QuitEnds PlayGoesOn
CHECK_DEADLOCK FALSE
