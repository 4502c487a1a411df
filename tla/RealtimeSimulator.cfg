CONSTANTS
    Threads = {"t1"}
    Removers = {"main", "t1"}
    Epoch = 98
    NsPerSec = 100
    Second = 2
    SleepMargin = 1
    HardLimit = 1
    MaxTime = 3
    MaxDelay = 2
    MaxEvents = 3
    MaxRuns = 1
SPECIFICATION FairSpec
INVARIANTS InTime UnscheduledExact NoLostWakeup IdleSleeps
PROPERTY PendingExecuted
CHECK_DEADLOCK FALSE
