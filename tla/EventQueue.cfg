CONSTANTS
    MaxDelay = 5
    Delays = {0, 1, 5}
    MaxEvents = 5
    MaxBuckets = 4
    MaxChanges = 1
SPECIFICATION QueueSpec
INVARIANTS ContentsKept SchedulerInv
PROPERTY QueueImplementsEventList
CHECK_DEADLOCK FALSE
