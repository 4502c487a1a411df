CONSTANTS
    Workers = {w1, w2}
    NoThread = none
    Contexts = {n1}
    NoContext = noctx
    MaxDelay = 2
    MaxEvents = 3
    UidModulus = 7
SPECIFICATION FairSpec
INVARIANTS TypeOK ExpiredExact EventsAccounted UnscheduledExact HandOverAnnounced NothingLeaked
PROPERTIES ImplementsEventList HandOverInserted RunTerminates
CHECK_DEADLOCK FALSE
