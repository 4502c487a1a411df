CONSTANTS
    Ranks = {1, 2}
    Delay <- PairDelay
    MaxLookAhead = 0
    Infinity = 1000
    MaxDelay = 1
    MaxTxTime = 0
    MaxEvents = 1
    MaxMessages = 2
SPECIFICATION Spec
INVARIANT NoPacketLost
CHECK_DEADLOCK FALSE
