CONSTANTS
    Ranks = {1, 2}
    Channels = {11, 12}
    Ends <- PairEnds
    Delay <- PairDelay
    Tune = 100
    InterframeGap = 0
    Infinity = 1000
    StopAt <- StopFour
    MaxDelay = 1
    MaxTxTime = 2
    MaxEvents = 2
    MaxPackets = 2
SPECIFICATION Spec
INVARIANT GuaranteeKept
CHECK_DEADLOCK FALSE
