CONSTANTS
    Ranks = {1, 2, 3}
    Channels = {11}
    Ends <- PairEnds
    Delay <- LongDelay
    Tune = 100
    InterframeGap = 1
    Infinity = 1000
    StopAt <- StopSix
    MaxDelay = 1
    MaxTxTime = 1
    MaxEvents = 1
    MaxPackets = 2
SPECIFICATION FairSpec
INVARIANTS GuaranteeKept NoMessageFromThePast LookAheadRenewed
PROPERTY EveryRankStops
CHECK_DEADLOCK FALSE
