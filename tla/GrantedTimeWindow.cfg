CONSTANTS
    Ranks = {1, 2, 3}
    Delay <- ChainDelay
    MaxLookAhead = 0
    Infinity = 1000
    MaxDelay = 1
    MaxTxTime = 0
    MaxEvents = 1
    MaxMessages = 3
SPECIFICATION Spec
INVARIANTS Causality SafeWindow
CHECK_DEADLOCK FALSE
