CONSTANTS
    Policies = {"CANCEL_ON_DESTROY", "REMOVE_ON_DESTROY", "CHECK_ON_DESTROY"}
    MaxDelay = 2
    MaxTime = 4
    MaxEvents = 3
    MaxPings = 3
SPECIFICATION TimersSpec
INVARIANTS OnlyItsEvent ArmedByOneEvent
PROPERTIES KeepsContract CalledWhenPromised Triggers
CHECK_DEADLOCK FALSE
