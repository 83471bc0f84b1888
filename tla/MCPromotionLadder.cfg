SPECIFICATION Spec
CONSTANTS
    Exact = {"a", "b"}
    Invalid = {"i"}
    Legacy = {"l"}
    Event = {"e1", "e2", "e3"}
    Paper = {"e1"}
    Good = {"e1", "e2"}
    MinShadow = 1
    MinCanary = 1
    Window = 1
    MaxFaults = 1
    MaxEpoch = 2
INVARIANTS
    OneRung
    LiveEarned
    OutcomeCountsOnce
CHECK_DEADLOCK FALSE
