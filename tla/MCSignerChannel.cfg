SPECIFICATION FairSpec
CONSTANTS
    entry = entry
    exit = exit
    odd = odd
    Call = {entry, exit}
    Unlisted = {}
    RateLimit = 2
    Window = 1
    MaxTick = 2
    MaxRestart = 1
INVARIANTS
    TimeoutsLeaveNothing
    HaltBinds
    SignedAtMostTwice
    RateHeld
PROPERTIES
    CallsEnd
CHECK_DEADLOCK FALSE
