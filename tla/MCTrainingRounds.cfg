SPECIFICATION FairSpec
CONSTANTS
    Desk = desk
    Timers = {once}
    walk = walk
    hazard = hazard
    Jobs <- MCJobs
    Order <- MCOrder
    Gated = {hazard}
    Exported = {hazard}
    Interval <- MCInterval
    Required = 1
    Gap = 1
    MaxFail = 1
INVARIANTS
    OneTrainer
PROPERTIES
    NativeNotSetBack
    RoundsEnd
