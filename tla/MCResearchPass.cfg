SPECIFICATION Spec
CONSTANTS
    NumVar = 2
    NumPoint = 3
    Names <- MCNames
    MaxRefs = 2
    Obs <- MCObs
    Carries <- MCCarries
    NumReq = 3
    Needs <- MCNeeds
    Dormant <- MCDormant
    Page = 1
    DrainMax = 1
    MaxFaults = 1
    Nothing = Nothing
    o1 = o1
    o2 = o2
INVARIANTS
    NoLostWake
    EndedWorkIsWhole
PROPERTIES
    RequestsAnswered
