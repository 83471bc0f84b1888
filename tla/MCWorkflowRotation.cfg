SPECIFICATION SpecRotation
CONSTANTS
    raw1 = raw1
    raw2 = raw2
    raw3 = raw3
    gauntlet = gauntlet
    data = data
    dear1 = dear1
    dear2 = dear2
    Jobs <- FewJobs
    KindCount = 3
    KindOf <- FewKindOf
    FloorCount = 2
    FloorsOf <- FewFloorsOf
    Created <- FewCreated
    Priority <- FewPriority
    Cost <- DearWork
    ScanLimit = 2
    PassLimit = 4
    Budget = 6
    MaxAborts = 2
INVARIANTS
    KindsRotate
    PassWithinEnvelope
PROPERTY FloorsServed
