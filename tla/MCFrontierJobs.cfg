SPECIFICATION SpecFrontier
CONSTANTS
    j1 = j1
    j2 = j2
    c1 = c1
    x = x
    y = y
    w1 = w1
    w2 = w2
    n1 = n1
    n2 = n2
    None = None
    Job = {j1, j2}
    Coord = {c1}
    CoordOf <- MCCoordOf
    Tag = {x, y}
    TagsOf <- MCTagsOf
    Worker = {w1, w2}
    Change = {n1, n2}
    Time = {0, 1}
    LeaseFor = 1
    RetryDelay = 1
    Limit = 2
    MaxAttempts = 2
SYMMETRY Symmetry
INVARIANTS
    ActiveTagsExact
    AuditTrail
PROPERTIES
    LeaseEndsByOwner
    JobsImplementLog
