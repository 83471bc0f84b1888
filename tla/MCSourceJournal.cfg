SPECIFICATION SpecJournal
CONSTANTS
    i1 = i1
    i3 = i3
    b1 = b1
    b1x = b1x
    b3 = b3
    Id = {i1, i3}
    Body = {b1, b1x, b3}
    Source = {1, 2}
    Job = {job}
    IdOf <- SmallIdOf
    SourceOf <- SmallSourceOf
    Time = {0, 1}
    LeaseSecs = 1
    RetryDelay = 1
    Limit = 2
    MaxBatch = 2
    MaxGen = 2
    MaxRot = 1
    Garbled = Garbled
    Null = Null
INVARIANTS
    CountersExact
    ReceiptsTruthful
    OneLeasePerBatch
    BoundedOvertaking
PROPERTIES
    ImplementsLog
CHECK_DEADLOCK FALSE
