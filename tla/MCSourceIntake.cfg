SPECIFICATION FairSpec
CONSTANTS
    post = post
    page = page
    k1 = k1
    Event = {post, page}
    Onion = {page}
    Directory = {}
    Key = {k1}
    KeyOf <- MCKeyOf
    Batch = 2
    MaxFault = 2
    MaxCrash = 1
INVARIANTS
    AckedIsCanonical
    OutboxUntilCanonical
    RedeliveryNeedsFault
PROPERTIES
    MeshImplementsLog
    AcceptedIsAcked
    OutboxDrains
