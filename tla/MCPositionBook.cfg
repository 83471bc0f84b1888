SPECIFICATION Spec
CONSTANTS
    Tokens = {a, b}
    Workers = {w}
    Sweep = sweep
    QueueSize = 1
    MaxOpen = 1
    Lot = 1
    Tries = 1
    Contests = TRUE
    Adds = TRUE
    Unconfirmed = 1
    MaxPos = 2
SYMMETRY Symmetry
INVARIANTS
    EventsReachADecision
    EntriesBooked
    BookCovered
CHECK_DEADLOCK FALSE
