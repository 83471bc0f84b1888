SPECIFICATION Spec
CONSTANTS
    entry = entry
    exit = exit
    odd = odd
    Call = {entry, exit, odd}
    Unlisted = {odd}
    RateLimit = 2
    Window = 1
    MaxTick = 0
    MaxRestart = 1
INVARIANTS
    AnswerIsOwn
CHECK_DEADLOCK FALSE
