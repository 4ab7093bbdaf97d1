SPECIFICATION FairSpec
CONSTANTS
    Daemon = {d1, d2}
    Caller = {c1, c2}
    Program = {c2}
    Stopper = {}
    MaxRequests = 2
    None = None
INVARIANTS
    TypeOK
    LostForCause
PROPERTIES
    KeepsPromise
    Answered
    AnswerNears
CHECK_DEADLOCK FALSE
