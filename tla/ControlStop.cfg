SPECIFICATION FairSpec
CONSTANTS
    Daemon = {d1}
    Caller = {c1}
    Program = {c1}
    Stopper = {c1}
    MaxRequests = 1
    None = None
PROPERTY StopStops
CHECK_DEADLOCK FALSE
