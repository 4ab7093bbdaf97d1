SPECIFICATION FairSpec
CONSTANTS
    Proc = {p1, p2}
    Restartable = {p1}
    Capacity = 1
INVARIANTS
    TypeOK
    OneChild
    LogTellsTruth
PROPERTIES
    ImplementsLifecycle
    WindsDown
    ImplementsFairLifecycle
    CrashedComesBack
CHECK_DEADLOCK FALSE
