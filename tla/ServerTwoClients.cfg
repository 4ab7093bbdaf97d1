SPECIFICATION Spec
CONSTANTS
    Client = {c1, c2}
    Share = {s1, s2}
    Port = {p1, p2}
    Flaky = {s1, s2}
    LinkStates = {"up", "down"}
    Interval = 1
    Timeout = 1
    Grace = 6
    Words = 4
    FailureCap = 2
    Horizon = 3
    None = None
SYMMETRY Symmetry
INVARIANTS
    TypeOK
    OneMountPerPoint
    GraceArmed
PROPERTIES
    UnmountedForCause
    MirrorsOffers
CHECK_DEADLOCK FALSE
