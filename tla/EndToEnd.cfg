SPECIFICATION BothSpec
CONSTANTS
    Host = h
    Remote = {r1}
    Here = r1
    Share = {s1, s2}
    MaxPort = 1
    Handler = {h1}
    Removable = {}
    Faults = {}
    Flaky = {}
    LinkStates = {"up", "down"}
    Interval = 1
    Timeout = 0
    Grace = 1
    Words = 2
    FailureCap = 1
    Horizon = 2
    None = None
INVARIANT ShowsItsFolder
PROPERTY ImplementsLazyMount
CONSTRAINT Bounds
SYMMETRY Symmetry
VIEW View
CHECK_DEADLOCK FALSE
