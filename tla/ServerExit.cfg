SPECIFICATION Spec
CONSTANTS
    Client = {c1}
    Share = {s1}
    Port = {p1}
    Flaky = {}
    LinkStates = {"up", "down"}
    Interval = 1
    Timeout = 1
    Grace = 2
    Words = 4
    FailureCap = 2
    Horizon = 3
    None = None
INVARIANT NoMountsLeft
CHECK_DEADLOCK FALSE
