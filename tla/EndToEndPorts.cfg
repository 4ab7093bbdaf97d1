SPECIFICATION FairBothSpec
CONSTANTS
    Host = h
    Remote = {r1}
    Here = r1
    Share = {s1}
    MaxPort = 1
    Handler = {h1}
    Removable = {}
    Faults = {}
    Flaky = {}
    LinkStates = {"up", "down"}
    Interval = 1
    Timeout = 0
    Grace = 1
    Words = 2
    FailureCap = 1
    Horizon = 2
    None = None
PROPERTY MountsFollow
CONSTRAINT OneWay
CHECK_DEADLOCK FALSE
