SPECIFICATION FairSpec
CONSTANTS
    Client = {c1}
    Share = {s1, s2}
    Port = {p1, p2}
    Flaky = {s2}
    LinkStates = {"up", "slow", "failing", "garbled", "down"}
    Interval = 1
    Timeout = 1
    Grace = 3
    Words = 4
    FailureCap = 3
    Horizon = 4
    None = None
INVARIANTS
    NoStaleMounts
    NothingForgotten
    ExpireOnlyAfterGrace
PROPERTIES
    OfflineProgress
    OnlineProgress
    OfflineUnmounts
    Converges
CHECK_DEADLOCK FALSE
