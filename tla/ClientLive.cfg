SPECIFICATION FairSpec
CONSTANTS
    Remote = {r1}
    Share = {s1}
    MaxPort = 1
    Handler = {h1}
    Removable = {r1}
    Faults = {"update"}
    None = None
INVARIANT TypeOK
PROPERTY RemovedNotForwarded
CHECK_DEADLOCK FALSE
