SPECIFICATION Spec
CONSTANTS
    Remote = {r1, r2}
    Share = {s1}
    MaxPort = 1
    Handler = {h1}
    Removable = {r1, r2}
    Faults = {"add", "save"}
    None = None
INVARIANTS
    NoCrossExposure
    ShownConnected
CONSTRAINT FewOld
SYMMETRY Symmetry
VIEW View
CHECK_DEADLOCK FALSE
