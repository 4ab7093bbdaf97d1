SPECIFICATION Spec
CONSTANTS
    Remote = {r1}
    Share = {s1, s2}
    MaxPort = 1
    Handler = {h1, h2}
    Removable = {}
    Faults = {"connect", "update"}
    None = None
INVARIANTS
    ManifestAgrees
    TunnelsInSync
PROPERTIES
    ServedUnchanged
    NoNewForwards
    KeepsOffer
CONSTRAINT FewOld
SYMMETRY Symmetry
VIEW View
CHECK_DEADLOCK FALSE
