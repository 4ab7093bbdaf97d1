SPECIFICATION FairSpec
CONSTANTS
    Share = {s1, s2}
    MaxPort = 4
    Span = 2
    SftpStart = 1
    TunnelStart = 3
    Control = 2
    Contested = {2}
    MaxStrays = 2
    None = None
INVARIANTS
    TypeOK
    TunnelsApart
    NoStrayAnswers
PROPERTIES
    GetsItsPort
    OffersUntilWrap
CHECK_DEADLOCK FALSE
