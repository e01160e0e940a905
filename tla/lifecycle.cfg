\* Addresses of three bits, one port that is busy, two certificate requests at once.
SPECIFICATION FairSpec
CONSTANTS
    v6 = v6
    Width = 3
    Handlers = {h1, h2}
    Boot = Boot
    Pairs = {p1, p2, p3, p4}
    Missing = Missing
    Cut = Cut
    None = None
    Setups <- Considered
    Busy = {3}
    Hosts <- Addresses
INVARIANTS
    PairMatches
    ServedIsDownloaded
    StartLeavesPair
    WhitelistIsPrefix
PROPERTY
    ComesUp
