CONSTANTS
    Fanout = 4
    Grain = 2
    PwcGeometry <- SmallPwc
    ReplacePolicy = "LRU"
    GuestTable <- SmallGuest
    HostTable <- SmallHost
SPECIFICATION WalkSpec
INVARIANT ShortByMissingRows
INVARIANT ParsedWalksAlign
INVARIANT HitsRevisitGroup
PROPERTY HeldIsReported
