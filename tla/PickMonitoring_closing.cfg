SPECIFICATION FairSpec
CONSTANTS
    Pick = {p1}
    Worker = {w1, w2}
    None = None
    Kickoffs = {1, 2}
    FirstKickoff = 2
    Interval = 1
    ClaimLimit = 1
    MaxClock = 3
    MaxMoves = 1
    MaxFacts = 3
    MaxFaults = 1
INVARIANTS ClosingIsLatest EntryBacksClosing ClvIsPreMatch
PROPERTY MonitoringEnds
