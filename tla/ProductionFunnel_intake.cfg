SPECIFICATION Spec
CONSTANTS
    c1 = c1
    c2 = c2
    c3 = c3
    f1 = f1
    f2 = f2
    corner = corner
    goal = goal
    research = research
    q1 = q1
    q2 = q2
    Candidate = {c1, c2, c3}
    Bucket = {corner, goal, research}
    Fixture = {f1, f2}
    FixtureOf <- MCFixtureOf
    SourceOf <- MixedSources
    BucketsOf <- MCBucketsOf
    CornerRank <- MCCornerRank
    Kickoff <- MCKickoff
    Tie <- MCTie
    OpRequest = {q1, q2}
    EventRank <- MCEventRank
    Tx = {t1, t2}
    NoTx = NoTx
    Stake = 1
    MaxOpenExposure = 1
    MaxLead = 1
    MaxClock = 1
SYMMETRY Sessions
PROPERTIES CornerFirst CapUnlessOvertaken
