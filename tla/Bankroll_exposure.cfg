SPECIFICATION Spec
CONSTANTS
    r1 = r1
    r2 = r2
    e1 = e1
    e2 = e2
    e3 = e3
    f1 = f1
    f2 = f2
    q1 = q1
    q2 = q2
    Request = {r1, r2}
    Evaluation = {e1, e2, e3}
    Fixture = {f1, f2}
    FixtureOf <- MCFixtureOf
    Submission <- MCSubmission
    OpRequest = {q1, q2}
    EventRank <- MCEventRank
    Outcome = {}
    Tx = {t1, t2}
    NoTx = NoTx
    NoPick = NoPick
    Stake = 1
    MaxStakePerPick = 1
    MaxOpenExposure = 1
    InitialBankroll = 2
    WinReturn = 2
    AutoSkip = TRUE
    MaxClock = 1
SYMMETRY Sessions
INVARIANTS TypeOK ExposureCap OnePickPerFixture RequestsAnsweredOnce
PROPERTIES BalancesAreCurrent
