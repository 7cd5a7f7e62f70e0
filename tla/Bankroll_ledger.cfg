SPECIFICATION FairSpec
CONSTANTS
    r1 = r1
    r2 = r2
    e1 = e1
    e2 = e2
    e3 = e3
    f1 = f1
    f2 = f2
    q1 = q1
    q2 = q2
    Request = {r1, r2}
    Evaluation = {e1, e2, e3}
    Fixture = {f1, f2}
    FixtureOf <- MCFixtureOf
    Submission <- MCSubmission
    OpRequest = {q1}
    EventRank <- MCEventRank
    Outcome = {"WIN", "VOID"}
    Tx = {t1, t2}
    NoTx = NoTx
    NoPick = NoPick
    Stake = 1
    MaxStakePerPick = 1
    MaxOpenExposure = 2
    InitialBankroll = 1
    WinReturn = 2
    AutoSkip = FALSE
    MaxClock = 0
INVARIANTS LedgerSequence StakeReleasedOnce
PROPERTIES BalancesAreCurrent LedgerIsAnAccount TransactionsEnd
