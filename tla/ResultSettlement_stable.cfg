SPECIFICATION Spec
CONSTANTS
    home = home
    away = away
    canc = canc
    pst = pst
    other = other
    Worker = {w1, w2}
    Observation = {home, away, pst, other}
    NoObservation = NoObservation
    Fingerprint <- MCFingerprint
    NoFingerprint = "none"
    Contradicting = {other}
    Postponed = {pst}
    FirstCheck = 1
    PollInterval = 1
    FinalityDelay = 1
    RecheckInterval = 1
    CorrectionWindow = 2
    ClaimLease = 1
    MaxClock = 4
    MaxChecks = 4
SYMMETRY Workers
INVARIANTS SettledOnStableResult CorrectionsFlagged
PROPERTY QuarantineHolds
