SPECIFICATION Spec
CONSTANTS
    Worker = {w1, w2}
    Line = {x}
    ClaimTimeout = 1
    MaxQuote = 2
    MaxGeneration = 2
    MaxClock = 1
SYMMETRY Workers
INVARIANTS PicksAreVerified ConflictsNeedTakeOver
PROPERTY VerdictsAreFinal
