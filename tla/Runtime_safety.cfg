SPECIFICATION Spec
CONSTANTS
    training = training
    odds = odds
    Client = {p1, p2}
    NoClient = NoClient
    Category = {training, odds}
    Training = training
    EffectiveLimit = 2
    TrainingLimit = 1
    OperationalReserve = 1
    DayLength = 1
    MaxClock = 1
    Job <- MCJob
    CategoryOf <- MCCategoryOf
    Interval <- MCInterval
    MaxFaults = 1
SYMMETRY Processes
INVARIANTS TypeOK WithinBudget QuotaKept
PROPERTIES TrainingLeavesReserve UnledRoundEnds
