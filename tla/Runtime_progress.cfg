SPECIFICATION FairSpec
CONSTANTS
    training = training
    odds = odds
    Client = {p1, p2}
    NoClient = NoClient
    Category = {training, odds}
    Training = training
    EffectiveLimit = 1
    TrainingLimit = 1
    OperationalReserve = 0
    DayLength = 2
    MaxClock = 1
    Job <- MCJob
    CategoryOf <- MCCategoryOf
    Interval <- MCInterval
    MaxFaults = 1
PROPERTIES LeadershipRecovers DueJobsRun
