SPECIFICATION FairSpec
CONSTANTS
    Lab = {"GOAL"}
    Obs <- MCObs
    LineOf <- MCLineOf
    Worker = {w1}
    Archiver = {a1, a2}
    None = None
    BatchSize = 1
    MaxBatches = 2
    MaxFaults = 1
PROPERTIES ArchiveDrains
INVARIANTS NothingLost EvidenceStaysHot
