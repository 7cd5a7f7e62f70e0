SPECIFICATION FairSpec
CONSTANTS
    Scope = {1}
    Process = {p1, p2}
    MaxScopes = 1
    Policies = 2
    MaxModels = 3
    MaxFaults = 1
INVARIANTS OneTrainer CoverageNamesActive
PROPERTIES ModelsMoveForward ClaimsEnd ModelIsOffered
