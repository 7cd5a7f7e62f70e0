SPECIFICATION Spec
CONSTANTS
    Scope = {1, 2}
    Process = {p1}
    MaxScopes = 1
    Policies = 2
    MaxModels = 2
    MaxFaults = 0
PROPERTY RetrainIsForced
