SPECIFICATION Spec
CONSTANTS
    None = None
    k1 = k1
    k2 = k2
    Keys = {k1}
    PidOf <- SamePid
    Props <- BothProps
    Choices <- BothChoices
    Policies <- BothPolicies
    MaxMutations = 1
    MaxFaults = 1
    MaxCrashes = 1
    MaxWrites = 1
    Perils = {}
INVARIANTS
    TypeOK
    WriteAhead
PROPERTIES
    RestoreSparesOutsiders
CHECK_DEADLOCK FALSE
