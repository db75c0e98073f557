SPECIFICATION FairSpec
CONSTANTS
    None = None
    k1 = k1
    k2 = k2
    Keys = {k1, k2}
    PidOf <- SamePid
    Props = {"eco_qos"}
    Choices <- EcoChoices
    Policies <- EcoPolicies
    MaxMutations = 1
    MaxFaults = 1
    MaxCrashes = 1
    MaxWrites = 1
    Perils = {}
INVARIANTS
    WriteAhead
PROPERTIES
    RestoredAfterDisable
CHECK_DEADLOCK FALSE
