SPECIFICATION FairSpec
CONSTANTS
    None = None
    Torn = Torn
    Top = 2
    Configs <- FewConfigs
    PruneMayStop = FALSE
    MaxAge = 9
    MaxWindow = 2
    MaxFaults = 2
    MaxReloads = 2
INVARIANTS
    OldestFirst
    WithinLimits
    EveryDecisionCounted
PROPERTIES
    ResumesUnlessStranded
CHECK_DEADLOCK FALSE
