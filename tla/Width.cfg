SPECIFICATION FairSpec
CONSTANTS
    None = None
    Topologies <- AllTopologies
    Configs <- AllConfigs
    DefaultConfig <- Default
    MinSamples = 2
    Capacity = 2
    Percentile = 99
    ShrinkBy = 3
    MaxGap = 1
    MaxReloads = 2
INVARIANTS
    ReserveSpread
    WidthFits
PROPERTIES
    WidthEarned
    WidthSettles
CHECK_DEADLOCK FALSE
