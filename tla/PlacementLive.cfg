SPECIFICATION FairSpec
CONSTANTS
    None = None
    Free = Free
    k1 = k1
    k2 = k2
    A = A
    B = B
    listA = listA
    listB = listB
    listAB = listAB
    Keys = {k1, k2}
    StrictKeys = {}
    Domains = {A, B}
    Reserved = {}
    Lists <- TwoLists
    DomainOf <- TwoDomainOf
    MaxMutations = 1
    MaxFaults = 1
    MaxCrashes = 1
    MaxWrites = 0
    Modes = {"auto", "observe"}
PROPERTIES
    ClearedAfterDisable
CHECK_DEADLOCK FALSE
