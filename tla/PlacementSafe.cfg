SPECIFICATION Spec
CONSTANTS
    None = None
    Free = Free
    k1 = k1
    k2 = k2
    A = A
    B = B
    listA = listA
    listB = listB
    listAB = listAB
    Keys = {k1, k2}
    StrictKeys = {k2}
    Domains = {A}
    Reserved = {}
    Lists <- SpanningLists
    DomainOf <- SpanningDomainOf
    MaxMutations = 1
    MaxFaults = 1
    MaxCrashes = 1
    MaxWrites = 1
    Modes = {"auto", "observe"}
INVARIANTS
    TypeOK
    NothingForgotten
PROPERTIES
    ExternalObserved
CHECK_DEADLOCK FALSE
