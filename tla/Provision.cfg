SPECIFICATION Spec
CONSTANTS
    None = None
    Priors = {"auto", "disabled"}
    MaxFaults = 2
    MaxMeddling = 1
    MaxCommands = 2
PROPERTIES
    AllOrNothing
    PriorStateRestored
    RemovedClean
    StopMeansClean
CHECK_DEADLOCK FALSE
