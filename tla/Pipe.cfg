SPECIFICATION FairSpec
CONSTANTS
    None = None
    shell = shell
    child = child
    twin = twin
    MaxTrays = 3
    SessionOf <- OneSession
    Processes = {shell, child, twin}
    ParentOf <- Children
    ImageOf <- Images
    Scenes <- TwoScenes
    Protects <- Switches
    Stale = 2
    Keep = 3
    MaxPublishers = 2
    Jumps = {2}
    MaxJumps = 1
    MaxFaults = 1
INVARIANTS
    TypeOK
    InUseIsProtected
CHECK_DEADLOCK FALSE
PROPERTIES
    EventuallyLeft
