SPECIFICATION FairSpec
CONSTANTS
    None = None
    Bad = Bad
    Images = {"app"}
    Documents <- FewDocuments
    MaxStarts = 2
    MaxSaves = 2
    MaxCommands = 1
    MaxFaults = 1
PROPERTIES
    OwnsOnlyByConsent
    AppliedIsOwn
    EverySaveAnswered
    Drains
CHECK_DEADLOCK FALSE
