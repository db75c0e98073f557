SPECIFICATION FairWakeSpec
CONSTANTS
    Commands = {"Enable", "Disable", "Stop"}
    MaxCommands = 2
    MaxReceipts = 4
INVARIANTS
    WakeTypeOK
    TicksBounded
    NoLostWakeUnlessCommand
PROPERTIES
    EventuallyAnswered
CHECK_DEADLOCK FALSE
