SPECIFICATION FairSpec
CONSTANTS
    None = None
    k1 = k1
    k2 = k2
    Processes = {k1, k2}
    Domains <- TwoDomains
    Loads <- LoadSteps
    Threshold = 2
    MinImprovement = 1
    Stability = 2
    Residency = 1
    Cooldown = 3
    MaxMutations = 1
    StrictTarget = 0
    Ordered <- TwoDomains
    Rules <- TwoRules
    Opens <- OpenPlans
    MaxGap = 1
    MaxTroubles = 2
INVARIANTS
    TypeOK
    Answered
    MovesEarned
CHECK_DEADLOCK FALSE
PROPERTIES
    Settles
