SPECIFICATION Spec
CONSTANTS
    Recipes <- AllRecipes
    Outcomes <- MCOutcomes
    Configs <- MCConfigs
    WRITE_AFTER_S = 1
    SETTLE_S = 2
    WRITE_BEFORE_S = 3
    DELAY_S = 5
    CEILING = 3
    Lag = 1
    HookTime = 2
    MaxFaults = 1
    MaxRound = 3
INVARIANTS
    WritesInGap
    WritesAreEarned
    OnceAcrossRestarts
PROPERTIES
    StopIsTimely
CHECK_DEADLOCK FALSE
