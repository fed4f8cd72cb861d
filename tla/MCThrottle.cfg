SPECIFICATION Spec
CONSTANTS
    Agents = {a1, a2}
    Deployments <- MCDeployments
    BASE = 1
    EXP_CAP = 2
    ABSOLUTE_CAP_S = 2
    BACK_OFF_CAP_S = 2
    SANITY_S = 6
    AccountResets <- MCAccountResets
    MaxNow = 3
    MaxEvents = 4
    MaxFaults = 1
INVARIANTS
    RecoveredOnce
    ViewCoherent
    FoldAgrees
PROPERTIES
    NoEarlyRetry
SYMMETRY Symmetry
CHECK_DEADLOCK FALSE
