SPECIFICATION Spec
CONSTANTS
    WINDOW = 2
    RATE_PCT = 50
    ORPHANS = 2
    ANOMALY_ROUNDS = 1
    BUDGET = 1
    PhaseBudgets <- MCPhaseBudgets
    STALE_S = 1
    HORIZON_S = 2
    Health <- MCHealth
    Scenarios <- MCScenarios
    BUFFER = 9
    SEEN_CAP = 24
    MaxPauses = 1
    MaxFaults = 1
INVARIANTS
    TailComplete
    OncePerEpisode
PROPERTIES
    DeathReported
    DrainResolved
CHECK_DEADLOCK FALSE
