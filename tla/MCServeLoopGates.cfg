SPECIFICATION LiveSpec
CONSTANTS
    CRASH_LOOP_THRESHOLD = 2
    MEM_LOOP_THRESHOLD = 2
    MEM_LOOP_PERSIST_THRESHOLD = 2
    p1 = p1
    p2 = p2
    NoPhase = NoPhase
    PhaseList <- MCTwoPhases
    Configs <- MCGateConfigs
    Outcomes <- MCGateOutcomes
    StartLimitBurst = 1
    Window = 1
    MaxTime = 1
INVARIANTS
    NoRoundAfterStop
    RoutesAroundThrottles
PROPERTIES
    StopHonoured
    PausesEnd
    NoPhaseStarves
