SPECIFICATION LiveSpec
CONSTANTS
    CRASH_LOOP_THRESHOLD = 2
    MEM_LOOP_THRESHOLD = 2
    MEM_LOOP_PERSIST_THRESHOLD = 2
    p1 = p1
    p2 = p2
    NoPhase = NoPhase
    PhaseList <- MCOnePhase
    Configs <- MCDefaultConfig
    Outcomes <- MCMemOutcomes
    StartLimitBurst = 2
    Window = 1
    MaxTime = 0
PROPERTIES
    SentinelHonoured
