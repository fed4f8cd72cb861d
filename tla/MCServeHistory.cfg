SPECIFICATION HSpec
CONSTANTS
    CRASH_LOOP_THRESHOLD = 3
    MEM_LOOP_THRESHOLD = 2
    MEM_LOOP_PERSIST_THRESHOLD = 3
    p1 = p1
    NoPhase = NoPhase
    PhaseList <- MCPhaseList
    Configs <- MCConfigs
    Outcomes <- MCOutcomes
    StartLimitBurst = 1
    Window = 1
    MaxTime = 2
INVARIANTS
    StreaksMatchHistory
    MemLoopConverges
PROPERTIES
    ImplementsContract
