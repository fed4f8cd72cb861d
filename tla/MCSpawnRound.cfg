SPECIFICATION LiveSpec
CONSTANTS
    CriticalSamples = 2
    WarningSamples = 2
    MaxTicks = 5
    MaxHigh = 3
    Configs <- MCConfigs
    Hazards = {"raise", "d_state", "write_fails"}
    RestoreFailures = 1
INVARIANTS
    BrakeReleased
    NoOrphan
    FloorNeedsSustained
    MemTerminatedHonest
PROPERTIES
    RoundReturns
