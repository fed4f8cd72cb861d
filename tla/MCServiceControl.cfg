CONSTANTS
    s1 = s1
    s2 = s2
    r1 = r1
    r2 = r2
    None = None
    Serves <- MCServes
    Rounds <- MCRounds
    UnitInstalled = {TRUE, FALSE}
    Verbs = {"start", "stop", "kill", "restart", "restart_force"}
    Hazards = {"hand_launch", "boot_fails", "crash", "gives_up", "refused"}
SPECIFICATION LiveSpec
INVARIANTS LoopIsNamed FoundRoundEnds
PROPERTIES GracefulDrains RestartReturns
