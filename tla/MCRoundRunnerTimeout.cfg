SPECIFICATION Spec
CONSTANTS
    Procs = {p1, p2}
    None = None
    Configs <- MCTimeoutConfigs
    MaxNum = 3
    MaxRounds = 3
    MaxWork = 2
INVARIANTS
    GitTimeoutKeepsBooks
