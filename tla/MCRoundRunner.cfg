SPECIFICATION Spec
CONSTANTS
    Procs = {p1, p2}
    None = None
    Configs <- MCConfigs
    MaxNum = 3
    MaxRounds = 3
    MaxWork = 2
SYMMETRY MCSymmetry
INVARIANTS
    UniqueNumbers
    StashAnnounced
    NoteIsTrue
