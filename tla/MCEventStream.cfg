SPECIFICATION Spec
CONSTANTS
    w1 = w1
    w2 = w2
    Writers = {w1, w2}
    TURN = 2
    TOLERANCE_S = 2
    Backoff <- MCBackoff
    TRIES = 2
    MaxEvents = 2
    MaxConns = 2
    LastFailure = 1
INVARIANTS
    NoneLostInOrder
    WakeNotLost
    HandoffExact
    GiveUpIsEarned
SYMMETRY Symmetry
CHECK_DEADLOCK FALSE
