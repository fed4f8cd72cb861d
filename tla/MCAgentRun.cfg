CONSTANTS
    worker = worker
    helper = helper
    Kids <- MCKids
    Helpers <- MCHelpers
    Configs <- MCConfigs
    Hazards = {"sigterm", "popen", "callback", "d_state"}
    MaxTerms = 3
SPECIFICATION LiveSpec
INVARIANTS AgentGone NoStrays OwnsPid
PROPERTIES RunEnds
CHECK_DEADLOCK FALSE
