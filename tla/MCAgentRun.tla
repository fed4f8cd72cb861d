----------------------------- MODULE MCAgentRun -----------------------------
(* AgentRun with a worker and a helper process, every configuration.        *)
EXTENDS AgentRun

CONSTANTS worker, helper
MCKids == {worker, helper}
MCHelpers == {helper}
MCConfigs == ConfigType
MCPlain == {[grace |-> FALSE, container |-> "none"]}
=============================================================================
