---------------------------- MODULE MCSpawnRound ----------------------------
(* Every switch of the memory floor and the brake, over repeated rounds.    *)
EXTENDS SpawnRound

MCConfigs ==
    [in_round_terminate : BOOLEAN, in_round_nudge : BOOLEAN,
     defer_to_cgroup : BOOLEAN, brake : BOOLEAN, high : {2, MaxHigh}]

MCBrakeConfigs == {c \in MCConfigs : c.brake /\ c.in_round_terminate}
=============================================================================
