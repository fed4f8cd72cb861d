----------------------------- MODULE MCThrottle -----------------------------
(* Two agents, interchangeable, and a few events. *)
EXTENDS Throttle, TLC

MCDeployments ==
    [regime : {"skip", "back_off"}, used : (SUBSET Agents) \ {{}}]
        \cup [regime : {"stop", "launch"}, used : {{a} : a \in Agents}]

(* 3: beyond one sleep; 9: malformed. *)
MCAccountResets == {3, 9}
Symmetry == Permutations(Agents)
=============================================================================
