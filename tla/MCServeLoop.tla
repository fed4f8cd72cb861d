---------------------------- MODULE MCServeLoop ----------------------------
(* Gates, pauses, stops and rotation of the serve loop on small instances.  *)
EXTENDS ServeLoop

CONSTANTS p1, p2

MCTwoPhases == <<p1, p2>>
MCOnePhase == <<p1>>

R(rc, dur, mem, thr) ==
    [rc |-> rc, dur |-> dur, mem |-> mem, throttled |-> thr, idle |-> FALSE]

Good == R(0, "long", FALSE, FALSE)
Throttled == R(1, "tight", FALSE, TRUE)
MemTerminated == R(143, "short", TRUE, FALSE)

MCGateOutcomes == {Good, Throttled}
MCMemOutcomes == {Good, MemTerminated}

C(policy, action, hazards) ==
    [policy |-> policy, action |-> action, phase_aware |-> policy = "skip",
     ignore_schedule |-> FALSE, once |-> FALSE, max_rounds |-> 0,
     hazards |-> hazards]

(* Both policies, with the throttle actions that pause and that stop, while *)
(* everything the gates look at moves.                                      *)
Moving == {"sigterm", "memory", "windows", "throttle", "stop_file", "done"}

(* Rounds by hand or orphaned, which detect a throttle at any moment.       *)
Foreign == {"sigterm", "windows", "throttle", "other_round"}

(* A lifetime that ends in every way, under systemd.                       *)
Ending == {"crash", "stop_unit", "boot_fails", "time", "done"}

MCGateConfigs ==
    {C("skip", "back_off", Moving),
     C("skip", "stop", Moving),
     C("wait", "back_off", Moving),
     C("skip", "back_off", Foreign),
     C("wait", "back_off", Foreign),
     [C("wait", "skip", Moving) EXCEPT !.phase_aware = TRUE],
     [C("wait", "back_off", Ending) EXCEPT !.ignore_schedule = TRUE],
     C("skip", "back_off", Ending)}

MCDefaultConfig == {C("wait", "back_off", {"done"})}
=============================================================================
