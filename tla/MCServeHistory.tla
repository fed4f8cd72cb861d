--------------------------- MODULE MCServeHistory ---------------------------
(* Verdicts over every mix of round outcomes, crashes, stops and restarts.  *)
EXTENDS ServeHistory

CONSTANT p1

MCPhaseList == <<p1>>

R(rc, dur, mem, thr, idle) ==
    [rc |-> rc, dur |-> dur, mem |-> mem, throttled |-> thr, idle |-> idle]

(* One outcome per way the policy can tell rounds apart.                   *)
MCOutcomes ==
    {R(0, "long", FALSE, FALSE, FALSE),     \* a good round
     R(0, "tight", FALSE, FALSE, TRUE),     \* exit 0, no usage
     R(1, "tight", FALSE, FALSE, FALSE),    \* unknown short crash
     R(1, "long", FALSE, FALSE, FALSE),     \* a long failure
     R(76, "tight", FALSE, FALSE, FALSE),   \* environmental
     R(143, "short", TRUE, FALSE, FALSE),   \* mem-terminated
     R(0, "tight", TRUE, FALSE, TRUE),      \* nudged: mem-terminated, exit 0
     R(78, "tight", FALSE, FALSE, FALSE)}   \* permanent config failure

MCHazards == {"crash", "stop_unit", "boot_fails", "time"}

MCConfigs ==
    {[policy |-> "wait", action |-> "back_off", phase_aware |-> FALSE,
      ignore_schedule |-> FALSE, once |-> FALSE, max_rounds |-> 4,
      hazards |-> MCHazards],
     [policy |-> "skip", action |-> "skip", phase_aware |-> TRUE,
      ignore_schedule |-> TRUE, once |-> TRUE, max_rounds |-> 0,
      hazards |-> MCHazards]}
==================================================
