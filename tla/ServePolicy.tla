---------------------------- MODULE ServePolicy ----------------------------
(***************************************************************************)
(* The pure restart policy of `agent-runner serve`: what serve concludes    *)
(* from one finished round.  Translated from agent_runner/_serve_policy.py  *)
(* and from post_round_verdicts in agent_runner/cli/_serve_round.py.        *)
(*                                                                         *)
(* A round's outcome keeps what the policy reads and nothing else:          *)
(*   rc         the round child's exit code                                *)
(*   dur        "tight" (under _NO_PROGRESS_SHORT_S), "short" (under        *)
(*              CRASH_LOOP_SHORT_EXIT_S) or "long"                          *)
(*   mem        the events tail says the mid-round memory floor ended it   *)
(*   throttled  the agent that ran is under an active transient throttle   *)
(*   idle       the agent can report usage and reported none in this round *)
(* The length of the restart delay is left out: no verdict depends on it.  *)
(***************************************************************************)
EXTENDS Integers, Sequences

CONSTANTS CRASH_LOOP_THRESHOLD,        \* consecutive unknown short crashes
          MEM_LOOP_THRESHOLD,          \* consecutive mem-terminated rounds
          MEM_LOOP_PERSIST_THRESHOLD   \* mem_loop episodes inside the window

(* The code's values are 5, 5 and 3.  At threshold 1 the first round of a   *)
(* kind would already give up, which the proofs allow.                      *)
ASSUME ThresholdAssumption ==
    /\ CRASH_LOOP_THRESHOLD \in Nat \ {0}
    /\ MEM_LOOP_THRESHOLD \in Nat \ {0}
    /\ MEM_LOOP_PERSIST_THRESHOLD \in Nat \ {0}

PERMANENT_CONFIG_EXIT == 78
ENV_BATTERY_EXIT == 76
CRASH_LOOP_EXIT == 75
MEM_LOOP_EXIT == 71
MEM_LOOP_PERSISTENT_EXIT == 70

(* The codes systemd must not restart after.                               *)
RESTART_PREVENT_EXIT_CODES ==
    {PERMANENT_CONFIG_EXIT, CRASH_LOOP_EXIT, MEM_LOOP_PERSISTENT_EXIT}

(* The exit codes serve itself can end with; 0 also stands for "no verdict, *)
(* keep looping" (the code's None).                                        *)
ServeExitCodes == {0, MEM_LOOP_EXIT} \cup RESTART_PREVENT_EXIT_CODES

Outcome == [rc : Int, dur : {"tight", "short", "long"},
            mem : BOOLEAN, throttled : BOOLEAN, idle : BOOLEAN]

(* _round_scan: a mem-terminated round is excused like a throttled one.    *)
RoundThrottleActive(o) == o.mem \/ o.throttled

(* post_round_decision: the round that feeds the crash-loop breaker.       *)
UnknownShortCrash(o) ==
    /\ o.rc \notin {0, PERMANENT_CONFIG_EXIT, ENV_BATTERY_EXIT}
    /\ o.dur # "long"
    /\ ~RoundThrottleActive(o)

(* round_had_no_progress: exit 0, fast, unexcused, and no usage reported.  *)
NoProgress(o) ==
    /\ o.rc = 0
    /\ o.dur = "tight"
    /\ ~RoundThrottleActive(o)
    /\ o.idle

(* Mutant: a round that is not an unknown short crash leaves the streak.   *)
CrashStreakSticky(o, consecutive) ==
    IF UnknownShortCrash(o) THEN consecutive + 1 ELSE consecutive

(* post_round_decision returns `consecutive` untouched on config_broken.   *)
CrashStreak(o, consecutive) ==
    IF o.rc = PERMANENT_CONFIG_EXIT THEN consecutive
    ELSE IF UnknownShortCrash(o) THEN consecutive + 1 ELSE 0

(* Mutant: the streak is never reset.                                      *)
StreakSticky(triggered, consecutive) ==
    IF triggered THEN consecutive + 1 ELSE consecutive

(* _consecutive_streak_decision: the counter half of both other breakers.  *)
Streak(triggered, consecutive) == IF triggered THEN consecutive + 1 ELSE 0

MemStreak(o, consecutive) == Streak(o.mem, consecutive)

NoProgressStreak(o, consecutive) == Streak(NoProgress(o), consecutive)

(* post_round_verdicts: crashes, mems and idles are the three streaks with  *)
(* this round counted; prior is the number of mem_loop events in the        *)
(* window.  The order of the tests is the code's precedence.                *)
Verdict(o, crashes, mems, idles, prior) ==
    IF o.rc = PERMANENT_CONFIG_EXIT
      THEN PERMANENT_CONFIG_EXIT
    ELSE IF o.mem /\ mems >= MEM_LOOP_THRESHOLD
      THEN IF prior + 1 >= MEM_LOOP_PERSIST_THRESHOLD
             THEN MEM_LOOP_PERSISTENT_EXIT
             ELSE MEM_LOOP_EXIT
    ELSE IF \/ UnknownShortCrash(o) /\ crashes >= CRASH_LOOP_THRESHOLD
            \/ NoProgress(o) /\ idles >= CRASH_LOOP_THRESHOLD
      THEN CRASH_LOOP_EXIT
    ELSE 0
=============================================================================
