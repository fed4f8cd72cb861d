---------------------------- MODULE ServeHistory ----------------------------
(***************************************************************************)
(* ServeLoop with a history variable: the outcomes of the rounds of the     *)
(* current serve lifetime.  It adds no behaviour; it is what the breakers'  *)
(* counters are compared with.                                              *)
(***************************************************************************)
EXTENDS ServeLoop

VARIABLE hist

hvars == <<vars, hist>>

HInit == Init /\ hist = <<>>

HNext ==
    \/ \E o \in Outcomes : RoundEnds(o) /\ hist' = Append(hist, o)
    \/ (Serve \/ Starts \/ Outside) /\ hist' = IF pc' = "down" THEN <<>> ELSE hist

HSpec == HInit /\ [][HNext]_hvars

Contract == INSTANCE GiveUpContract WITH up <- pc # "down", code <- exit_code

(* n is the length of the longest run of members of S that ends h.         *)
TrailingRun(h, S, n) ==
    /\ n <= Len(h)
    /\ \A i \in 1..Len(h) : i > Len(h) - n => h[i] \in S
    /\ n < Len(h) => h[Len(h) - n] \notin S

(* Each breaker's counter is exactly the current run of its own kind of     *)
(* round in this lifetime: a stop, a pause, a back-off or another breaker's *)
(* round neither loses nor double-counts one.  config_broken is the one     *)
(* verdict after which the crash counter is stale (and never read again).   *)
StreaksMatchHistory ==
    exit_code # PERMANENT_CONFIG_EXIT =>
        /\ TrailingRun(hist, Contract!CrashRounds, consecutive_crashes)
        /\ TrailingRun(hist, Contract!MemRounds, consecutive_mem_terminations)
        /\ TrailingRun(hist, Contract!IdleRounds, consecutive_no_progress)

(* No breaker trips late: while serve has no verdict, every counter is      *)
(* below its threshold, so serve never sleeps on or runs past a give-up.    *)
GiveUpPrompt ==
    exit_code = 0 =>
        /\ consecutive_crashes < CRASH_LOOP_THRESHOLD
        /\ consecutive_mem_terminations < MEM_LOOP_THRESHOLD
        /\ consecutive_no_progress < CRASH_LOOP_THRESHOLD

(* Where serve can be with and without a verdict, and what a process that   *)
(* has run no round remembers.  With TypeOK, StreaksMatchHistory and         *)
(* GiveUpPrompt this is inductive.                                          *)
LoopShape ==
    /\ hist \in Seq(Outcomes)
    /\ pc \notin {"down", "exit"} => exit_code = 0
    /\ pc \in {"down", "boot"} => hist = <<>> /\ streaks = <<0, 0, 0>>
    /\ unit = "auto_restart" => pc = "down"

(* The loop with its counters implements the counter-free contract.        *)
ImplementsContract == Contract!ContractSpec
=============================================================================
