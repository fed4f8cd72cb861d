------------------------------ MODULE Karpathy ------------------------------
(* examples/outer_loop/karpathy/delay.py: after a worse round 1 restore the   *)
(* source and queue a new prompt, after a better round 2 keep the source.     *)
EXTENDS GapLog

(* The source a value belongs to: 1 below BOOT, 2 above it, 0 none. *)
BOOT_WORSE == 1
BOOT_BETTER == 2

Alive(v) == PidExists(v)
Finished(v) == v.rec # v.latched \/ ~Alive(v)

IndexRounds(log) == Numbers(log, "round_end")

RoundValue(log, n) ==
    LastOf(log, Of(log, "goal_check", n), [value |-> 0]).value

Late(n, v) == \E k \in Numbers(v.log, "round_start") : k > n

(* The window is the whole of the delay. *)
InsideDelay(v) == ~(v.since > DELAY_S)

ApplyRoundEither(n, v) ==
    LET value == RoundValue(v.log, n)
    IN  IF "discard" \notin v.already /\ value = BOOT_WORSE /\ v.conf.queue = "good"
        THEN Write("discard", n)
        ELSE IF "keep" \notin v.already /\ value = BOOT_BETTER
        THEN Write("keep", n)
        ELSE Nothing

ApplyRound(n, v) ==
    LET value == RoundValue(v.log, n)
    IN  IF n = 1 /\ "discard" \notin v.already /\ value = BOOT_WORSE
           /\ v.conf.queue = "good"
        THEN Write("discard", n)
        ELSE IF n = 2 /\ "keep" \notin v.already /\ value = BOOT_BETTER
        THEN Write("keep", n)
        ELSE Nothing

(* Every ended round is settled in the pass that sees it: too late, or here. *)
Pass(v) ==
    LET new == IndexRounds(v.log) \ v.acted
        due == {n \in new : ~Late(n, v) /\ InsideDelay(v)}
    IN  [acted |-> v.acted \cup new,
         todo |-> IF due = {} THEN Nothing
                  ELSE ApplyRound(CHOOSE n \in due : TRUE, v)]

(* Two replacements, the source first; nothing is looked at in between.      *)
RestoreSource(v) == [v.files EXCEPT !.source = v.seed]
SwapPrompt(v) == [v.files EXCEPT !.prompt = "queued"]
KeepSource(v) == [v.files EXCEPT !.snapshot = v.files.source]
=============================================================================
