--------------------------- MODULE SerialDiscard ----------------------------
(* examples/outer_loop/serial_discard/delay.py: in the gap after a red round  *)
(* 1 or 2, record that the attempt is not merged.  It writes its own log and  *)
(* nothing else.                                                              *)
EXTENDS GapLog

Refuses(v) ==
    \/ v.conf.command = "no_session"
    \/ v.conf.rounds # 2 \/ v.conf.stop_file
    \/ v.conf.dirty_action # "ignore"
    \/ v.conf.prompt # "good"

Alive(v) == SameProcess(v)
Finished(v) == v.rec # v.latched \/ ~Alive(v)

IndexRounds(log) == Numbers(log, "round_end")
RoundStarted(log, n) == n \in Numbers(log, "round_start")
GiveupPresent(log) == Kinds(log) \cap GIVEUP # {}

(* index_rounds drops skipped checks, so check_state sees them as missing.   *)
CheckState(log, n) ==
    LastOf(log, {i \in Of(log, "goal_check", n) : log[i].check # "skipped"},
           [check |-> "missing"]).check

Late(n, v) == RoundStarted(v.log, n + 1) \/ GiveupPresent(v.log)

Waits(n, v) ==
    n \in 1..2 /\ Alive(v) /\ ~Late(n, v) /\ v.since < WRITE_AFTER_S

GapDecision(n, v) ==
    /\ n \in 1..2
    /\ Alive(v)
    /\ ~Late(n, v)
    /\ v.since >= WRITE_AFTER_S
    /\ ~(v.since > WRITE_BEFORE_S \/ v.since > DELAY_S)
    /\ CheckState(v.log, n) = "red"

Pass(v) ==
    LET new == {n \in IndexRounds(v.log) \ v.acted : ~Waits(n, v)}
        red == {n \in new : GapDecision(n, v)}
    IN  [acted |-> v.acted \cup new,
         todo |-> IF red = {} THEN Nothing
                  ELSE Write("no_merge", CHOOSE n \in red : TRUE)]

(* apply_gap touches neither keep nor the attempt. *)
ApplyGap(v) == v.files
=============================================================================
