--------------------------- MODULE CourseWriters ----------------------------
(* examples/outer_loop/ace/delay.py and rsi_agent/delay.py: after round 1,    *)
(* write the file read at start with one line, or one task, added.            *)
EXTENDS GapLog

Alive(v) == PidExists(v)
Finished(v) == v.rec # v.latched \/ ~Alive(v)

Ends(log) == Numbers(log, "round_end")
Late(n, v) == \E k \in Numbers(v.log, "round_start") : k > n
InsideDelay(v) == ~(v.since > DELAY_S)

(* checks_for counts a skipped check, whose fields make no bullet. *)
BulletFromCheck(log, n) ==
    LET check == LastOf(log, Of(log, "goal_check", n), [check |-> "none", value |-> 0])
    IN  check.check \in {"red", "green"} /\ check.value # 0

AceApplyRound(n, v) ==
    n = 1 /\ "append" \notin v.already /\ BulletFromCheck(v.log, n)

AcePass(v) ==
    LET new == Ends(v.log) \ v.acted
        due == {n \in new : ~Late(n, v) /\ InsideDelay(v) /\ AceApplyRound(n, v)}
    IN  [acted |-> v.acted \cup new,
         todo |-> IF due = {} THEN Nothing ELSE Write("append", 1)]

RsiAlive(v) == PidExists(v)
RsiFinished(v) == v.rec # v.latched \/ ~RsiAlive(v)
RsiEnds(log) == Numbers(log, "round_end")

(* The queue must hold task B and survive the prompt smoke test. *)
RsiApplyRound(n, v) ==
    n = 1 /\ "append" \notin v.already /\ v.conf.queue = "good"

RsiPass(v) ==
    LET new == RsiEnds(v.log) \ v.acted
        due == {n \in new : ~Late(n, v) /\ InsideDelay(v) /\ RsiApplyRound(n, v)}
    IN  [acted |-> v.acted \cup new,
         todo |-> IF due = {} THEN Nothing ELSE Write("append", 1)]

(* The body is the file as read at start, plus one part. *)
AppendToSeed(v) == [v.files EXCEPT !.extra = v.seed + 1]
=============================================================================
