------------------------------ MODULE RsiExam -------------------------------
(* examples/outer_loop/rsi_exam/delay.py: score the sealed file in the gap    *)
(* after round 2.  The exam takes time, so the gap is looked at again.        *)
EXTENDS GapLog

Refuses(v) ==
    \/ v.conf.command = "no_session"
    \/ v.conf.rounds # 2 \/ v.conf.stop_file
    \/ v.conf.prompt # "good"

Alive(v) == SameProcess(v)
Finished(v) == v.rec # v.latched \/ ~Alive(v)

IndexRounds(log) == Numbers(log, "round_end")
RoundStarted(log, n) == n \in Numbers(log, "round_start")
GiveupPresent(log) == Kinds(log) \cap GIVEUP # {}

Late(n, v) == RoundStarted(v.log, n + 1) \/ GiveupPresent(v.log)

Waits(n, v) == Alive(v) /\ ~Late(n, v) /\ v.since < WRITE_AFTER_S

ExamDecision(n, v) ==
    /\ Alive(v)
    /\ ~Late(n, v)
    /\ v.since >= WRITE_AFTER_S
    /\ ~(v.since > WRITE_BEFORE_S \/ v.since > DELAY_S)
    /\ "exam" \notin v.already
    /\ n = 2

(* No exam when the score or the check command is not the one read at boot.  *)
Pass(v) ==
    LET new == {n \in IndexRounds(v.log) \ v.acted : ~Waits(n, v)}
    IN  [acted |-> v.acted \cup new,
         todo |-> IF 2 \in new /\ ExamDecision(2, v)
                     /\ v.files.score = v.seed /\ ~v.edited
                  THEN Write("score", 2) ELSE Nothing]

(* The gate after run_exam; a score that is not finite is never written.     *)
GateAfterExam(v) ==
    /\ Alive(v)
    /\ ~RoundStarted(v.log, 3)
    /\ ~(v.since > DELAY_S)

WriteScore(v) == [v.files EXCEPT !.score = @ + 1]
=============================================================================
