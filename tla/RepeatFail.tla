----------------------------- MODULE RepeatFail -----------------------------
(* examples/outer_loop/repeat_fail/delay.py: create the stop file in the gap  *)
(* after round 2 when rounds 1 and 2 failed in the same way.                  *)
EXTENDS GapLog

Refuses(v) ==
    \/ v.files.stop
    \/ v.conf.command = "no_session"
    \/ v.conf.rounds # 3 \/ ~v.conf.stop_file
    \/ v.conf.prompt # "good"

Alive(v) == SameProcess(v)
Finished(v) == v.rec # v.latched \/ ~Alive(v)

IndexRounds(log) == Numbers(log, "round_end")

(* A skipped goal_check is not among a round's checks. *)
RoundCheck(log, n) ==
    LastOf(log, {i \in Of(log, "goal_check", n) : log[i].check # "skipped"},
           [ev |-> "goal_check", n |-> n, check |-> "none", value |-> 0])

RoundStarted(log, n) == n \in Numbers(log, "round_start")
GiveupPresent(log) == Kinds(log) \cap GIVEUP # {}

IsRed(check) == check.check = "red"

(* The value is part of the fingerprint when it is a finite number. *)
Fingerprint(check) == <<check.check, check.value>>
FingerprintsMatch(left, right) ==
    /\ left.check # "none" /\ right.check # "none"
    /\ Fingerprint(left) = Fingerprint(right)

Late(n, v) == RoundStarted(v.log, n + 1) \/ GiveupPresent(v.log)

Waits(n, v) == n = 2 /\ Alive(v) /\ ~Late(n, v) /\ v.since < WRITE_AFTER_S

StopDecision(v) ==
    LET first == RoundCheck(v.log, 1)
        second == RoundCheck(v.log, 2)
    IN  /\ Alive(v)
        /\ ~Late(2, v)
        /\ v.since >= WRITE_AFTER_S
        /\ ~(v.since > WRITE_BEFORE_S \/ v.since > DELAY_S)
        /\ ~v.files.stop
        /\ IsRed(first) /\ IsRed(second) /\ FingerprintsMatch(first, second)

(* Every ended round is looked at; only round 2 can lead to a write, and a   *)
(* changed check command prevents it.                                        *)
Pass(v) ==
    LET new == {n \in IndexRounds(v.log) \ v.acted : ~Waits(n, v)}
    IN  [acted |-> v.acted \cup new,
         todo |-> IF 2 \in new /\ StopDecision(v) /\ ~v.edited
                  THEN Write("stop", 2) ELSE Nothing]

(* maybe_create looks only at the file, not at the serve. *)
MayWrite(v) == ~v.files.stop
MaybeCreate(v) == [v.files EXCEPT !.stop = TRUE]
=============================================================================
