--------------------------- MODULE PlainWatchers ----------------------------
(* The three scripts that latch no serve: ralph/stop-watch.py,                *)
(* longhorizon/delay.py and examples/between_rounds/between_rounds.py.        *)
EXTENDS GapLog

(*---------------------------------- ralph --------------------------------*)

RalphAlive(v) == PidExists(v)

IndexRounds(log) == Numbers(log, "round_end")
Checks(log, n) == Of(log, "goal_check", n)

RalphLate(n, v) == \E k \in Numbers(v.log, "round_start") : k > n

(* A round without a check never leaves "wait". *)
RalphWaits(n, v) == Checks(v.log, n) = {}

AllSatisfied(log, n) ==
    \A i \in Checks(log, n) : log[i].check = "green"

(* create: after round_end, all checks satisfied, no later start, pid alive. *)
ActionFor(n, v) ==
    /\ AllSatisfied(v.log, n)
    /\ ~RalphLate(n, v)
    /\ RalphAlive(v)
    /\ ~v.files.stop

(* dead_noop is not acted on: it is looked at again in the next poll. *)
DeadNoop(n, v) == AllSatisfied(v.log, n) /\ ~RalphLate(n, v) /\ ~RalphAlive(v)

RalphPass(v) ==
    LET new == {n \in IndexRounds(v.log) \ v.acted : ~RalphWaits(n, v)}
        due == {n \in new : ActionFor(n, v)}
    IN  [acted |-> v.acted \cup {n \in new : ~DeadNoop(n, v)},
         todo |-> IF due = {} THEN Nothing
                  ELSE Write("stop", CHOOSE n \in due : TRUE)]

(* No serve.pid, and the log tells of an end that is not a mem_loop. *)
RalphFinished(v) ==
    v.rec = 0 /\ Kinds(v.log) \cap (GIVEUP \cup {"finished"}) # {}

CreateStop(v) == [v.files EXCEPT !.stop = TRUE]

(*------------------------------- longhorizon -----------------------------*)

LongAlive(v) == PidExists(v)

(* Only the newest month's file is read. *)
LatestChecks(v) ==
    {i \in DOMAIN v.log : i > v.old /\ v.log[i].ev = "goal_check"}

LongFresh(v) == Cardinality(LatestChecks(v)) > v.seen

(* The value is appended on the first green check only. *)
LongPass(v) ==
    LET ev == LastOf(v.log, LatestChecks(v), Nothing)
    IN  IF ~LongFresh(v) THEN Nothing
        ELSE IF ev.check # "green" THEN Write("retry", ev.n)
        ELSE IF "append" \in v.already THEN Nothing
        ELSE Write("append", ev.n)

(* append_once looks for the line it would add; green checks print one value. *)
AppendOnce(v) == [v.files EXCEPT !.extra = IF @ = 0 THEN 1 ELSE @]
ReplaceInstruction(v) == [v.files EXCEPT !.prompt = "retry"]

(*------------------------------ between_rounds ---------------------------*)

(* The path, with its month, is computed once: seed is old as it was then.   *)
MonthFile(v) ==
    IF v.old = v.seed THEN SubSeq(v.log, v.old + 1, Len(v.log))
                      ELSE SubSeq(v.log, 1, v.old)

FollowRounds(v) == SubSeq(MonthFile(v), v.seen + 1, Len(MonthFile(v)))

GiveUpKind(batch) == Kinds(batch) \cap GIVEUP # {}

BetweenPass(v) ==
    LET batch == FollowRounds(v)
        ends == Numbers(batch, "round_end")
    IN  IF ends = {} \/ v.files.queue = "none" THEN Nothing
        ELSE Write("swap", Latest(ends))

(* A queued prompt that would fail the smoke test ends the script. *)
ApplyQueuedPrompt(v) == [v.files EXCEPT !.prompt = "queued", !.queue = "none"]
=============================================================================
