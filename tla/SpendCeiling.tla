---------------------------- MODULE SpendCeiling ----------------------------
(* examples/outer_loop/spend_ceiling/delay.py: create the stop file in the   *)
(* gap after the round whose cost reaches the ceiling.                       *)
EXTENDS GapLog

Command(c) == c.command = "cold"

TomlErrors(c) ==
    ~ /\ Command(c)
      /\ c.rounds = 3
      /\ c.stop_file
      /\ c.delay = DELAY_S
      /\ c.dirty_action = "ignore"

PromptErrors(c) == c.prompt # "good"

Refuses(v) == TomlErrors(v.conf) \/ PromptErrors(v.conf) \/ v.files.stop

Alive(v) == SameProcess(v)

(* serve.pid still names the latched serve, which lives. *)
Finished(v) == v.rec # v.latched \/ ~Alive(v)

IndexRounds(log) == Numbers(log, "round_end")

RoundStarted(log, n) == n \in Numbers(log, "round_start")

GiveupPresent(log) == Kinds(log) \cap GIVEUP # {}

UsageRows(log, n) == Of(log, "usage", n)

(* A cost of 0 stands for a row without a finite amount above zero. *)
PositiveCost(row) == row.cost > 0

AddendsThrough(log, through) ==
    {i \in DOMAIN log : /\ log[i].ev = "usage"
                        /\ log[i].n \in IndexRounds(log)
                        /\ log[i].n <= through
                        /\ PositiveCost(log[i])}

(* Without an addend the sum is 0, below every ceiling. *)
Crossed(log, addends) ==
    LET folded[i \in 0..Len(log)] ==
            IF i = 0 THEN 0
            ELSE folded[i - 1] + (IF i \in addends THEN log[i].cost ELSE 0)
    IN  folded[Len(log)] >= CEILING

SettlingNever(n, v) == FALSE

(* The usage of a round is written by a hook that runs after round_end. *)
Settling(n, v) ==
    /\ UsageRows(v.log, n) = {}
    /\ v.since < SETTLE_S
    /\ ~RoundStarted(v.log, n + 1)
    /\ ~GiveupPresent(v.log)
    /\ v.since <= WRITE_BEFORE_S

Waits(n, v) ==
    \/ v.since < WRITE_AFTER_S /\ ~RoundStarted(v.log, n + 1)
    \/ Settling(n, v)

InWindowWhole(v) ==
    /\ v.since >= WRITE_AFTER_S
    /\ ~(v.since > DELAY_S)

(* The window stop_decision accepts. *)
InWindow(v) ==
    /\ v.since >= WRITE_AFTER_S
    /\ ~(v.since > WRITE_BEFORE_S \/ v.since > DELAY_S)

StopDecision(n, v) ==
    /\ Alive(v)
    /\ ~(RoundStarted(v.log, n + 1) \/ GiveupPresent(v.log))
    /\ InWindow(v)
    /\ ~v.files.stop
    /\ Crossed(v.log, AddendsThrough(v.log, n))

(* One pass of the loop: only the first round not acted on is looked at. *)
Pass(v) ==
    LET pending == IndexRounds(v.log) \ v.acted
        n == Earliest(pending)
    IN  IF pending = {} \/ Waits(n, v)
        THEN [acted |-> v.acted, todo |-> Nothing]
        ELSE [acted |-> v.acted \cup {n},
              todo |-> IF StopDecision(n, v) THEN Write("stop", n) ELSE Nothing]

(* The identity is read again before the write; create_stop finds no file.  *)
MayWrite(v) == ~Finished(v)
CreateStop(v) == [v.files EXCEPT !.stop = TRUE]
=============================================================================
