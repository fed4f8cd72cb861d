----------------------------- MODULE ToolAllow ------------------------------
(* examples/outer_loop/tool_allow/delay.py: append one sentence to the       *)
(* prompt in the gap after round 1, never touching the command.              *)
EXTENDS GapLog

Command(c) == c.command = "tools"

TomlErrors(c) ==
    ~ /\ Command(c)
      /\ c.rounds = 1
      /\ ~c.stop_file
      /\ c.delay = DELAY_S
      /\ c.dirty_action = "ignore"

PromptErrors(c) == c.prompt # "good"

Refuses(v) == TomlErrors(v.conf) \/ PromptErrors(v.conf)

Alive(v) == SameProcess(v)
Finished(v) == v.rec # v.latched \/ ~Alive(v)

IndexRounds(log) == Numbers(log, "round_end")
RoundStarted(log, n) == n \in Numbers(log, "round_start")
GiveupPresent(log) == Kinds(log) \cap GIVEUP # {}

AlreadyInMemory(v) == "append" \in v.already

(* "already" is the sentence found in the prompt. *)
Already(v) == v.files.extra > 0

Late(v) == RoundStarted(v.log, 2) \/ GiveupPresent(v.log)

GapDecision(v) ==
    /\ Alive(v)
    /\ ~Late(v)
    /\ v.since >= WRITE_AFTER_S
    /\ ~(v.since > WRITE_BEFORE_S \/ v.since > DELAY_S)
    /\ ~Already(v)

(* Only round 1 is looked at. *)
Pass(v) ==
    IF \/ 1 \in v.acted \/ 1 \notin IndexRounds(v.log)
       \/ Alive(v) /\ ~Late(v) /\ v.since < WRITE_AFTER_S
    THEN [acted |-> v.acted, todo |-> Nothing]
    ELSE [acted |-> v.acted \cup {1},
          todo |-> IF GapDecision(v) THEN Write("append", 1) ELSE Nothing]

MayWrite(v) == ~Finished(v)
WritePrompt(v) == [v.files EXCEPT !.extra = @ + 1]
=============================================================================
