------------------------------- MODULE GapLog -------------------------------
(***************************************************************************)
(* What the scripts of examples/outer_loop share: the time windows they     *)
(* name, and the events log they read.  Each script runs beside one serve,  *)
(* polls once a second, and changes a file between two rounds, in the gap   *)
(* restart_delay_s leaves after round_end.                                  *)
(*                                                                         *)
(* A poll reads a view v:                                                   *)
(*   rec           the record in serve.pid, 0 when there is none            *)
(*   serve, squat  the serve that is alive, the dead serve whose pid        *)
(*                 another process has                                      *)
(*   log, old      the events, and how many are in an earlier month's file  *)
(*   since         seconds since the newest round_end, DELAY_S + 1 for more *)
(*   files, conf   the files the recipes write, agent-runner.toml           *)
(*   edited        the check command differs from the one read at boot      *)
(*   latched, acted, already, seen, seed    the script's own variables      *)
(* An elapsed time is only read for a round with no later round_start, so   *)
(* one clock, of the newest round_end, is enough.                           *)
(***************************************************************************)
EXTENDS Integers, Sequences, FiniteSets

CONSTANTS
    WRITE_AFTER_S, WRITE_BEFORE_S,  \* the window of the guarded recipes
    DELAY_S,                        \* the gap: restart_delay_s
    SETTLE_S,                       \* how long spend_ceiling waits for usage
    CEILING                         \* what spend_ceiling allows

ASSUME GapAssumption ==
    /\ {WRITE_AFTER_S, WRITE_BEFORE_S, DELAY_S, SETTLE_S, CEILING} \subseteq Nat
    /\ WRITE_AFTER_S < SETTLE_S /\ SETTLE_S < WRITE_BEFORE_S
    /\ WRITE_BEFORE_S < DELAY_S /\ CEILING > 0

GIVEUP == {"give_up"}

(* A poll in which no write is due. *)
Nothing == [what |-> "none", n |-> 0]
Write(what, n) == [what |-> what, n |-> n]

Kinds(log) == {log[i].ev : i \in DOMAIN log}
Numbers(log, ev) == {log[i].n : i \in {j \in DOMAIN log : log[j].ev = ev}}

(* The events of a kind for round n, by their place in the log. *)
Of(log, ev, n) == {i \in DOMAIN log : log[i].ev = ev /\ log[i].n = n}

Earliest(S) == CHOOSE n \in S : \A k \in S : n <= k
Latest(S) == CHOOSE n \in S : \A k \in S : k <= n

(* The last of these events, or none. *)
LastOf(log, places, none) == IF places = {} THEN none ELSE log[Latest(places)]

(* os.kill(pid, 0) alone, and with the start time in /proc. *)
PidExists(v) == v.rec # 0 /\ v.rec \in {v.serve, v.squat}
SameProcess(v) == v.rec # 0 /\ v.rec = v.serve
=============================================================================
