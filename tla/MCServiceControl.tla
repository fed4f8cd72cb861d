-------------------------- MODULE MCServiceControl --------------------------
(* ServiceControl with a plain serve or a user unit.  Two serve processes   *)
(* and two rounds are enough for a loser of each lock, a stale pid file or  *)
(* sidecar beside a live process, and an orphaned round beside a live one.  *)
EXTENDS ServiceControl

CONSTANTS s1, s2, r1, r2
MCServes == {s1, s2}
MCRounds == {r1, r2}
=============================================================================
