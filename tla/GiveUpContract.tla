--------------------------- MODULE GiveUpContract ---------------------------
(***************************************************************************)
(* What the three circuit breakers of `agent-runner serve` promise, stated  *)
(* over the outcomes of a serve lifetime and without any counter: serve     *)
(* gives up after a round exactly when the last rounds were all of one      *)
(* kind, with the precedence config_broken > mem_loop > crash_loop or       *)
(* stalled_no_progress.  ServeHistory implements it.                        *)
(***************************************************************************)
EXTENDS ServePolicy

CONSTANT Outcomes

VARIABLES up,      \* a serve process exists
          code,    \* its verdict, 0 while it has none
          hist     \* the outcomes of its rounds, oldest first

contractVars == <<up, code, hist>>

CrashRounds == {o \in Outcomes : UnknownShortCrash(o)}
MemRounds == {o \in Outcomes : o.mem}
IdleRounds == {o \in Outcomes : NoProgress(o)}

(* The last k entries of h are all members of S.                           *)
LastAll(h, k, S) ==
    /\ k <= Len(h)
    /\ \A i \in 1..Len(h) : i > Len(h) - k => h[i] \in S

(* The verdicts a history calls for.  Whether a mem_loop restarts (71) or   *)
(* stops (70) depends on earlier lifetimes, which the contract leaves open. *)
VerdictsFor(h) ==
    IF h[Len(h)].rc = PERMANENT_CONFIG_EXIT
      THEN {PERMANENT_CONFIG_EXIT}
    ELSE IF LastAll(h, MEM_LOOP_THRESHOLD, MemRounds)
      THEN {MEM_LOOP_EXIT, MEM_LOOP_PERSISTENT_EXIT}
    ELSE IF \/ LastAll(h, CRASH_LOOP_THRESHOLD, CrashRounds)
            \/ LastAll(h, CRASH_LOOP_THRESHOLD, IdleRounds)
      THEN {CRASH_LOOP_EXIT}
    ELSE {0}

ContractInit == up = FALSE /\ code = 0 /\ hist = <<>>

Begin == ~up /\ up' = TRUE /\ code' = 0 /\ UNCHANGED hist

(* Start-up can fail for good, before any round.                           *)
RefuseToStart ==
    /\ up /\ hist = <<>>
    /\ code' = PERMANENT_CONFIG_EXIT
    /\ UNCHANGED <<up, hist>>

(* A process without a verdict runs a round and judges it.                 *)
Round ==
    /\ up /\ code = 0
    /\ \E o \in Outcomes : hist' = Append(hist, o)
    /\ code' \in VerdictsFor(hist')
    /\ UNCHANGED up

(* A lifetime forgets its rounds when it ends.                             *)
End == up /\ up' = FALSE /\ hist' = <<>> /\ UNCHANGED code

ContractNext == Begin \/ RefuseToStart \/ Round \/ End

ContractSpec == ContractInit /\ [][ContractNext]_contractVars
=============================================================================
