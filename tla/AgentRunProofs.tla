--------------------------- MODULE AgentRunProofs ---------------------------
(***************************************************************************)
(* Proofs about AgentRun, for every set of descendants, every number of     *)
(* SIGTERMs and every configuration: run() leaves no agent running, no      *)
(* member of its group and no descendant it had captured, signals no freed  *)
(* pid from a hard wall, and reports a container exactly once.              *)
(***************************************************************************)
EXTENDS AgentRun, TLAPS

valueVars == <<cfg, pc, why, outcome, agent, kid, seen, container, terms, passes,
               reports, cut>>

(* The call sites: a reap has one, and only the loop's returns a result.   *)
CallSites ==
    /\ pc \in {"start", "forked", "poll"} => why = "none"
    /\ pc \in Reaping => why # "none"
    /\ pc = "ended" => why # "unwind"
    /\ why = "none" <=> passes = 0

(* The steps that test or set Boolean flags, as seen by everything else.   *)
LEMMA FlagSteps ==
    /\ ScanResult \/ GraceExtended \/ WritesResult => UNCHANGED valueVars
    /\ GraceKill => pc = "poll" /\ Terminate("grace_kill")
                        /\ UNCHANGED <<terms, cut>>
<1>1. ScanResult \/ GraceExtended \/ WritesResult => UNCHANGED valueVars
    BY Zenon DEF ScanResult, GraceExtended, WritesResult, WORLD_FRAME, history,
        valueVars
<1>2. GraceKill => pc = "poll" /\ Terminate("grace_kill")
                        /\ UNCHANGED <<terms, cut>>
    BY Zenon DEF GraceKill
<1> QED
    BY <1>1, <1>2

(* A step keeps the values in their sets.                                  *)
LEMMA ValueStep == ValueTypes /\ CallSites /\ [Next]_vars => ValueTypes'
<1> SUFFICES ASSUME ValueTypes, CallSites, [Next]_vars PROVE ValueTypes'
    OBVIOUS
<1> USE DEF ValueTypes, Reaping, REAP_FRAME, WORLD_FRAME, history, flags
<1>1. CASE UNCHANGED vars
    BY <1>1 DEF vars
<1>2. CASE Fork \/ SpawnFails \/ Assign \/ AgentExited
    <2>1. CASE Fork
        BY <2>1 DEF Fork
    <2>2. CASE SpawnFails
        BY <2>2 DEF SpawnFails
    <2>3. CASE Assign
        BY <2>3 DEF Assign
    <2>4. CASE AgentExited
        BY <2>4 DEF AgentExited
    <2> QED
        BY <1>2, <2>1, <2>2, <2>3, <2>4
<1>12. CASE ScanResult \/ GraceExtended \/ WritesResult
    <2>1. UNCHANGED valueVars
        BY <1>12, FlagSteps, Zenon
    <2> QED
        BY <2>1 DEF valueVars
<1>3. CASE Return
    <2>1. outcome' \in {"exited", "timeout", "grace_kill"} /\ pc' = "left"
        BY <1>3 DEF Return, Leave, CallSites
    <2> QED
        BY <1>3, <2>1 DEF Return
<1>4. CASE TimesOut \/ GraceKill \/ CallbackRaises
    <2>1. /\ \E site \in {"timeout", "grace_kill", "unwind"} : Terminate(site)
          /\ UNCHANGED <<terms, cut>>
        BY <1>4, FlagSteps, Zenon DEF TimesOut, CallbackRaises
    <2> QED
        BY <2>1 DEF Terminate
<1>5. CASE Snapshot \/ SignalGroup \/ GraceEnds
    <2>1. CASE Snapshot
        BY <2>1 DEF Snapshot, LiveChildren
    <2>2. CASE SignalGroup \/ GraceEnds
        <3>1. CASE SignalGroup
            BY <3>1 DEF SignalGroup
        <3>2. CASE GraceEnds
            BY <3>2 DEF GraceEnds
        <3> QED
            BY <2>2, <3>1, <3>2
    <2> QED
        BY <1>5, <2>1, <2>2
<1>6. CASE KillGroup \/ KillStrays
    <2>1. CASE KillGroup
        BY <2>1 DEF KillGroup, GroupDies
    <2>2. CASE KillStrays
        BY <2>2 DEF KillStrays, GroupDies
    <2> QED
        BY <1>6, <2>1, <2>2
<1>7. CASE Reap
    BY <1>7 DEF Reap, Terminated, Leave
<1>8. CASE ContainerStop
    BY <1>8 DEF ContainerStop
<1>9. CASE Report
    <2>1. reports' \in Nat /\ passes' \in Nat
        BY <1>9 DEF Report
    <2>2. /\ pc' \in {"left", "ended", "snapshot"}
          /\ outcome' \in {outcome, "raised"} /\ why' \in {why, "unwind"}
        BY <1>9 DEF Report, Terminated, Leave
    <2>3. UNCHANGED <<cfg, agent, kid, seen, container, terms, cut>>
        BY <1>9 DEF Report
    <2> QED
        BY <2>1, <2>2, <2>3
<1>10. CASE Sigterm
    <2>1. terms' \in Nat
        BY <1>10 DEF Sigterm
    <2>2. Missed("snapshot") \subseteq {"kill", "strays", "report"}
          /\ Missed(pc) \subseteq {"kill", "strays", "report"}
        BY DEF Missed
    <2>3. CASE SigtermInLoop
        BY <2>1, <2>3 DEF SigtermInLoop, Terminate
    <2>4. CASE SigtermInHandler
        BY <2>1, <2>2, <2>4 DEF SigtermInHandler, Leave
    <2>5. CASE SigtermShielded
        BY <2>1, <2>5 DEF SigtermShielded
    <2>6. CASE SigtermAroundPopen
        BY <2>1, <2>2, <2>6 DEF SigtermAroundPopen, Leave
    <2> QED
        BY <1>10, <2>3, <2>4, <2>5, <2>6 DEF Sigterm
<1>11. CASE World
    <2>1. CASE AgentEnds \/ AgentSleeps \/ AgentWakes
        <3>1. agent' \in {"running", "stuck", "zombie"}
            BY <2>1 DEF AgentEnds, AgentSleeps, AgentWakes
        <3>2. UNCHANGED <<kid, container, WORLD_FRAME>>
            BY <2>1 DEF AgentEnds, AgentSleeps, AgentWakes
        <3> QED
            BY <3>1, <3>2
    <2>3. CASE ContainerEnds
        BY <2>3 DEF ContainerEnds
    <2>2. ASSUME NEW k \in Kids, KidMoves(k) PROVE ValueTypes'
        BY <2>2 DEF KidMoves
    <2> QED
        BY <1>11, <1>12, <2>1, <2>2, <2>3 DEF World
<1> QED
    BY <1>1, <1>2, <1>3, <1>4, <1>5, <1>6, <1>7, <1>8, <1>9, <1>10, <1>11, <1>12
    DEF Next, Run

(* A step keeps the flags Boolean.                                         *)
LEMMA FlagStep == FlagTypes /\ [Next]_vars => FlagTypes'
<1> SUFFICES ASSUME FlagTypes, [Next]_vars PROVE FlagTypes'
    OBVIOUS
<1> USE DEF FlagTypes, REAP_FRAME, WORLD_FRAME, history, flags
<1>1. CASE UNCHANGED vars
    BY <1>1, Zenon DEF vars
<1>2. CASE Fork \/ SpawnFails \/ Assign \/ AgentExited \/ Return \/ ScanResult \/ GraceExtended
    BY <1>2, Zenon DEF Fork, SpawnFails, Assign, AgentExited, Return, ScanResult, GraceExtended
<1>3. CASE TimesOut \/ GraceKill \/ CallbackRaises
    BY <1>3, Zenon DEF TimesOut, GraceKill, CallbackRaises, Terminate
<1>4. CASE Snapshot \/ SignalGroup \/ GraceEnds \/ KillGroup \/ KillStrays
    BY <1>4, Zenon DEF Snapshot, SignalGroup, GraceEnds, KillGroup, KillStrays
<1>5. CASE Reap \/ ContainerStop \/ Report
    BY <1>5, Zenon DEF Reap, ContainerStop, Report
<1>6. CASE Sigterm
    BY <1>6, Zenon DEF Sigterm, SigtermInLoop, SigtermInHandler, SigtermShielded,
        SigtermAroundPopen, Terminate
<1>7. CASE World
    BY <1>7, Zenon DEF World, AgentEnds, WritesResult, AgentSleeps, AgentWakes,
        ContainerEnds, KidMoves
<1> QED
    BY <1>1, <1>2, <1>3, <1>4, <1>5, <1>6, <1>7, Zenon DEF Next, Run

(* A step keeps the call sites.                                            *)
LEMMA CallSiteStep == ValueTypes /\ CallSites /\ [Next]_vars => CallSites'
<1> SUFFICES ASSUME passes \in Nat, CallSites, [Next]_vars PROVE CallSites'
    BY DEF ValueTypes
<1> USE DEF CallSites, Reaping, REAP_FRAME, WORLD_FRAME, history
<1>1. CASE UNCHANGED vars
    BY <1>1 DEF vars
<1>2. CASE Fork \/ SpawnFails \/ Assign \/ AgentExited \/ Return
    BY <1>2 DEF Fork, SpawnFails, Assign, AgentExited, Return, Leave
<1>3. CASE ScanResult \/ GraceExtended \/ WritesResult
    <2>1. UNCHANGED valueVars
        BY <1>3, FlagSteps, Zenon
    <2> QED
        BY <2>1 DEF valueVars
<1>4. CASE TimesOut \/ GraceKill \/ CallbackRaises
    <2>1. \E site \in {"timeout", "grace_kill", "unwind"} : Terminate(site)
        BY <1>4, FlagSteps, Zenon DEF TimesOut, CallbackRaises
    <2> QED
        BY <2>1 DEF Terminate
<1>5. CASE Snapshot \/ SignalGroup \/ GraceEnds \/ KillGroup \/ KillStrays
    BY <1>5 DEF Snapshot, SignalGroup, GraceEnds, KillGroup, KillStrays
<1>6. CASE Reap \/ ContainerStop
    BY <1>6 DEF Reap, ContainerStop, Terminated, Leave
<1>7. CASE Report
    <2>1. \/ Terminated /\ UNCHANGED <<why, passes>>
          \/ pc' = "snapshot" /\ why' = "unwind" /\ passes' = passes + 1
          \/ Leave("raised") /\ UNCHANGED <<why, passes>>
        BY <1>7, Zenon DEF Report
    <2>2. pc = "report"
        BY <1>7 DEF Report
    <2> QED
        BY <2>1, <2>2 DEF Terminated, Leave
<1>8. CASE Sigterm
    BY <1>8 DEF Sigterm, SigtermInLoop, SigtermInHandler, SigtermShielded,
        SigtermAroundPopen, Terminate, Leave
<1>9. CASE World
    <2>1. WritesResult \/ UNCHANGED <<pc, why, passes>>
        BY <1>9, Zenon DEF World, AgentEnds, AgentSleeps, AgentWakes, ContainerEnds,
            KidMoves
    <2> QED
        BY <1>3, <2>1
<1> QED
    BY <1>1, <1>2, <1>3, <1>4, <1>5, <1>6, <1>7, <1>8, <1>9 DEF Next, Run

(* The types hold in every reachable state.                                *)
THEOREM AgentRunTypes == Spec => []TypeOK
<1>1. Init => FlagTypes
    BY Zenon DEF Init, FlagTypes
<1>2. Init => ValueTypes /\ CallSites
    BY AgentRunAssumption DEF Init, ValueTypes, CallSites, Reaping
<1> QED
    BY <1>1, <1>2, ValueStep, CallSiteStep, FlagStep, PTL DEF Spec, TypeOK

-----------------------------------------------------------------------------
(* Once the SIGKILL has been sent the agent is dead or has it pending, and   *)
(* nothing revives it.  A freed pid is met again only by the exception       *)
(* handler.                                                                  *)
Dying == {"killed", "zombie", "reaped"}

AgentInv ==
    /\ pc = "start" => agent = "none"
    /\ pc \in {"forked", "poll"} \cup Reaping => agent # "none"
    /\ pc \in {"strays", "reap", "stop", "report", "ended"} => agent \in Dying
    /\ pc = "left" /\ "kill" \notin cut => agent \in Dying \cup {"none"}
    /\ pc \in {"start", "forked", "poll"} => agent # "reaped"
    /\ agent = "reaped" =>
          why = "unwind" \/ pc \in {"stop", "report", "ended", "left"}

LEMMA AgentStep == ValueTypes /\ CallSites /\ AgentInv /\ [Next]_vars => AgentInv'
<1> SUFFICES ASSUME ValueTypes, CallSites, AgentInv, [Next]_vars PROVE AgentInv'
    OBVIOUS
<1>0. /\ agent \in {"none", "running", "stuck", "killed", "zombie", "reaped"}
      /\ pc \in {"start", "forked", "poll"} => why = "none"
    BY DEF ValueTypes, CallSites
<1> USE <1>0 DEF AgentInv, Dying, Reaping, REAP_FRAME, WORLD_FRAME, history
<1> HIDE DEF ValueTypes, CallSites
<1>1. CASE UNCHANGED vars
    BY <1>1 DEF vars
<1>2. CASE Fork \/ SpawnFails \/ Assign \/ AgentExited \/ Return
    BY <1>2 DEF Fork, SpawnFails, Assign, AgentExited, Return, Leave
<1>3. CASE ScanResult \/ GraceExtended \/ WritesResult
    <2>1. UNCHANGED valueVars
        BY <1>3, FlagSteps, Zenon
    <2> QED
        BY <2>1 DEF valueVars
<1>4. CASE TimesOut \/ GraceKill \/ CallbackRaises
    <2>1. /\ pc = "poll" /\ UNCHANGED cut
          /\ \E site \in {"timeout", "grace_kill", "unwind"} : Terminate(site)
        BY <1>4, FlagSteps, Zenon DEF TimesOut, CallbackRaises
    <2> QED
        BY <2>1 DEF Terminate
<1>5. CASE Snapshot \/ SignalGroup \/ GraceEnds \/ KillStrays
    BY <1>5 DEF Snapshot, SignalGroup, GraceEnds, KillStrays
<1>6. CASE KillGroup
    BY <1>6 DEF KillGroup, GroupDies
<1>7. CASE Reap \/ ContainerStop
    BY <1>7 DEF Reap, ContainerStop, Terminated, Leave
<1>8. CASE Report
    <2>1. /\ pc = "report" /\ UNCHANGED <<agent, cut>>
          /\ \/ Terminated /\ UNCHANGED why
             \/ pc' = "snapshot" /\ why' = "unwind"
             \/ Leave("raised") /\ UNCHANGED why
        BY <1>8, Zenon DEF Report
    <2> QED
        BY <2>1 DEF Terminated, Leave
<1>9. CASE Sigterm
    <2>1. CASE SigtermInLoop
        BY <2>1 DEF SigtermInLoop, Terminate
    <2>2. CASE SigtermInHandler
        BY <2>2 DEF SigtermInHandler, Leave, Missed
    <2>3. CASE SigtermShielded
        BY <2>3 DEF SigtermShielded
    <2>4. CASE SigtermAroundPopen
        BY <2>4 DEF SigtermAroundPopen, Leave, Missed
    <2> QED
        BY <1>9, <2>1, <2>2, <2>3, <2>4 DEF Sigterm
<1>10. CASE World
    <2>1. \/ WritesResult
          \/ agent' = agent /\ UNCHANGED <<pc, why, cut>>
          \/ agent = "running" /\ agent' \in {"zombie", "stuck"}
                /\ UNCHANGED <<pc, why, cut>>
          \/ agent = "stuck" /\ agent' = "running" /\ UNCHANGED <<pc, why, cut>>
          \/ agent = "killed" /\ agent' = "zombie" /\ UNCHANGED <<pc, why, cut>>
        BY <1>10 DEF World, AgentEnds, AgentSleeps, AgentWakes, ContainerEnds,
            KidMoves
    <2> QED
        BY <1>3, <2>1
<1> QED
    BY <1>1, <1>2, <1>3, <1>4, <1>5, <1>6, <1>7, <1>8, <1>9, <1>10 DEF Next, Run

(* Where run() is, and what it has done to the agent.                       *)
LEMMA AgentInvHolds == Spec => []AgentInv
<1>1. Init => ValueTypes /\ CallSites /\ AgentInv
    BY AgentRunAssumption
    DEF Init, ValueTypes, CallSites, AgentInv, Reaping, Dying
<1> QED
    BY <1>1, ValueStep, CallSiteStep, AgentStep, PTL DEF Spec

(* No way out of run() leaves the agent running, for any number of SIGTERMs *)
(* outside the two windows AgentGone names.                                 *)
THEOREM RunEndsTheAgent == Spec => []AgentGone
<1>1. AgentInv => AgentGone
    BY DEF AgentInv, AgentGone, Dying, Reaping
<1> QED
    BY <1>1, AgentInvHolds, PTL

(* The two hard walls, the timeout and the grace kill, signal only the      *)
(* group of an agent whose pid is still its own.  The exception handler is  *)
(* left out: entered after the agent was reaped, it signals a freed pid.    *)
THEOREM WallsSignalTheirAgent == Spec => []OwnsPid
<1>1. AgentInv => OwnsPid
    BY DEF AgentInv, OwnsPid, Dying, Reaping
<1> QED
    BY <1>1, AgentInvHolds, PTL

-----------------------------------------------------------------------------
(* From the SIGKILL on the agent's group is empty, and from the stray kill  *)
(* on every descendant captured in a group of its own is dead.  Only a      *)
(* running agent starts processes, so neither comes back.                   *)
GroupEmpty == \A k \in Kids : kid[k] # "group"
CapturedDead == \A k \in Kids : seen[k] = "detached" => kid[k] = "dead"

CapturedStay ==
    \A k \in Kids : seen[k] = "detached" => kid[k] \in {"detached", "dead"}

StrayInv ==
    /\ CapturedStay
    /\ pc \in {"strays", "reap", "stop", "report"} => GroupEmpty
    /\ pc \in {"reap", "stop", "report"} => CapturedDead
    /\ pc = "ended" /\ why # "none" => GroupEmpty /\ CapturedDead
    /\ pc = "left" /\ passes > 0 /\ cut \cap {"kill", "strays"} = {}
          => GroupEmpty /\ CapturedDead

LEMMA StrayStep ==
    ValueTypes /\ CallSites /\ AgentInv /\ StrayInv /\ [Next]_vars => StrayInv'
<1> SUFFICES ASSUME ValueTypes, CallSites, AgentInv, StrayInv, [Next]_vars
             PROVE  StrayInv'
    OBVIOUS
<1>0. /\ passes \in Nat
      /\ kid \in [Kids -> {"none", "group", "detached", "dead"}]
      /\ seen \in [Kids -> {"no", "group", "detached"}]
      /\ pc \in {"start", "forked", "poll"} => why = "none"
      /\ why = "none" <=> passes = 0
      /\ pc \in {"strays", "reap", "stop", "report", "ended"} => agent # "running"
      /\ pc = "left" /\ "kill" \notin cut => agent # "running"
    BY DEF ValueTypes, CallSites, AgentInv, Dying
<1> HIDE DEF ValueTypes, CallSites, AgentInv
<1> USE <1>0 DEF StrayInv, REAP_FRAME, WORLD_FRAME, history
<1>a. ASSUME UNCHANGED <<kid, seen>>
      PROVE  /\ CapturedStay' <=> CapturedStay
             /\ GroupEmpty' <=> GroupEmpty
             /\ CapturedDead' <=> CapturedDead
    BY <1>a DEF CapturedStay, GroupEmpty, CapturedDead
<1>1. CASE UNCHANGED vars
    BY <1>1, <1>a DEF vars
<1>2. CASE Fork \/ SpawnFails \/ Assign \/ AgentExited
    BY <1>2, <1>a DEF Fork, SpawnFails, Assign, AgentExited
<1>3. CASE Return
    <2>1. /\ UNCHANGED <<kid, seen, why, passes, cut>> /\ pc = "ended" /\ pc' = "left"
        BY <1>3 DEF Return, Leave
    <2> QED
        BY <2>1, <1>a
<1>4. CASE ScanResult \/ GraceExtended \/ WritesResult
    <2>1. UNCHANGED valueVars
        BY <1>4, FlagSteps, Zenon
    <2> QED
        BY <2>1, <1>a DEF valueVars
<1>5. CASE TimesOut \/ GraceKill \/ CallbackRaises
    <2>1. \E site \in {"timeout", "grace_kill", "unwind"} : Terminate(site)
        BY <1>5, FlagSteps, Zenon DEF TimesOut, CallbackRaises
    <2> QED
        BY <2>1, <1>a DEF Terminate
<1>6. CASE Snapshot
    BY <1>6 DEF Snapshot, CapturedStay
<1>7. CASE SignalGroup \/ GraceEnds
    BY <1>7, <1>a DEF SignalGroup, GraceEnds
<1>8. CASE KillGroup
    BY <1>8 DEF KillGroup, GroupDies, CapturedStay, GroupEmpty
<1>9. CASE KillStrays
    <2>1. pc = "strays" /\ pc' = "reap" /\ GroupEmpty
        BY <1>9 DEF KillStrays
    <2>2. CapturedStay' /\ CapturedDead' /\ GroupEmpty'
        BY <1>9, <2>1 DEF KillStrays, CapturedStay, CapturedDead, GroupEmpty
    <2> QED
        BY <2>1, <2>2
<1>10. CASE Reap \/ ContainerStop \/ Report
    <2>1. UNCHANGED <<kid, seen>>
        BY <1>10 DEF Reap, ContainerStop, Report
    <2>2. pc \in {"reap", "stop", "report"}
        BY <1>10 DEF Reap, ContainerStop, Report
    <2>3. CapturedStay' /\ GroupEmpty' /\ CapturedDead'
        BY <1>a, <2>1, <2>2
    <2> QED
        BY <2>3
<1>11. CASE Sigterm
    <2>1. CASE SigtermInLoop
        BY <2>1, <1>a DEF SigtermInLoop, Terminate
    <2>2. CASE SigtermInHandler
        <3>1. /\ UNCHANGED <<kid, seen, passes>> /\ pc' = "left"
              /\ cut' = cut \cup Missed(pc)
              /\ pc \in {"snapshot", "signal", "kill", "strays", "stop", "report"}
            BY <2>2 DEF SigtermInHandler, Leave, Reaping
        <3>2. CASE pc \in {"stop", "report"}
            BY <1>a, <3>1, <3>2
        <3>3. CASE pc \in {"snapshot", "signal", "kill", "strays"}
            <4>1. "strays" \in cut'
                BY <3>1, <3>3 DEF Missed
            <4> QED
                BY <1>a, <3>1, <4>1
        <3> QED
            BY <3>1, <3>2, <3>3
    <2>3. CASE SigtermShielded
        BY <2>3, <1>a DEF SigtermShielded
    <2>4. CASE SigtermAroundPopen
        BY <2>4, <1>a DEF SigtermAroundPopen, Leave
    <2> QED
        BY <1>11, <2>1, <2>2, <2>3, <2>4 DEF Sigterm
<1>12. CASE AgentEnds \/ AgentSleeps \/ AgentWakes \/ ContainerEnds
    BY <1>12, <1>a DEF AgentEnds, AgentSleeps, AgentWakes, ContainerEnds
<1>13. ASSUME NEW k \in Kids, KidMoves(k) PROVE StrayInv'
    BY <1>13 DEF KidMoves, CapturedStay, GroupEmpty, CapturedDead
<1> QED
    BY <1>1, <1>2, <1>3, <1>4, <1>5, <1>6, <1>7, <1>8, <1>9, <1>10, <1>11, <1>12,
       <1>13
    DEF Next, Run, World

(* A reap that was not cut short leaves no member of the agent's group and  *)
(* no descendant it had captured (NoStrays).                                *)
THEOREM ReapTakesDescendants == Spec => []NoStrays
<1>1. Init => ValueTypes /\ CallSites /\ AgentInv
    BY AgentRunAssumption
    DEF Init, ValueTypes, CallSites, AgentInv, Reaping, Dying
<1>2. Init => StrayInv
    BY DEF Init, StrayInv, CapturedStay, GroupEmpty, CapturedDead
<1>3. StrayInv => NoStrays
    BY DEF StrayInv, NoStrays, GroupEmpty, CapturedDead
<1> QED
    BY <1>1, <1>2, <1>3, ValueStep, CallSiteStep, AgentStep, StrayStep, PTL
    DEF Spec

-----------------------------------------------------------------------------
(* The report and its guard agree, and no reap of a container round ends    *)
(* without it.                                                              *)
ReportInv ==
    /\ orphan_reported => reports = 1
    /\ ~orphan_reported => reports = 0
    /\ pc = "ended" /\ why # "none" => cfg.container = "none" \/ orphan_reported
    /\ pc = "left" /\ passes > 0 /\ "report" \notin cut
          => cfg.container = "none" \/ orphan_reported

LEMMA ReportStep ==
    FlagTypes /\ CallSites /\ ReportInv /\ [Next]_vars => ReportInv'
<1> SUFFICES ASSUME FlagTypes, CallSites, ReportInv, [Next]_vars
             PROVE  ReportInv'
    OBVIOUS
<1>0. /\ orphan_reported \in BOOLEAN
      /\ pc \in {"start", "forked", "poll"} => why = "none"
      /\ why = "none" <=> passes = 0
    BY Zenon DEF FlagTypes, CallSites
<1> HIDE DEF FlagTypes, CallSites
<1> USE <1>0 DEF ReportInv, REAP_FRAME, WORLD_FRAME, history
<1>1. CASE UNCHANGED vars
    BY <1>1 DEF vars
<1>2. CASE Fork \/ SpawnFails \/ Assign \/ AgentExited
    BY <1>2 DEF Fork, SpawnFails, Assign, AgentExited
<1>11. CASE Return
    <2>1. /\ UNCHANGED <<orphan_reported, reports, why, passes, cut, cfg>>
          /\ pc = "ended" /\ pc' = "left"
        BY <1>11 DEF Return, Leave
    <2> QED
        BY <2>1
<1>3. CASE ScanResult \/ GraceExtended
    BY <1>3 DEF ScanResult, GraceExtended
<1>4. CASE TimesOut \/ GraceKill \/ CallbackRaises
    BY <1>4 DEF TimesOut, CallbackRaises, GraceKill, Terminate
<1>5. CASE Snapshot \/ SignalGroup \/ GraceEnds
    BY <1>5 DEF Snapshot, SignalGroup, GraceEnds
<1>6. CASE KillGroup \/ KillStrays
    BY <1>6 DEF KillGroup, KillStrays
<1>7. CASE Reap \/ ContainerStop
    BY <1>7 DEF Reap, ContainerStop, Terminated, Leave
<1>8. CASE Report
    BY <1>8 DEF Report
<1>9. CASE Sigterm
    BY <1>9 DEF Sigterm, SigtermInLoop, SigtermInHandler, SigtermShielded,
        SigtermAroundPopen, Terminate, Leave, Missed
<1>10. CASE World
    BY <1>10 DEF World, AgentEnds, WritesResult, AgentSleeps, AgentWakes,
        ContainerEnds, KidMoves
<1> QED
    BY <1>1, <1>2, <1>3, <1>4, <1>5, <1>6, <1>7, <1>8, <1>9, <1>10, <1>11
    DEF Next, Run

(* A terminated container round is reported exactly once (ReportedOnce).    *)
THEOREM ContainerIsReportedOnce == Spec => []ReportedOnce
<1>1. Init => FlagTypes
    BY Zenon DEF Init, FlagTypes
<1>2. Init => ValueTypes /\ CallSites
    BY AgentRunAssumption DEF Init, ValueTypes, CallSites, Reaping
<1>3. Init => ReportInv
    BY DEF Init, ReportInv
<1>4. ReportInv => ReportedOnce
    BY DEF ReportInv, ReportedOnce
<1> QED
    BY <1>1, <1>2, <1>3, <1>4, FlagStep, ValueStep, CallSiteStep, ReportStep, PTL
    DEF Spec
=============================================================================
