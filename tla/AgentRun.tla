------------------------------ MODULE AgentRun ------------------------------
(***************************************************************************)
(* One call of agent_runtime.run in the round process: the agent and its    *)
(* process group, the wall-clock limit, the grace kill after the agent's    *)
(* result, the reap (_terminate_agent, _kill_pgroup), and the SIGTERM that  *)
(* round_cmd turns into a KeyboardInterrupt wherever it lands.              *)
(*                                                                         *)
(* Kids are processes the agent starts; one in the agent's group dies with  *)
(* the group, one that called setsid() is detached and found only through   *)
(* its parent.  Waits end by exit or, at any moment, by their deadline.     *)
(* Left out: argv and environment, the stdin thread, the heartbeat's data.  *)
(***************************************************************************)
EXTENDS Naturals

CONSTANTS
    Kids,          \* processes the agent may start
    Helpers,       \* those matched by grace_kill_ignore_patterns
    Configs,       \* configurations to explore
    Hazards,       \* which of "sigterm", "popen", "callback", "d_state" happen
    MaxTerms       \* bound on the SIGTERMs the round receives

ConfigType ==
    [grace : BOOLEAN,      \* max_grace_after_result_s > 0 and a marker
     container : {"none", "covered", "blind"}]  \* blind: no usable --cidfile

ASSUME AgentRunAssumption ==
    /\ Helpers \subseteq Kids
    /\ Configs \subseteq ConfigType
    /\ Hazards \subseteq {"sigterm", "popen", "callback", "d_state"}
    /\ MaxTerms \in Nat

VARIABLES
    cfg,
    pc,            \* where run() is
    why,           \* which call site of _terminate_agent it is in
    outcome,       \* how run() ended
    agent,         \* the agent process, leader of its own group
    kid,           \* its descendants: "group", "detached", "none", "dead"
    seen,          \* the reap snapshot: each kid's captured group
    marker,        \* the agent has written its result marker
    result_seen, grace_extended_emitted,
    container,     \* the container the agent's command runs
    orphan_reported,   \* _orphan_reported
    \* history
    terms,         \* SIGTERMs received
    passes,        \* calls of _kill_pgroup
    reports,       \* calls of on_container_orphan_risk
    cut            \* what an interrupted reap never got to

flags == <<marker, result_seen, grace_extended_emitted>>
history == <<terms, passes, reports, cut>>
vars == <<cfg, pc, why, outcome, agent, kid, seen, flags, container,
          orphan_reported, history>>

Reaping == {"snapshot", "signal", "grace", "kill", "strays", "reap", "stop",
            "report"}

FlagTypes ==
    /\ marker \in BOOLEAN
    /\ result_seen \in BOOLEAN
    /\ grace_extended_emitted \in BOOLEAN
    /\ orphan_reported \in BOOLEAN

ValueTypes ==
    /\ cfg \in ConfigType
    /\ pc \in Reaping \cup {"start", "forked", "poll", "ended", "left"}
    /\ why \in {"none", "timeout", "grace_kill", "unwind"}
    /\ outcome \in {"none", "exited", "timeout", "grace_kill", "raised"}
    /\ agent \in {"none", "running", "stuck", "killed", "zombie", "reaped"}
    /\ kid \in [Kids -> {"none", "group", "detached", "dead"}]
    /\ seen \in [Kids -> {"no", "group", "detached"}]
    /\ container \in {"none", "up", "gone"}
    /\ terms \in Nat /\ passes \in Nat /\ reports \in Nat
    /\ cut \subseteq {"kill", "strays", "report"}

(* Types, for every value of the constants.                                *)
TypeOK == FlagTypes /\ ValueTypes

Init ==
    /\ cfg \in Configs
    /\ pc = "start" /\ why = "none" /\ outcome = "none"
    /\ agent = "none"
    /\ kid = [k \in Kids |-> "none"]
    /\ seen = [k \in Kids |-> "no"]
    /\ marker = FALSE /\ result_seen = FALSE /\ grace_extended_emitted = FALSE
    /\ container = "none" /\ orphan_reported = FALSE
    /\ terms = 0 /\ passes = 0 /\ reports = 0 /\ cut = {}

Alive == agent \in {"running", "stuck", "killed"}

-----------------------------------------------------------------------------
(* The poll loop.                                                          *)

(* Popen has forked; proc is not assigned yet.                             *)
Fork ==
    /\ pc = "start"
    /\ pc' = "forked" /\ agent' = "running"
    /\ container' = IF cfg.container = "none" THEN "none" ELSE "up"
    /\ UNCHANGED <<cfg, why, outcome, kid, seen, flags, orphan_reported, history>>

(* The log cannot be opened or Popen raises: proc is None.                 *)
SpawnFails ==
    /\ pc = "start"
    /\ pc' = "left" /\ outcome' = "raised"
    /\ UNCHANGED <<cfg, why, agent, kid, seen, flags, container,
                   orphan_reported, history>>

Assign ==
    /\ pc = "forked"
    /\ pc' = "poll"
    /\ UNCHANGED <<cfg, why, outcome, agent, kid, seen, flags, container,
                   orphan_reported, history>>

(* proc.poll() reaps an agent that exited by itself.                       *)
AgentExited ==
    /\ pc = "poll" /\ agent = "zombie"
    /\ agent' = "reaped"
    /\ pc' = "ended"
    /\ UNCHANGED <<cfg, why, outcome, kid, seen, flags, container,
                   orphan_reported, history>>

Leave(how) == pc' = "left" /\ outcome' = how

(* The RunResult, from the exit or from one of the two hard walls.         *)
Return ==
    /\ pc = "ended"
    /\ Leave(IF why = "none" THEN "exited" ELSE why)
    /\ UNCHANGED <<cfg, why, agent, kid, seen, flags, container,
                   orphan_reported, history>>

(* _terminate_agent is called.                                             *)
Terminate(site) ==
    /\ pc' = "snapshot" /\ why' = site
    /\ passes' = passes + 1
    /\ UNCHANGED <<cfg, outcome, agent, kid, seen, flags, container,
                   orphan_reported, reports>>

(* The wall clock: no activity extends it.  The agent may have died since   *)
(* poll() looked, here and in the two other ways into a reap.               *)
TimesOut ==
    /\ pc = "poll"
    /\ Terminate("timeout")
    /\ UNCHANGED <<terms, cut>>

ScanResult ==
    /\ pc = "poll" /\ Alive
    /\ cfg.grace /\ marker /\ ~result_seen
    /\ result_seen' = TRUE
    /\ UNCHANGED <<cfg, pc, why, outcome, agent, kid, seen, marker,
                   grace_extended_emitted, container, orphan_reported, history>>

(* _live_children: the walk starts at the agent, and a dead agent's         *)
(* children have been given to init.                                        *)
LiveChildren ==
    IF Alive THEN {k \in Kids : kid[k] \in {"group", "detached"}} ELSE {}

(* The grace is over but a worker runs: say so once and wait on.           *)
GraceExtended ==
    /\ pc = "poll" /\ Alive
    /\ result_seen /\ LiveChildren \ Helpers # {}
    /\ ~grace_extended_emitted
    /\ grace_extended_emitted' = TRUE
    /\ UNCHANGED <<cfg, pc, why, outcome, agent, kid, seen, marker, result_seen,
                   container, orphan_reported, history>>

GraceKill ==
    /\ pc = "poll"
    /\ result_seen /\ LiveChildren \ Helpers = {}
    /\ Terminate("grace_kill")
    /\ UNCHANGED <<terms, cut>>

-----------------------------------------------------------------------------
(* _kill_pgroup.                                                           *)

REAP_FRAME == <<cfg, why, flags, orphan_reported, terms, passes, reports, cut>>

(* _snapshot_stray_descendants, with each one's group.                     *)
Snapshot ==
    /\ pc = "snapshot"
    /\ pc' = "signal"
    /\ seen' = [k \in Kids |-> IF k \in LiveChildren THEN kid[k] ELSE "no"]
    /\ UNCHANGED <<outcome, agent, kid, container, REAP_FRAME>>

(* killpg(pgid, first_signal): the members may end, in their own time.     *)
SignalGroup ==
    /\ pc = "signal"
    /\ pc' = "grace"
    /\ UNCHANGED <<outcome, agent, kid, seen, container, REAP_FRAME>>

(* Mutant: the wait reaps the agent it has seen exit.                      *)
GraceEndsReaping ==
    /\ pc = "grace"
    /\ pc' = "kill"
    /\ agent' = IF agent = "zombie" THEN "reaped" ELSE agent
    /\ UNCHANGED <<outcome, kid, seen, container, REAP_FRAME>>

(* _wait_exit_shielded: exited or timed out, the kill follows; an exit is   *)
(* noticed and not reaped, so the pid cannot be reused yet.                 *)
GraceEnds ==
    /\ pc = "grace"
    /\ pc' = "kill"
    /\ UNCHANGED <<outcome, agent, kid, seen, container, REAP_FRAME>>

GroupDies ==
    /\ agent' = IF agent = "running" THEN "zombie"
                ELSE IF agent = "stuck" THEN "killed" ELSE agent
    /\ kid' = [k \in Kids |-> IF kid[k] = "group" THEN "dead" ELSE kid[k]]

(* killpg(pgid, SIGKILL).                                                  *)
KillGroup ==
    /\ pc = "kill"
    /\ pc' = "strays"
    /\ GroupDies
    /\ UNCHANGED <<outcome, seen, container, REAP_FRAME>>

(* Mutant: descendants outside the group are left alone.                   *)
KillStraysNone ==
    /\ pc = "strays"
    /\ pc' = "reap"
    /\ UNCHANGED <<outcome, agent, kid, seen, container, REAP_FRAME>>

(* _kill_stray_descendants: only a descendant that is still in the group    *)
(* it was captured in.                                                      *)
KillStrays ==
    /\ pc = "strays"
    /\ pc' = "reap"
    /\ kid' = [k \in Kids |-> IF seen[k] = kid[k] THEN "dead" ELSE kid[k]]
    /\ UNCHANGED <<outcome, agent, seen, container, REAP_FRAME>>

(* _kill_pgroup and _terminate_agent are over: back to the call site.      *)
Terminated ==
    \/ why = "unwind" /\ Leave("raised")
    \/ why # "unwind" /\ pc' = "ended" /\ UNCHANGED outcome

(* Mutant: the last wait has no deadline.                                  *)
ReapWaits ==
    /\ pc = "reap" /\ agent \in {"zombie", "reaped"}
    /\ agent' = "reaped"
    /\ \/ cfg.container = "none" /\ Terminated
       \/ cfg.container # "none" /\ pc' = "stop" /\ UNCHANGED outcome
    /\ UNCHANGED <<kid, seen, container, REAP_FRAME>>

(* The last wait; an agent in uninterruptible sleep is given up on.        *)
Reap ==
    /\ pc = "reap"
    /\ \/ agent \in {"zombie", "reaped"} /\ agent' = "reaped"
       \/ agent = "killed" /\ UNCHANGED agent
    /\ \/ cfg.container = "none" /\ Terminated
       \/ cfg.container # "none" /\ pc' = "stop" /\ UNCHANGED outcome
    /\ UNCHANGED <<kid, seen, container, REAP_FRAME>>

(* _best_effort_container_stop: attempted when an id is known, successful   *)
(* or not.                                                                  *)
ContainerStop ==
    /\ pc = "stop"
    /\ pc' = "report"
    /\ \/ cfg.container = "covered" /\ container' = "gone"
       \/ UNCHANGED container
    /\ UNCHANGED <<outcome, agent, kid, seen, REAP_FRAME>>

(* _report_orphan_once marks itself done before it calls back; the callback *)
(* writes an event and may raise, which from the loop leads to a second     *)
(* reap.                                                                    *)
Report ==
    /\ pc = "report"
    /\ orphan_reported' = TRUE
    /\ reports' = IF orphan_reported THEN reports ELSE reports + 1
    /\ \/ Terminated /\ UNCHANGED <<why, passes, cut>>
       \/ /\ "callback" \in Hazards /\ ~orphan_reported
          /\ \/ /\ why # "unwind"
                /\ pc' = "snapshot" /\ why' = "unwind" /\ passes' = passes + 1
                /\ UNCHANGED <<outcome, cut>>
             \/ why = "unwind" /\ Leave("raised") /\ UNCHANGED <<why, passes, cut>>
    /\ UNCHANGED <<cfg, agent, kid, seen, flags, container, terms>>

-----------------------------------------------------------------------------
(* Interruptions.                                                          *)

(* The heartbeat or grace-extended callback raises in the poll loop.       *)
CallbackRaises ==
    /\ "callback" \in Hazards
    /\ pc = "poll"
    /\ Terminate("unwind")
    /\ UNCHANGED <<terms, cut>>

(* What a reap that is left at location l never does.                      *)
Missed(l) ==
    (IF l \in {"snapshot", "signal", "kill"} THEN {"kill"} ELSE {})
        \cup (IF l \in {"snapshot", "signal", "kill", "strays"} THEN {"strays"} ELSE {})
        \cup (IF cfg.container # "none" /\ ~orphan_reported THEN {"report"} ELSE {})

(* round_cmd's handler raises KeyboardInterrupt where the SIGTERM lands:    *)
(* in the loop and in the loop's reaps it is caught by `except              *)
(* BaseException`, in that handler's own reap it escapes.                   *)
SigtermInLoop ==
    /\ pc \in {"poll", "ended"} \/ (pc \in Reaping \ {"grace", "reap"} /\ why # "unwind")
    /\ Terminate("unwind")
    /\ cut' = IF pc \in {"signal", "kill", "strays"} THEN cut \cup {"strays"} ELSE cut

SigtermInHandler ==
    /\ pc \in Reaping \ {"grace", "reap"} /\ why = "unwind"
    /\ Leave("raised")
    /\ cut' = cut \cup Missed(pc)
    /\ UNCHANGED <<cfg, why, agent, kid, seen, flags, container, orphan_reported,
                   passes, reports>>

(* Mutant: the waits are not shielded.                                     *)
SigtermShieldedNot ==
    /\ pc \in {"grace", "reap"}
    /\ \/ why # "unwind" /\ Terminate("unwind") /\ UNCHANGED cut
       \/ /\ why = "unwind" /\ Leave("raised")
          /\ UNCHANGED <<cfg, why, agent, kid, seen, flags, container,
                         orphan_reported, passes, reports, cut>>

(* The two waits swallow it: the same deadline, the same escalation.       *)
SigtermShielded ==
    /\ pc \in {"grace", "reap"}
    /\ UNCHANGED <<cfg, pc, why, outcome, agent, kid, seen, flags, container,
                   orphan_reported, passes, reports, cut>>

(* Before the fork nothing is lost; inside Popen, after the fork, proc is   *)
(* None and the handler has nothing to reap.                                *)
SigtermAroundPopen ==
    /\ \/ pc = "start" /\ UNCHANGED cut
       \/ pc = "forked" /\ "popen" \in Hazards /\ cut' = Missed("snapshot")
    /\ Leave("raised")
    /\ UNCHANGED <<cfg, why, agent, kid, seen, flags, container, orphan_reported,
                   passes, reports>>

Sigterm ==
    /\ "sigterm" \in Hazards /\ terms < MaxTerms
    /\ terms' = terms + 1
    /\ \/ SigtermInLoop \/ SigtermInHandler \/ SigtermShielded
       \/ SigtermAroundPopen

-----------------------------------------------------------------------------
(* The agent, its descendants and its container, on their own.             *)

WORLD_FRAME == <<cfg, pc, why, outcome, seen, result_seen,
                 grace_extended_emitted, orphan_reported, history>>

AgentEnds ==
    /\ agent = "running"
    /\ agent' = "zombie"
    /\ UNCHANGED <<kid, marker, container, WORLD_FRAME>>

WritesResult ==
    /\ agent = "running" /\ ~marker
    /\ marker' = TRUE
    /\ UNCHANGED <<agent, kid, container, WORLD_FRAME>>

(* A kid starts in the agent's group, may leave it with setsid(), may end. *)
KidMoves(k) ==
    /\ \/ kid[k] = "none" /\ agent = "running" /\ kid' = [kid EXCEPT ![k] = "group"]
       \/ kid[k] = "group" /\ kid' = [kid EXCEPT ![k] = "detached"]
       \/ kid[k] \in {"group", "detached"} /\ kid' = [kid EXCEPT ![k] = "dead"]
    /\ UNCHANGED <<agent, marker, container, WORLD_FRAME>>

(* Uninterruptible sleep: even SIGKILL waits until it is over.             *)
AgentSleeps ==
    /\ "d_state" \in Hazards
    /\ agent = "running"
    /\ agent' = "stuck"
    /\ UNCHANGED <<kid, marker, container, WORLD_FRAME>>

AgentWakes ==
    /\ agent \in {"stuck", "killed"}
    /\ agent' = IF agent = "stuck" THEN "running" ELSE "zombie"
    /\ UNCHANGED <<kid, marker, container, WORLD_FRAME>>

ContainerEnds ==
    /\ container = "up"
    /\ container' = "gone"
    /\ UNCHANGED <<agent, kid, marker, WORLD_FRAME>>

-----------------------------------------------------------------------------
Run ==
    \/ Fork \/ SpawnFails \/ Assign \/ AgentExited \/ Return \/ TimesOut
    \/ ScanResult \/ GraceExtended \/ GraceKill
    \/ Snapshot \/ SignalGroup \/ GraceEnds \/ KillGroup \/ KillStrays
    \/ Reap \/ ContainerStop \/ Report

World ==
    \/ AgentEnds \/ WritesResult \/ AgentSleeps \/ AgentWakes \/ ContainerEnds
    \/ \E k \in Kids : KidMoves(k)

Next == Run \/ CallbackRaises \/ Sigterm \/ World

Spec == Init /\ [][Next]_vars

(* The round process runs, and its clock reaches every deadline.           *)
LiveSpec == Spec /\ WF_vars(Run)

-----------------------------------------------------------------------------
(* No way out of run() leaves the agent running: it is reaped, or a SIGKILL *)
(* waits for it in the kernel.  The exceptions are exactly a SIGTERM inside *)
(* Popen and one inside the exception handler's reap, outside its waits.    *)
AgentGone ==
    pc = "left" /\ "kill" \notin cut =>
        agent \in {"none", "killed", "zombie", "reaped"}

(* A terminated agent takes its group with it, and each descendant that had *)
(* detached when the snapshot was taken.                                    *)
NoStrays ==
    pc = "left" /\ passes > 0 /\ cut \cap {"kill", "strays"} = {} =>
        \A k \in Kids : kid[k] # "group" /\ (seen[k] = "detached" => kid[k] = "dead")

(* The hard walls signal no stranger: while a timeout or a grace kill still *)
(* has signals to send, the agent's pid is not freed.  Only the exception   *)
(* handler can be entered with the agent reaped already.                    *)
OwnsPid ==
    pc \in {"snapshot", "signal", "grace", "kill", "strays"} /\ agent = "reaped"
        => why = "unwind"

(* A terminated container round is reported exactly once, however often the *)
(* reap is repeated, unless the reap itself was cut short.                  *)
ReportedOnce ==
    /\ reports <= 1
    /\ pc = "left" /\ passes > 0 /\ cfg.container # "none" /\ "report" \notin cut
          => reports = 1

(* run() always ends: the wall clock, the two waits and the bounded stop    *)
(* see to it whatever the agent does.                                       *)
RunEnds == <>(pc = "left")

=============================================================================
