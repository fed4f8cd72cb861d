----------------------------- MODULE SpawnRound -----------------------------
(***************************************************************************)
(* The watcher of one round: _spawn_round in agent_runner/cli/              *)
(* _serve_round.py, with _terminate_round, _mid_round_action, the wait of   *)
(* _procwait.py and the memory.high soft-brake of _serve_cgroup.py and      *)
(* metrics.py.  ServeLoop sees all of this as its single step RoundEnds.    *)
(*                                                                         *)
(* Time is counted in memory checks (_MEM_CHECK_INTERVAL_S): the outer      *)
(* ceiling is MaxTicks of them.  The leaf cgroup's memory.high outlives     *)
(* every round; MaxHigh stands for the token "max".  Left out: what the     *)
(* samples measure, the growth-rate warning, the peaks stashed for the log. *)
(***************************************************************************)
EXTENDS Integers, Sequences

CONSTANTS
    CriticalSamples,  \* pressure.critical_consecutive_samples
    WarningSamples,   \* brake.warning_consecutive_samples
    MaxTicks,         \* the round's ceiling, in memory checks
    MaxHigh,          \* memory.high = "max"
    Configs,          \* configurations to explore
    Hazards,          \* which of "raise", "d_state", "write_fails" happen
    RestoreFailures   \* bound on the round-end restores that fail

ConfigType ==
    [in_round_terminate : BOOLEAN, in_round_nudge : BOOLEAN,
     defer_to_cgroup : BOOLEAN,     \* decided at boot from the cgroup's limits
     brake : BOOLEAN,               \* _brake_step_for(...) is not None
     high : 1..MaxHigh]             \* the operator's memory.high

ASSUME SpawnRoundAssumption ==
    /\ CriticalSamples \in Nat \ {0} /\ WarningSamples \in Nat \ {0}
    /\ MaxTicks \in Nat /\ MaxHigh \in Nat \ {0}
    /\ Configs \subseteq ConfigType
    /\ Hazards \subseteq {"raise", "d_state", "write_fails"}
    /\ RestoreFailures \in Nat

VARIABLES
    cfg,
    pc,                  \* where _spawn_round is; "idle" between two rounds
    why,                 \* what brought it to _terminate_round
    proc,                \* the round leader
    result,              \* how the last call ended
    ticks,               \* memory checks since the spawn
    warning_streak, none_streak, critical_streak,
    nudged, cgroup_defer_notified,
    brake_engaged, brake_previous, brake_disarmed, brake_restore_failed,
    leaf_high,           \* the leaf's memory.high
    \* history
    recent,              \* the last CriticalSamples pressures of this round
    asked_to_stop,       \* the memory floor sent a SIGTERM in this round
    mem_terminated,      \* round_mem_terminated events of this round
    deferrals,           \* mem_pressure_deferred_to_cgroup in this episode
    restore_lost         \* round-end restores of memory.high that failed

brake == <<brake_engaged, brake_previous, brake_disarmed, brake_restore_failed>>
counters == <<warning_streak, none_streak, critical_streak>>
floor == <<nudged, cgroup_defer_notified, recent, asked_to_stop, mem_terminated,
           deferrals>>
spawn_vars == <<cfg, pc, why, proc, result, ticks, counters, brake, leaf_high, floor,
          restore_lost>>

(* What the end of a call leaves alone.                                    *)
REST == <<cfg, ticks, counters, brake_previous, brake_disarmed,
          brake_restore_failed, floor>>

Pressures == {"none", "warning", "critical"}

FlagTypes ==
    /\ nudged \in BOOLEAN
    /\ cgroup_defer_notified \in BOOLEAN
    /\ brake_engaged \in BOOLEAN
    /\ brake_disarmed \in BOOLEAN
    /\ brake_restore_failed \in BOOLEAN
    /\ asked_to_stop \in BOOLEAN

ValueTypes ==
    /\ cfg \in ConfigType
    /\ pc \in {"idle", "watch", "judge", "grace", "kill_wait", "emit"}
    /\ why \in {"nothing", "floor", "wedge", "unwind"}
    /\ proc \in {"none", "running", "stuck", "killed", "exited", "reaped"}
    /\ result \in {"none", "returned", "unreaped", "raised"}
    /\ ticks \in Nat
    /\ warning_streak \in Nat /\ none_streak \in Nat /\ critical_streak \in Nat
    /\ brake_previous \in 1..MaxHigh
    /\ leaf_high \in 1..MaxHigh
    /\ recent \in Seq(Pressures)
    /\ mem_terminated \subseteq {"nudge", "terminate"}
    /\ deferrals \in Nat
    /\ restore_lost \in Nat

(* Types, for every value of the constants.                                *)
TypeOK == FlagTypes /\ ValueTypes

SpawnInit ==
    /\ cfg \in Configs
    /\ pc = "idle" /\ why = "nothing" /\ proc = "none" /\ result = "none"
    /\ ticks = 0
    /\ warning_streak = 0 /\ none_streak = 0 /\ critical_streak = 0
    /\ nudged = FALSE /\ cgroup_defer_notified = FALSE
    /\ brake_engaged = FALSE /\ brake_previous = MaxHigh
    /\ brake_disarmed = FALSE /\ brake_restore_failed = FALSE
    /\ leaf_high = cfg.high
    /\ recent = <<>> /\ asked_to_stop = FALSE /\ mem_terminated = {}
    /\ deferrals = 0 /\ restore_lost = 0

-----------------------------------------------------------------------------
(* A call starts: Popen, fresh locals.  The previous leader may still be    *)
(* stuck in the kernel; it is no longer this call's.                        *)
Spawn ==
    /\ pc = "idle"
    /\ pc' = "watch" /\ why' = "nothing" /\ proc' = "running" /\ result' = "none"
    /\ ticks' = 0
    /\ warning_streak' = 0 /\ none_streak' = 0 /\ critical_streak' = 0
    /\ nudged' = FALSE /\ cgroup_defer_notified' = FALSE
    /\ brake_engaged' = FALSE /\ brake_previous' = MaxHigh
    /\ brake_disarmed' = FALSE /\ brake_restore_failed' = FALSE
    /\ recent' = <<>> /\ asked_to_stop' = FALSE /\ mem_terminated' = {}
    /\ deferrals' = 0
    /\ UNCHANGED <<cfg, leaf_high, restore_lost>>

(* restore_leaf_memory_high writes the stashed token back; the write may    *)
(* fail, which _release_brake reports and never raises.                     *)
RestoreOutcomes ==
    IF "write_fails" \in Hazards /\ restore_lost < RestoreFailures
      THEN {TRUE, FALSE} ELSE {TRUE}

(* The finally clause.  The stashed value is a local: a failed write is the *)
(* last anybody knows of it.                                                *)
RestoreBrake ==
    /\ brake_engaged' = FALSE
    /\ \/ ~brake_engaged /\ UNCHANGED <<leaf_high, restore_lost>>
       \/ /\ brake_engaged
          /\ \E ok \in RestoreOutcomes :
                /\ leaf_high' = IF ok THEN brake_previous ELSE leaf_high
                /\ restore_lost' = IF ok THEN restore_lost ELSE restore_lost + 1

Finally(outcome) == pc' = "idle" /\ result' = outcome /\ RestoreBrake

(* Leaving a part of the call that the finally clause has run for.         *)
Leave(outcome) ==
    /\ pc' = "idle" /\ result' = outcome
    /\ UNCHANGED <<brake_engaged, leaf_high, restore_lost>>

(* wait_exit reports an exit before it looks at any deadline.              *)
LeaderExits ==
    /\ pc = "watch" /\ proc = "exited"
    /\ proc' = "reaped"
    /\ Finally("returned")
    /\ UNCHANGED <<why, REST>>

(* _terminate_round starts with a SIGTERM to the leader.                   *)
Terminate(reason) == pc' = "grace" /\ why' = reason

(* Mutant: the wedged path forgets the brake.                              *)
DeadlineBraked ==
    /\ pc = "watch" /\ proc # "exited" /\ ticks = MaxTicks
    /\ Terminate("wedge")
    /\ UNCHANGED <<proc, result, brake_engaged, leaf_high, restore_lost, REST>>

(* The outer ceiling: out of the try, so the finally clause runs first and  *)
(* the wedged round is killed afterwards.                                   *)
Deadline ==
    /\ pc = "watch" /\ proc # "exited" /\ ticks = MaxTicks
    /\ Terminate("wedge")
    /\ RestoreBrake
    /\ UNCHANGED <<proc, result, REST>>

-----------------------------------------------------------------------------
(* One memory check: first the brake, then (Judge) the hard floor.         *)

Remember(p) ==
    LET s == Append(recent, p)
    IN  IF Len(s) > CriticalSamples THEN Tail(s) ELSE s

(* Release after WarningSamples healthy checks in a row; one failed attempt *)
(* is not repeated before the finally clause.                               *)
ReleaseDue ==
    /\ brake_engaged /\ ~brake_restore_failed
    /\ none_streak + 1 >= WarningSamples

EngageDue ==
    /\ cfg.brake /\ ~brake_disarmed /\ ~brake_engaged
    /\ warning_streak + 1 >= WarningSamples

(* engage_leaf_memory_high never loosens: it writes a target below the      *)
(* present value, or does nothing, or fails.                                *)
Engage ==
    \/ UNCHANGED <<brake, leaf_high>>
    \/ \E target \in 1..MaxHigh :
          /\ target < leaf_high
          /\ leaf_high' = target
          /\ brake_engaged' = TRUE /\ brake_previous' = leaf_high
          /\ UNCHANGED <<brake_disarmed, brake_restore_failed>>
    \/ /\ "write_fails" \in Hazards
       /\ brake_disarmed' = TRUE
       /\ UNCHANGED <<brake_engaged, brake_previous, brake_restore_failed, leaf_high>>

HealthyCheck ==
    /\ warning_streak' = 0 /\ none_streak' = none_streak + 1
    /\ \/ ~ReleaseDue /\ UNCHANGED <<brake, leaf_high>>
       \/ /\ ReleaseDue
          /\ leaf_high' = brake_previous
          /\ brake_engaged' = FALSE /\ brake_previous' = MaxHigh
          /\ UNCHANGED <<brake_disarmed, brake_restore_failed>>
       \/ /\ ReleaseDue /\ "write_fails" \in Hazards
          /\ brake_restore_failed' = TRUE
          /\ UNCHANGED <<brake_engaged, brake_previous, brake_disarmed, leaf_high>>

PressuredCheck ==
    /\ warning_streak' = warning_streak + 1 /\ none_streak' = 0
    /\ \/ ~EngageDue /\ UNCHANGED <<brake, leaf_high>>
       \/ EngageDue /\ Engage

MemCheck(p) ==
    /\ pc = "watch" /\ proc # "exited" /\ ticks < MaxTicks
    /\ pc' = "judge" /\ ticks' = ticks + 1
    /\ recent' = Remember(p)
    /\ \/ p = "none" /\ HealthyCheck
       \/ p # "none" /\ PressuredCheck
    /\ UNCHANGED <<cfg, why, proc, result, critical_streak, nudged,
                   cgroup_defer_notified, asked_to_stop, mem_terminated,
                   deferrals, restore_lost>>

(* _mid_round_action, with this sample counted in the streak.              *)
MidRoundAction(streak) ==
    IF cfg.in_round_terminate /\ streak >= CriticalSamples
      THEN IF cfg.defer_to_cgroup THEN "defer" ELSE "terminate"
    ELSE IF /\ cfg.in_round_nudge /\ ~nudged /\ streak = 1
            /\ cfg.in_round_terminate /\ ~cfg.defer_to_cgroup
      THEN "nudge"
    ELSE "count_only"

(* Mutant: a healthy sample does not end the streak.                       *)
JudgeOKSticky ==
    /\ pc = "judge" /\ recent[Len(recent)] # "critical"
    /\ pc' = "watch"
    /\ UNCHANGED <<cfg, why, proc, result, ticks, counters, brake, leaf_high,
                   floor, restore_lost>>

JudgeOK ==
    /\ pc = "judge" /\ recent[Len(recent)] # "critical"
    /\ pc' = "watch"
    /\ critical_streak' = 0 /\ cgroup_defer_notified' = FALSE /\ deferrals' = 0
    /\ UNCHANGED <<cfg, why, proc, result, ticks, warning_streak, none_streak,
                   brake, leaf_high, nudged, recent, asked_to_stop,
                   mem_terminated, restore_lost>>

JudgeCritical(action) ==
    /\ pc = "judge" /\ recent[Len(recent)] = "critical"
    /\ action = MidRoundAction(critical_streak + 1)
    /\ critical_streak' = critical_streak + 1
    /\ UNCHANGED <<cfg, proc, result, ticks, warning_streak, none_streak,
                   brake, leaf_high, recent, restore_lost>>

CountOnly ==
    /\ JudgeCritical("count_only")
    /\ pc' = "watch"
    /\ UNCHANGED <<why, nudged, cgroup_defer_notified, asked_to_stop,
                   mem_terminated, deferrals>>

(* Mutant: the nudge is not logged.                                        *)
NudgeSilent ==
    /\ JudgeCritical("nudge")
    /\ pc' = "watch" /\ nudged' = TRUE /\ asked_to_stop' = TRUE
    /\ UNCHANGED <<why, cgroup_defer_notified, mem_terminated, deferrals>>

(* A bare SIGTERM, no wait: the round is asked to wrap up.                 *)
Nudge ==
    /\ JudgeCritical("nudge")
    /\ pc' = "watch" /\ nudged' = TRUE
    /\ asked_to_stop' = TRUE /\ mem_terminated' = mem_terminated \cup {"nudge"}
    /\ UNCHANGED <<why, cgroup_defer_notified, deferrals>>

Defer ==
    /\ JudgeCritical("defer")
    /\ pc' = "watch" /\ cgroup_defer_notified' = TRUE
    /\ deferrals' = IF cgroup_defer_notified THEN deferrals ELSE deferrals + 1
    /\ UNCHANGED <<why, nudged, asked_to_stop, mem_terminated>>

FloorTerminates ==
    /\ JudgeCritical("terminate")
    /\ Terminate("floor")
    /\ asked_to_stop' = TRUE
    /\ UNCHANGED <<nudged, cgroup_defer_notified, mem_terminated, deferrals>>

-----------------------------------------------------------------------------
(* _terminate_round: SIGTERM, grace, killpg, a last wait.  The except       *)
(* clause may call it for a leader that is already reaped.                  *)

Terminated(code) ==
    /\ why # "unwind"
    /\ pc' = "emit" /\ result' = code
    /\ UNCHANGED <<brake_engaged, leaf_high, restore_lost>>

(* The leader is gone: return to the caller, or re-raise.                  *)
AfterTerminate(code) == Terminated(code) \/ (why = "unwind" /\ Finally("raised"))

GraceExit ==
    /\ pc \in {"grace", "kill_wait"} /\ proc \in {"exited", "reaped"}
    /\ proc' = "reaped"
    /\ AfterTerminate("returned")
    /\ UNCHANGED <<why, REST>>

(* SIGKILL ends anything at once but an uninterruptible sleep.             *)
KillPg ==
    /\ pc = "grace" /\ proc \in {"running", "stuck", "killed"}
    /\ pc' = "kill_wait"
    /\ proc' = IF proc = "running" THEN "exited" ELSE "killed"
    /\ UNCHANGED <<why, result, brake_engaged, leaf_high, restore_lost, REST>>

(* Mutant: the last wait has no deadline.                                  *)
UnreapedWaits == pc = "kill_wait" /\ proc = "killed" /\ UNCHANGED spawn_vars

Unreaped ==
    /\ pc = "kill_wait" /\ proc = "killed"
    /\ AfterTerminate("unreaped")
    /\ UNCHANGED <<why, proc, REST>>

(* The event of the termination, then the return.  The wedge path has run   *)
(* its finally clause already.                                              *)
EmitAndReturn ==
    /\ pc = "emit"
    /\ \/ /\ why = "floor" /\ mem_terminated' = mem_terminated \cup {"terminate"}
          /\ Finally(result)
       \/ /\ why = "wedge" /\ UNCHANGED mem_terminated
          /\ Leave(result)
    /\ UNCHANGED <<cfg, why, proc, ticks, counters, brake_previous, brake_disarmed,
                   brake_restore_failed, nudged, cgroup_defer_notified, recent,
                   asked_to_stop, deferrals>>

-----------------------------------------------------------------------------
(* Mutant: an exception leaves the round running.                          *)
RaiseOrphans ==
    /\ "raise" \in Hazards
    /\ pc \in {"watch", "judge"}
    /\ Finally("raised")
    /\ UNCHANGED <<why, proc, REST>>

(* An exception out of a sample or an emit (disk full): inside the try it   *)
(* unwinds through _terminate_round; on the wedge path it just propagates.  *)
Raise ==
    /\ "raise" \in Hazards
    /\ \/ /\ pc \in {"watch", "judge"} \/ (pc = "emit" /\ why = "floor")
          /\ Terminate("unwind")
          /\ UNCHANGED <<result, brake_engaged, leaf_high, restore_lost>>
       \/ /\ pc = "emit" /\ why = "wedge"
          /\ Leave("raised") /\ UNCHANGED why
    /\ UNCHANGED <<proc, REST>>

(* The round leader, on its own: it may finish at any time, hang in the     *)
(* kernel, or come out of there.                                            *)
LeaderFinishes ==
    /\ pc # "idle" /\ proc = "running"
    /\ proc' = "exited"
    /\ UNCHANGED <<why, pc, result, brake_engaged, leaf_high, restore_lost, REST>>

LeaderStuck ==
    /\ "d_state" \in Hazards
    /\ pc # "idle" /\ proc = "running"
    /\ proc' = "stuck"
    /\ UNCHANGED <<why, pc, result, brake_engaged, leaf_high, restore_lost, REST>>

LeaderUnstuck ==
    /\ pc # "idle" /\ proc \in {"stuck", "killed"}
    /\ proc' = IF proc = "killed" THEN "exited" ELSE "running"
    /\ UNCHANGED <<why, pc, result, brake_engaged, leaf_high, restore_lost, REST>>

Watcher ==
    \/ LeaderExits \/ Deadline
    \/ \E p \in Pressures : MemCheck(p)
    \/ JudgeOK \/ CountOnly \/ Nudge \/ Defer \/ FloorTerminates
    \/ GraceExit \/ KillPg \/ Unreaped \/ EmitAndReturn

Leader == LeaderFinishes \/ LeaderStuck \/ LeaderUnstuck

SpawnNext == Spawn \/ Watcher \/ Raise \/ Leader

SpawnSpec == SpawnInit /\ [][SpawnNext]_spawn_vars

-----------------------------------------------------------------------------
(* Whatever way a round ends (exit, floor, ceiling, exception), its brake   *)
(* is off when _spawn_round is left, unless the restoring write itself      *)
(* failed; and outside a brake the operator's value is in place.            *)
BrakeReleased ==
    restore_lost = 0 =>
        /\ pc = "idle" => leaf_high = cfg.high
        /\ ~brake_engaged => leaf_high = cfg.high

(* The soft-brake only ever tightens what the operator set, over any        *)
(* sequence of rounds and failed writes.                                    *)
BrakeNeverLoosens == leaf_high <= cfg.high

(* No round process is left behind: a call that returns an exit code has    *)
(* reaped its leader; otherwise (unreaped, raised) a leader that is left    *)
(* has at least a SIGKILL pending.                                          *)
NoOrphan ==
    pc = "idle" /\ result # "none" =>
        proc = "reaped" \/ (proc \in {"killed", "exited"} /\ result # "returned")

(* The hard floor acts on sustained pressure only: the last CriticalSamples *)
(* samples of this round were all critical, terminating is switched on and  *)
(* the kernel was not to do it.                                             *)
FloorNeedsSustained ==
    why = "floor" =>
        /\ cfg.in_round_terminate /\ ~cfg.defer_to_cgroup
        /\ Len(recent) = CriticalSamples
        /\ \A i \in 1..Len(recent) : recent[i] = "critical"

(* Leaving a round to the kernel is announced exactly once per episode of   *)
(* sustained pressure, and again in the next episode.                       *)
DeferReportedOnce ==
    deferrals = IF /\ cfg.in_round_terminate /\ cfg.defer_to_cgroup
                   /\ critical_streak >= CriticalSamples
                THEN 1 ELSE 0

(* round_mem_terminated, which excuses the round from the crash breaker, is *)
(* logged for a round exactly if the memory floor signalled it.             *)
MemTerminatedHonest ==
    pc = "idle" /\ result \in {"returned", "unreaped"} =>
        (asked_to_stop <=> mem_terminated # {})

(* Every round returns: the ceiling, the grace and the last wait bound it   *)
(* whatever the leader does.                                                *)
RoundReturns == (pc # "idle") ~> (pc = "idle")

(* The watcher runs; nothing is assumed of the leader or of the host.      *)
LiveSpec == SpawnSpec /\ WF_spawn_vars(Watcher)
=============================================================================
