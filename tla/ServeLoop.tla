----------------------------- MODULE ServeLoop -----------------------------
(***************************************************************************)
(* The `agent-runner serve` process (agent_runner/cli/serve_cmd.py, cmd)    *)
(* and the systemd unit that restarts it (agent_runner/service_unit.py).    *)
(*                                                                         *)
(* serve is one thread whose location is pc; every location ends at a read  *)
(* of something another party can change meanwhile: the stop flag (set by   *)
(* a signal handler), the stop file, the .agent-done sentinel, the host's   *)
(* memory pressure, the schedule windows, the transient throttles.  The     *)
(* events log is kept as the two facts serve reads back from it: the        *)
(* mem_loop timestamps and the active throttles.                            *)
(***************************************************************************)
EXTENDS ServePolicy, FiniteSets

CONSTANTS
    PhaseList,       \* [phases] list, in rotation order; one entry = no [phases]
    NoPhase,         \* phase_arg None: the round rotates by itself
    Configs,         \* configurations to explore (see ConfigType)
    Outcomes,        \* the outcomes a round can have
    StartLimitBurst, \* systemd starts allowed per interval
    Window,          \* _MEM_LOOP_PERSIST_WINDOW_S, in clock ticks
    MaxTime          \* bound on the clock

HazardType ==
    {"crash", "sigterm", "stop_unit", "stop_file", "done", "boot_fails",
     "memory", "windows", "throttle", "other_round", "time"}

ConfigType ==
    [policy : {"wait", "skip"},                  \* [phases] phase_policy
     action : {"back_off", "skip", "stop"},      \* transient_error_action
     phase_aware : BOOLEAN,                      \* _phase_aware(cfg)
     ignore_schedule : BOOLEAN, once : BOOLEAN,  \* command-line flags
     max_rounds : Nat,                           \* 0 = unlimited
     hazards : SUBSET HazardType]                \* which outside moves happen

Phases == {PhaseList[i] : i \in 1..Len(PhaseList)}

ASSUME ServeLoopAssumption ==
    /\ PhaseList \in Seq(Phases) /\ Len(PhaseList) > 0
    /\ NoPhase \notin Phases
    /\ Configs \subseteq ConfigType
    /\ \A c \in Configs : c.policy = "skip" => c.phase_aware
    /\ Outcomes \subseteq Outcome
    /\ StartLimitBurst \in Nat /\ Window \in Nat /\ MaxTime \in Nat

VARIABLES
    cfg,              \* configuration and scenario, fixed for the behaviour
    \* the serve process
    pc, stop, exit_code, rounds_completed,
    consecutive_crashes, consecutive_mem_terminations, consecutive_no_progress,
    gate_throttled,   \* throttled_phases: a snapshot taken at the gate
    phase,            \* phase_arg of the chosen round
    \* what outlives it on disk
    slot,             \* rotation index of next_round_num
    agent_done,       \* .agent-done exists
    mem_loop,         \* timestamps of the mem_loop events, oldest first
    \* systemd
    unit, stop_job, starts,
    \* the outside world
    stop_file, mem_critical, window_open, throttled, now,
    \* history
    stop_at,          \* where serve was when stop was first requested
    raced,            \* throttles other rounds detected since that snapshot
    done_written      \* a round left .agent-done and nobody honoured it yet

Hazards == cfg.hazards

streaks == <<consecutive_crashes, consecutive_mem_terminations,
             consecutive_no_progress>>
systemd == <<unit, stop_job, starts>>
world == <<stop_file, mem_critical, window_open, throttled, now>>
vars == <<cfg, pc, stop, exit_code, rounds_completed, streaks, gate_throttled, raced,
          phase, slot, agent_done, mem_loop, systemd, world, stop_at, done_written>>

Locations == {"down", "boot", "top", "gate", "back_off", "files", "select",
              "mem_pause", "sched_pause", "chosen", "spawn", "round", "delay",
              "exit"}

FlagTypes ==
    /\ stop \in BOOLEAN
    /\ agent_done \in BOOLEAN
    /\ stop_job \in BOOLEAN
    /\ stop_file \in BOOLEAN
    /\ mem_critical \in BOOLEAN
    /\ done_written \in BOOLEAN

ValueTypes ==
    /\ cfg \in ConfigType
    /\ pc \in Locations
    /\ exit_code \in ServeExitCodes
    /\ rounds_completed \in Nat
    /\ consecutive_crashes \in Nat
    /\ consecutive_mem_terminations \in Nat
    /\ consecutive_no_progress \in Nat
    /\ gate_throttled \subseteq Phases
    /\ raced \subseteq Phases
    /\ phase \in Phases \cup {NoPhase}
    /\ slot \in 1..Len(PhaseList)
    /\ mem_loop \in Seq(Nat)
    /\ unit \in {"inactive", "active", "auto_restart", "failed"}
    /\ starts \in 0..StartLimitBurst
    /\ window_open \subseteq Phases
    /\ throttled \subseteq Phases
    /\ now \in Nat
    /\ stop_at \in Locations

(* Types, for every value of the constants.                                *)
TypeOK == FlagTypes /\ ValueTypes

Init ==
    /\ cfg \in Configs
    /\ pc = "down" /\ stop = FALSE /\ exit_code = 0 /\ rounds_completed = 0
    /\ consecutive_crashes = 0
    /\ consecutive_mem_terminations = 0
    /\ consecutive_no_progress = 0
    /\ gate_throttled = {} /\ raced = {} /\ phase = NoPhase
    /\ slot = 1 /\ agent_done = FALSE
    /\ mem_loop = <<>>
    /\ unit = "inactive" /\ stop_job = FALSE /\ starts = 0
    /\ stop_file = FALSE /\ mem_critical = FALSE
    /\ window_open = Phases /\ throttled = {} /\ now = 0
    /\ stop_at = "down" /\ done_written = FALSE

-----------------------------------------------------------------------------
(* systemd: Restart=on-failure, RestartPreventExitStatus, StartLimitBurst.  *)

(* A fresh process; its memory is as ProcessGone left it.                  *)
StartProcess ==
    /\ pc' = "boot" /\ unit' = "active" /\ starts' = starts + 1
    /\ exit_code' = 0
    /\ UNCHANGED <<cfg, stop, rounds_completed, streaks, gate_throttled, raced, phase,
                   slot, agent_done, mem_loop, stop_job, world, stop_at>>

OperatorStart ==
    /\ unit \in {"inactive", "failed"} /\ pc = "down"
    /\ starts < StartLimitBurst
    /\ StartProcess
    /\ done_written' = FALSE

AutoRestart ==
    /\ unit = "auto_restart"
    /\ starts < StartLimitBurst
    /\ StartProcess
    /\ UNCHANGED done_written

(* The start limit turns a restart into a failed unit.                     *)
StartLimitHit ==
    /\ unit = "auto_restart"
    /\ starts >= StartLimitBurst
    /\ unit' = "failed"
    /\ UNCHANGED <<cfg, pc, stop, exit_code, rounds_completed, streaks,
                   gate_throttled, raced, phase, slot, agent_done, mem_loop, stop_job,
                   starts, world, stop_at, done_written>>

StartLimitReset ==
    /\ starts > 0
    /\ starts' = 0
    /\ UNCHANGED <<cfg, pc, stop, exit_code, rounds_completed, streaks,
                   gate_throttled, raced, phase, slot, agent_done, mem_loop, unit,
                   stop_job, world, stop_at, done_written>>

(* What systemd makes of a process that ended with this exit code.         *)
UnitAfter(code) ==
    IF code = 0 THEN "inactive"
    ELSE IF stop_job \/ code \in RESTART_PREVENT_EXIT_CODES THEN "failed"
    ELSE "auto_restart"

(* Everything serve keeps in memory is lost with it and starts over.       *)
ProcessGone ==
    /\ pc' = "down" /\ stop_job' = FALSE
    /\ stop' = FALSE /\ rounds_completed' = 0
    /\ consecutive_crashes' = 0
    /\ consecutive_mem_terminations' = 0
    /\ consecutive_no_progress' = 0
    /\ gate_throttled' = {} /\ raced' = {}
    /\ phase' = NoPhase /\ stop_at' = "down"
    /\ UNCHANGED <<cfg, exit_code, slot, agent_done, mem_loop, starts, world>>

(* cmd() returns exit_code.  Code 0 is a stop somebody asked for.          *)
Exit ==
    /\ pc = "exit"
    /\ unit' = UnitAfter(exit_code)
    /\ done_written' = (done_written /\ exit_code # 0)
    /\ ProcessGone

(* serve dies: OOM kill, an exception out of cmd().  KillMode=mixed takes   *)
(* the round with it.  Not in RestartPreventExitStatus, so systemd restarts.*)
Crash ==
    /\ "crash" \in Hazards
    /\ pc # "down"
    /\ unit' = IF stop_job THEN "failed" ELSE "auto_restart"
    /\ UNCHANGED done_written
    /\ ProcessGone

-----------------------------------------------------------------------------
(* The serve process.                                                      *)

SERVE_FRAME == <<cfg, systemd, world, done_written>>

Goto(l) ==
    /\ pc' = l
    /\ UNCHANGED <<stop, exit_code, rounds_completed, streaks, gate_throttled, raced,
                   phase, slot, agent_done, mem_loop, stop_at, SERVE_FRAME>>

(* Start-up down to the loop; _prepare_loop removes a stale sentinel.      *)
Boot ==
    /\ pc = "boot"
    /\ pc' = "top"
    /\ agent_done' = FALSE
    /\ UNCHANGED <<stop, exit_code, rounds_completed, streaks, gate_throttled, raced,
                   phase, slot, mem_loop, stop_at, SERVE_FRAME>>

(* A config that does not load, _prepare_loop's OSError or ValueError, a    *)
(* phase-window overlap: 78, before or after the sentinel was removed.      *)
BootFails ==
    /\ "boot_fails" \in Hazards
    /\ pc = "boot"
    /\ pc' = "exit" /\ exit_code' = PERMANENT_CONFIG_EXIT
    /\ agent_done' \in {agent_done, FALSE}
    /\ UNCHANGED <<stop, rounds_completed, streaks, gate_throttled, raced,
                   phase, slot, mem_loop, stop_at, SERVE_FRAME>>

(* `while not stop` and the .agent-done sentinel.                          *)
Top ==
    /\ pc = "top"
    /\ Goto(IF stop \/ agent_done THEN "exit" ELSE "gate")

(* _skip_around: route around throttled phases instead of waiting.         *)
SkipAround == cfg.policy = "skip" /\ ~cfg.ignore_schedule

(* Where serve is between the snapshot and the round chosen by it.         *)
GateToSpawn == {"files", "select", "chosen", "spawn"}

(* Mutant: the snapshot is taken once, on an earlier pass.                 *)
SkipGateStale == pc = "gate" /\ SkipAround /\ Goto("files")

(* _throttle_skip_context takes the snapshot selection will use.           *)
SkipGate ==
    /\ pc = "gate" /\ SkipAround
    /\ pc' = "files"
    /\ gate_throttled' = throttled /\ raced' = {}
    /\ UNCHANGED <<stop, exit_code, rounds_completed, streaks, phase, slot,
                   agent_done, mem_loop, stop_at, SERVE_FRAME>>

(* _gate_throttle.  The scalar view it reads is the newest transient event  *)
(* of any agent, so a sibling's recovery can hide an active throttle.       *)
ThrottleGate ==
    /\ pc = "gate" /\ ~SkipAround
    /\ \/ throttled # Phases /\ Goto("files")
       \/ throttled # {} /\ Goto(IF cfg.action = "back_off" THEN "back_off"
                                ELSE IF cfg.action = "stop" THEN "exit"
                                ELSE "files")

(* _apply_back_off sleeps to the deadline and emits recovered; a stop that  *)
(* lands in the last nap is not seen.                                       *)
BackOffDone ==
    /\ pc = "back_off"
    /\ pc' = "files"
    /\ throttled' \in {throttled \ {p} : p \in Phases}
    /\ UNCHANGED <<stop, exit_code, rounds_completed, streaks, gate_throttled, raced,
                   phase, slot, agent_done, mem_loop, stop_at, cfg, systemd,
                   stop_file, mem_critical, window_open, now, done_written>>

BackOffInterrupted ==
    /\ pc = "back_off"
    /\ stop \/ stop_file
    /\ Goto("exit")

(* The stop file, then max_rounds.                                         *)
Files ==
    /\ pc = "files"
    /\ Goto(IF \/ stop_file
               \/ cfg.max_rounds # 0 /\ rounds_completed >= cfg.max_rounds
            THEN "exit" ELSE "select")

(* rotation_index and candidate_phases: position i of the rotation.        *)
Rotation(i) ==
    PhaseList[IF slot + i <= Len(PhaseList) THEN slot + i
                                            ELSE slot + i - Len(PhaseList)]

CandidatePositions == IF cfg.policy = "skip" THEN 0..(Len(PhaseList) - 1) ELSE {0}

CandidatePhases == {Rotation(i) : i \in CandidatePositions}

Runnable(p) == p \in window_open /\ p \notin gate_throttled

(* select_phase: the first runnable candidate of the rotation.             *)
Selected(i) ==
    /\ i \in CandidatePositions
    /\ Runnable(Rotation(i))
    /\ \A j \in CandidatePositions : j < i => ~Runnable(Rotation(j))

(* Some candidate's window is open; without phase-aware scheduling there is *)
(* one window for all, the global [schedule].                               *)
SomeWindow ==
    IF cfg.phase_aware THEN \E p \in CandidatePhases : Runnable(p)
                       ELSE window_open = Phases

(* _select_and_gate, memory first: --ignore-schedule does not bypass it.   *)
DeferRound == pc = "select" /\ mem_critical /\ Goto("mem_pause")

Choose(p) ==
    /\ pc' = "chosen"
    /\ phase' = p
    /\ UNCHANGED <<stop, exit_code, rounds_completed, streaks, gate_throttled, raced,
                   slot, agent_done, mem_loop, stop_at, SERVE_FRAME>>

IgnoreSchedule ==
    /\ pc = "select" /\ ~mem_critical /\ cfg.ignore_schedule
    /\ Choose(NoPhase)

(* The legacy path: the round rotates by itself, no --phase.               *)
SelectLegacy ==
    /\ pc = "select" /\ ~mem_critical /\ ~cfg.ignore_schedule
    /\ ~cfg.phase_aware /\ SomeWindow
    /\ Choose(NoPhase)

SelectPhase ==
    /\ pc = "select" /\ ~mem_critical /\ ~cfg.ignore_schedule
    /\ cfg.phase_aware
    /\ \E i \in 0..(Len(PhaseList) - 1) : Selected(i) /\ Choose(Rotation(i))

(* All candidates blocked, some by a throttle, and the action is stop.     *)
RateLimitStop ==
    /\ pc = "select" /\ ~mem_critical /\ ~cfg.ignore_schedule
    /\ ~SomeWindow
    /\ gate_throttled # {} /\ cfg.action = "stop"
    /\ pc' = "top" /\ stop' = TRUE
    /\ stop_at' = IF stop THEN stop_at ELSE pc
    /\ UNCHANGED <<exit_code, rounds_completed, streaks, gate_throttled, raced,
                   phase, slot, agent_done, mem_loop, SERVE_FRAME>>

PauseForSchedule ==
    /\ pc = "select" /\ ~mem_critical /\ ~cfg.ignore_schedule
    /\ ~SomeWindow
    /\ ~(gate_throttled # {} /\ cfg.action = "stop")
    /\ Goto("sched_pause")

(* Mutant: the poll does not look at the stop flag.                        *)
PausePollDeaf(runnable) == runnable \/ stop_file

(* _pause_poll ends a pause when the predicate holds (a stop that lands     *)
(* after the loop test is not seen), or when a stop or the stop file cuts   *)
(* it short.  Either way the loop starts again at its top.                  *)
PausePoll(runnable) == runnable \/ stop \/ stop_file

MemPauseEnds ==
    /\ pc = "mem_pause"
    /\ PausePoll(~mem_critical)
    /\ Goto("top")

(* Mutant: a pause for throttled phases waits for a window to open.        *)
SelectableByWindow == SomeWindow

(* The throttled candidates wake on their earliest reset, not on a window. *)
Selectable ==
    \/ \E p \in gate_throttled : p \notin throttled
    \/ SomeWindow

SchedPauseEnds ==
    /\ pc = "sched_pause"
    /\ PausePoll(Selectable)
    /\ Goto("top")

(* Mutant: no test of the flag between selection and spawn.                *)
CheckStopUntested == pc = "chosen" /\ Goto("spawn")

(* `if stop: break` after selection, then the round is spawned.            *)
CheckStop ==
    /\ pc = "chosen"
    /\ Goto(IF stop THEN "exit" ELSE "spawn")

(* Mutant: the rotation does not advance.                                   *)
NextSlotStuck == slot

NextSlot == IF slot = Len(PhaseList) THEN 1 ELSE slot + 1

(* _spawn_round opens round-N.log, which is what advances next_round_num.  *)
Spawn ==
    /\ pc = "spawn"
    /\ pc' = "round"
    /\ slot' = NextSlot /\ raced' = {}
    /\ UNCHANGED <<stop, exit_code, rounds_completed, streaks, gate_throttled,
                   phase, agent_done, mem_loop, stop_at, SERVE_FRAME>>

(* _ran_agent_throttled: the agent that ran, or any when serve cannot know. *)
RanAgentThrottled ==
    IF phase = NoPhase THEN throttled # {} ELSE phase \in throttled

(* Mutant: an event on the window's edge is not counted.                   *)
MemLoopsInOpenWindow ==
    Cardinality({i \in 1..Len(mem_loop) : mem_loop[i] > now - Window})

(* mem_loop_events_in_window.                                              *)
MemLoopsInWindow ==
    Cardinality({i \in 1..Len(mem_loop) : mem_loop[i] >= now - Window})

(* The round returned: _round_scan, post_round_verdicts, and the loop's     *)
(* own break on a verdict, --once or a stop.  The verdict comes first.      *)
RoundEnds(o) ==
    /\ pc = "round"
    /\ ~o.mem => (o.throttled <=> RanAgentThrottled)
    /\ rounds_completed' = IF cfg.max_rounds = 0 THEN 0 ELSE rounds_completed + 1
    /\ consecutive_crashes' = CrashStreak(o, consecutive_crashes)
    /\ consecutive_mem_terminations' = MemStreak(o, consecutive_mem_terminations)
    /\ consecutive_no_progress' = NoProgressStreak(o, consecutive_no_progress)
    /\ exit_code' = Verdict(o, consecutive_crashes', consecutive_mem_terminations',
                            consecutive_no_progress', MemLoopsInWindow)
    /\ mem_loop' = IF exit_code' = MEM_LOOP_EXIT THEN Append(mem_loop, now)
                                                 ELSE mem_loop
    /\ pc' = IF exit_code' # 0 \/ cfg.once \/ stop THEN "exit" ELSE "delay"
    /\ UNCHANGED <<stop, gate_throttled, raced, phase, slot, agent_done, stop_at,
                   SERVE_FRAME>>

(* _interruptible_sleep: over or cut short, the loop top decides.          *)
DelayEnds == pc = "delay" /\ Goto("top")

-----------------------------------------------------------------------------
(* Everybody else.                                                         *)

(* The handler is armed during boot.                                       *)
Signalled(job) ==
    /\ pc # "down"
    /\ stop' = TRUE /\ stop_job' = job
    /\ stop_at' = IF stop THEN stop_at ELSE pc
    /\ UNCHANGED <<cfg, pc, exit_code, rounds_completed, streaks,
                   gate_throttled, raced, phase, slot, agent_done, mem_loop, unit, starts,
                   world, done_written>>

Sigterm == "sigterm" \in Hazards /\ Signalled(stop_job)

(* systemctl stop: a stop job, so no restart whatever the exit code.       *)
StopUnit == "stop_unit" \in Hazards /\ Signalled(TRUE)

(* Before the handler is armed SIGTERM ends the process, which systemd      *)
(* counts as a clean exit.                                                  *)
SigtermDuringBoot ==
    /\ Hazards \cap {"sigterm", "stop_unit"} # {}
    /\ pc = "boot"
    /\ unit' = "inactive"
    /\ UNCHANGED done_written
    /\ ProcessGone

SERVE_OUTSIDE == <<cfg, pc, stop, stop_at, rounds_completed, streaks, exit_code,
                   gate_throttled, phase, slot, mem_loop, stop_job, starts>>

OUTSIDE_FRAME == <<SERVE_OUTSIDE, raced>>

StopUnitBetweenStarts ==
    /\ "stop_unit" \in Hazards
    /\ unit = "auto_restart" /\ unit' = "inactive"
    /\ UNCHANGED <<OUTSIDE_FRAME, agent_done, world, done_written>>

(* The agent asks for the end of the run from inside its round.            *)
AgentWritesDone ==
    /\ "done" \in Hazards
    /\ pc = "round" /\ ~agent_done
    /\ agent_done' = TRUE /\ done_written' = TRUE
    /\ UNCHANGED <<OUTSIDE_FRAME, unit, world>>

(* The round's plugins record transient_error_detected for its agent.      *)
AgentThrottled ==
    /\ "throttle" \in Hazards
    /\ pc = "round"
    /\ \E p \in IF phase = NoPhase THEN Phases ELSE {phase} :
          throttled' = throttled \cup {p}
    /\ UNCHANGED <<OUTSIDE_FRAME, unit, agent_done,
                   stop_file, mem_critical, window_open, now, done_written>>

(* So does the plugin of any other round on the same log_dir, run by hand   *)
(* or left behind by an earlier serve, for its own agent and at any moment. *)
OtherRoundThrottled ==
    /\ "other_round" \in Hazards
    /\ \E p \in Phases :
          /\ throttled' = throttled \cup {p}
          /\ raced' = IF SkipAround /\ pc \in GateToSpawn THEN raced \cup {p}
                                                           ELSE raced
    /\ UNCHANGED <<SERVE_OUTSIDE, unit, agent_done,
                   stop_file, mem_critical, window_open, now, done_written>>

ThrottleResets ==
    /\ \E p \in throttled : throttled' = throttled \ {p}
    /\ UNCHANGED <<OUTSIDE_FRAME, unit, agent_done,
                   stop_file, mem_critical, window_open, now, done_written>>

ToggleStopFile ==
    /\ "stop_file" \in Hazards
    /\ stop_file' = ~stop_file
    /\ UNCHANGED <<OUTSIDE_FRAME, unit, agent_done,
                   throttled, mem_critical, window_open, now, done_written>>

MemoryMoves ==
    /\ "memory" \in Hazards
    /\ mem_critical' = ~mem_critical
    /\ UNCHANGED <<OUTSIDE_FRAME, unit, agent_done,
                   throttled, stop_file, window_open, now, done_written>>

WindowsMove ==
    /\ "windows" \in Hazards
    /\ window_open' \in SUBSET Phases
    /\ UNCHANGED <<OUTSIDE_FRAME, unit, agent_done,
                   throttled, stop_file, mem_critical, now, done_written>>

Tick ==
    /\ "time" \in Hazards
    /\ now < MaxTime
    /\ now' = now + 1
    /\ UNCHANGED <<OUTSIDE_FRAME, unit, agent_done,
                   throttled, stop_file, mem_critical, window_open, done_written>>

-----------------------------------------------------------------------------
RoundReturns == \E o \in Outcomes : RoundEnds(o)

(* serve's own steps between rounds.                                       *)
Serve ==
    \/ Boot \/ BootFails \/ Top \/ SkipGate \/ ThrottleGate
    \/ BackOffDone \/ BackOffInterrupted \/ Files
    \/ DeferRound \/ IgnoreSchedule \/ SelectLegacy \/ SelectPhase
    \/ RateLimitStop \/ PauseForSchedule \/ MemPauseEnds \/ SchedPauseEnds
    \/ CheckStop \/ Spawn \/ DelayEnds \/ Exit

Starts == OperatorStart \/ AutoRestart

Outside ==
    \/ StartLimitHit \/ StartLimitReset \/ StopUnitBetweenStarts
    \/ Sigterm \/ StopUnit \/ SigtermDuringBoot \/ Crash
    \/ AgentWritesDone \/ AgentThrottled \/ OtherRoundThrottled \/ ThrottleResets
    \/ ToggleStopFile \/ MemoryMoves \/ WindowsMove \/ Tick

Next == Serve \/ RoundReturns \/ Starts \/ Outside

Spec == Init /\ [][Next]_vars
(***************************************************************************)
(* Properties.                                                             *)
(***************************************************************************)

(* A stop request keeps the next round from starting: serve can only be at *)
(* or past the spawn if the request landed there, after the last test of    *)
(* the flag (cmd, `if stop["requested"]: break`).                           *)
NoRoundAfterStop ==
    stop /\ pc \in {"spawn", "round"} => stop_at \in {"spawn", "round"}

(* The window can never hold MEM_LOOP_PERSIST_THRESHOLD restartable         *)
(* mem_loop exits: across any number of restarts the loop converges to the  *)
(* persistent stop (post_round_verdicts' cross-restart escalation).         *)
MemLoopConverges ==
    \A i, j \in 1..Len(mem_loop) :
        j >= i + MEM_LOOP_PERSIST_THRESHOLD - 1
            => mem_loop[j] - mem_loop[i] > Window

(* With phase_policy = "skip" a round is launched for a phase whose agent   *)
(* is throttled at that moment only when a round other than serve's own     *)
(* detected it since the gate took the snapshot selection works on: every   *)
(* throttle known by then, from any round of any serve, is routed around.   *)
RoutesAroundThrottles ==
    SkipAround /\ pc \in {"chosen", "spawn"} /\ phase \in throttled
        => phase \in raced

(* Why: between the gate and the spawn only another round can add a         *)
(* throttle to those the snapshot holds, the chosen phase is outside the    *)
(* snapshot, and the back-off, which bypasses it, is the other regime's.    *)
SnapshotCovers ==
    /\ SkipAround /\ pc \in GateToSpawn => throttled \subseteq gate_throttled \cup raced
    /\ SkipAround /\ pc \in {"chosen", "spawn"} => phase \notin gate_throttled
    /\ pc = "back_off" => ~SkipAround

(* The mem_loop events are in time order and none is in the future: what    *)
(* counting the window relies on.                                           *)
MemLogOrdered ==
    \A i, j \in 1..Len(mem_loop) :
        i <= j => mem_loop[i] <= mem_loop[j] /\ mem_loop[j] <= now

(* A round that wrote .agent-done is the last one ("Supervisor detects      *)
(* between rounds and exits cleanly with code 0").                          *)
SentinelHonoured ==
    [][pc = "spawn" /\ pc' = "round" => ~done_written]_vars

-----------------------------------------------------------------------------
(* Fairness: serve takes its own steps, a round ends (outer_round_ceiling_s *)
(* bounds it), systemd restarts.  Nothing is assumed of the outside world.  *)
LiveSpec ==
    /\ Spec
    /\ WF_vars(Serve)
    /\ WF_vars(RoundReturns)
    /\ WF_vars(AutoRestart \/ StartLimitHit)

(* A requested stop always ends the process, from inside any pause.        *)
StopHonoured == (stop /\ pc # "down") ~> (pc = "down")

(* When windows stay open, memory stays fine and throttles stay reset, no   *)
(* pause lasts forever.                                                     *)
PausesEnd ==
    <>[](window_open = Phases /\ ~mem_critical /\ throttled = {})
        => []<>(pc \notin {"mem_pause", "sched_pause"})

(* Under phase_policy = "skip" a phase that stays runnable keeps getting    *)
(* rounds for as long as serve stays up, whatever its siblings do.          *)
NoPhaseStarves ==
    \A p \in Phases :
        (/\ SkipAround
         /\ <>[](p \in window_open /\ p \notin throttled /\ ~mem_critical))
            => []<>(pc = "down" \/ (pc = "round" /\ phase = p))
=============================================================================
