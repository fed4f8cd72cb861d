# A TLA+ model of agent-runner

agent-runner supervises a command-line coding agent: `agent-runner serve` runs the
agent in *rounds*, one child process per round, for weeks, and decides after each
round whether to continue, pause, delay or give up. These modules model the part of
it where a mistake costs most and is hardest to test: the supervising loop, the
policy by which it gives up, the watcher of a running round, the round with its
number, its stashes and its bookkeeping, the call that runs the agent and ends it,
the processes, locks and verbs (`start`, `stop`, `kill`, `restart`) around it, the
throttles it reads back from its log, the monitor that watches it, the event stream
that others follow, and the example scripts that act between two rounds.

Paths below are relative to `src/`. `PROJECT.json` maps every definition to the
lines it models, lists the runs, mutants, hazards, findings and theorems.

## 1. Inventory

| component | state it keeps | operations | interacts with |
|---|---|---|---|
| serve loop (`agent_runner/cli/serve_cmd.py`, `_serve_round.py`) | stop flag, three streak counters, the gate's throttle snapshot; on disk: next round number, `.agent-done`, the events log | boot, gates, pauses, phase selection, spawn, verdicts, delay, exit | signals, stop file, systemd (exit code), round watcher |
| give-up policy (`_serve_policy.py`, `_round_outcome.py`) | none: pure functions of the counters and the round's outcome | crash_loop, mem_loop, stalled_no_progress, config_broken | serve loop, events log |
| round watcher (`cli/_serve_round.py:_spawn_round`, `_serve_cgroup.py`, `_procwait.py`, `metrics.py`) | deadline, pressure streaks, nudge and defer flags, brake; the leaf cgroup's `memory.high` | wait, memory check, soft brake, nudge, defer, hard floor, wedge, restore | the round leader's process group, the kernel |
| service control (`_lifecycle.py`, `lifecycle.py`, `cli/serve_cmd.py`, `runner.py`) | `serve.lock`, `serve.pid`, the round lock and its `.holder` sidecar | start, stop, kill, restart (with `--force`), lock/pid life cycle of serve and round | all processes, systemd |
| systemd units (`service_unit.py`) | unit state | Restart, RestartPreventExitStatus, StartLimitBurst, KillMode=mixed | serve's exit code |
| transient throttle (`_throttle.py`, `_round_outcome.py`) | none: read back from the newest two monthly event files | detect, climb the ladder of resets, skip or back off, recover | gates of the serve loop, rounds of any process |
| round runner (`runner.py`, `vcs_state.py`, `context_store.py`, `round_log.py`) | round lock, `status.json`, `orphan-state.json`, `round-<n>.log`, the git stash | one round: battery, lock, number, note of the last stash, agent, dirty tree, status, `round_end` | serve (number in the environment), users, git, agent runtime |
| agent runtime (`agent_runtime.py`) | agent process group, deadlines, result marker seen, orphan reported | run, time out, grace kill, reap, container stop, stray sweep | round_cmd's SIGTERM handler, the round watcher |
| monitor (`_observe.py`, `monitor.py`, `_monitor_state.py`) | offsets and buffer of its tail, the episodes it has acted on | poll, alert, auto-stop, re-arm | events log, metrics, verbs |
| detectors (`_monitor_detectors.py`, `host_health.py`) | none: functions of events, samples and time | twelve detectors | monitor |
| phase selection and schedule (`phase_select.py`, `schedule.py`) | none | rotation, windows | serve loop |
| event log (`events.py`, `event_log.py`) | monthly files | emit, seed, replay, follow | every process |
| doorbell (`_notify.py`) | a FIFO per listener | ring, listen, unlink | emit, every bounded wait |
| `events --tail` and the remote relay (`cli/events_cmd.py`, `remote_relay.py`) | offsets; the resume point, the outage's start | replay, follow; spawn ssh, relay, back off, give up | event log, doorbell, the link |
| outer-loop scripts (`examples/outer_loop/*`, `examples/between_rounds`) | what they remember of the serve they watch; the files they write | poll, decide, write in the gap after a round | serve.pid, events log, stop file, prompt |
| goal checks, configuration, migrations, agent plugins, upgrade, installer, documentation generator | - | - | see "Not modelled" |

The behaviours that are hard here are not in any single function. A stop request
(signal, stop file, sentinel) can land between any two lines of the loop. State
outlives a process: the pid file, the sidecar, `.agent-done`, the events log and
`memory.high` are all read by a later process than the one that wrote them. serve
is restarted by systemd under a policy that depends on the exit code, so
termination arguments span lifetimes. Two timers (grace periods, ceilings) race
with a process that may exit at any moment or not even die of SIGKILL. And the
verbs read a file once and act on it afterwards. Whoever reads the events log
reads a file that several processes append to, that changes its name each month,
and whose newest line may be older than it looks.

What makes each part correct, in a sentence:

- serve loop: no round after a stop, every stop is honoured, no pause outlasts
  its cause, no phase starves, nothing throttled is launched;
- policy: counters equal the runs of rounds they count, no give-up is late, and
  restarts cannot go on for ever;
- watcher: every round returns, no process or memory limit is left behind, and
  pressure ends a round only when it is sustained and is reported when it does;
- agent runtime: however a round ends and however often it is interrupted, the
  agent and what it started end with it, within bounded time;
- round runner: no number is used twice and no log overwritten, work an agent left
  behind is kept and announced, and a round that ends leaves its books in order;
- service control: the files name the processes that run, a graceful verb never
  cuts a round short, a forced one leaves no round behind, restart comes back;
- throttle: no agent is tried before its reset, a recovery is announced once per
  throttle, and all readers of the log agree on who is throttled;
- monitor: its tail is complete, each episode is acted on once, a dead supervisor
  is reported, and a stop is recorded as what it turned out to be;
- event stream: no wake is lost, replay and follow meet exactly, the relay resumes
  where it stopped and gives up no sooner than it may;
- outer-loop scripts: they write between rounds, for a reason that is real, once,
  and in time.

## 2. Modules

| module | models | composes |
|---|---|---|
| `ServePolicy` | `_serve_policy.py`, `post_round_verdicts`: streaks, precedence, exit codes | - |
| `ServeLoop` | `cmd()` of `serve_cmd.py` location by location, with systemd and the outside world | `ServePolicy` |
| `GiveUpContract` | abstract: what the breakers promise, over the history of outcomes, without counters | `ServePolicy` |
| `ServeHistory` | `ServeLoop` plus the history of outcomes; implements `GiveUpContract` | `ServeLoop`, `GiveUpContract` |
| `SpawnRound` | `_spawn_round`, `_terminate_round`, `_mid_round_action`, the soft brake | - |
| `AgentRun` | `agent_runtime.run`, `_terminate_agent`, `_kill_pgroup` and the round's SIGTERM handler | - |
| `RoundRunner` | `run_one_round`, round numbers, the dirty-tree policy of `vcs_state.py` | - |
| `ServiceControl` | serve processes, round children, locks, pid file, sidecar, verbs, unit | - |
| `Throttle` | `_throttle.py`, the fold of `_round_outcome.py`, serve's two throttle gates | - |
| `Detectors` | `_monitor_detectors.py`, `host_health.py` | - |
| `Monitor` | `_observe._monitor_loop_iter`, `monitor.on_alert`, `_EventTail`, and the serve they watch | `Detectors` |
| `EventStream` | `events.emit`, `_notify.py`, `event_log.py`, `events --tail`, `remote_relay.py` | - |
| `GapLog` | what the outer-loop scripts share: the windows, the reading of the log | - |
| `SpendCeiling`, `ToolAllow`, `RepeatFail`, `RsiExam`, `SerialDiscard`, `Karpathy` | one script each: preflight, decision, write | `GapLog` |
| `CourseWriters`, `PlainWatchers` | `ace` and `rsi_agent`; `ralph`, `longhorizon` and `between_rounds` | `GapLog` |
| `OuterLoop` | one script beside a serve that runs rounds, crashes, gives up and is started again | the script modules |
| `*Proofs` | theorems about the module they extend; `WatcherProofs` about both watchers of a round, `SpawnRound` and `Monitor` | TLAPS |
| `MC*` | constants for TLC | the module they extend |

**ServeLoop.** `pc` is the location of the single serve thread. Each location ends at
a read of something others change, so each action is the code between two such reads:
`Top` is the `while` test and the sentinel, `SkipGate`/`ThrottleGate` the throttle
gate, `Files` the stop file and `max_rounds`, the `select` actions
`_select_and_gate`, `CheckStop` the last test before `_spawn_round`, `RoundEnds`
everything from the return of `_spawn_round` to the end of the iteration. The events
log is reduced to what serve reads back: the times of the `mem_loop` events and the
set of throttled phases, to which a round of any other process on the same `log_dir`
may add at any moment (`OtherRoundThrottled`); `raced` records those that come after
serve's snapshot. A round's outcome is a record with the five facts the policy
distinguishes. Memory, windows, throttles, the stop file, the sentinel, signals and
crashes move on their own; the scenario, which of them do, is part of `cfg`, so that
one run covers several. `RoundEnds` relates the outcome to the throttles that are
active, so an impossible combination is never explored.

**SpawnRound.** One behaviour is a series of rounds over one leaf cgroup. Time is
counted in memory checks. A check ends in `judge`, where the sample has been
recorded and the action is about to be taken, so that an exception can land
between the two. The leader runs, exits, hangs in the kernel (`stuck`) or has a
SIGKILL pending in it (`killed`). The brake's target is any value below the
present limit: what the code guarantees of `_engage_target` is only that.

**AgentRun.** `pc` is where `run()` is: the poll loop, or one of the steps of
`_kill_pgroup` (`snapshot`, `signal`, `grace`, `kill`, `strays`, `reap`) and
`_terminate_agent` (`stop`, `report`); `why` is the call site it returns to. The
agent runs, is in uninterruptible sleep (`stuck`), has a SIGKILL pending there
(`killed`), has exited (`zombie`) or has been waited for (`reaped`); each
descendant is in the agent's group, detached, or dead, and can be found only while
the agent is alive. A SIGTERM is an exception at the place it lands: the
`Sigterm...` actions differ by whether run()'s handler, its shielded waits or
nobody catches it. `cut` records what an interrupted reap never reached, so that
the properties can name the windows they except. Deadlines may pass at any moment.

**RoundRunner.** Rounds are processes over one `log_dir` and one work tree. serve
computes a number (`ServeNumbers`), may pause, and spawns with it; a round started by
hand takes its number under the lock. `pc[p]` is the next thing a round reads or
writes; the locals of `_run_one_round_inner` are single variables because only the
lock's holder has any. A changed file is a fresh number, the files of a `log_dir`
inside the tree are the one path `LogPath` (listed as dirty, never stashed), a stash
is its position in `stash`. `cfg.hazards` says what goes wrong in a configuration:
rounds by hand, a serve that dies and leaves its round, aborts, a lost `status.json`,
git calls that fail or exceed their limit.

**ServiceControl.** A process identity is a pid with its start time. `serve` and
`round` give each process's location between boot and exit; the flocks die with
their holder, the files do not. A verb is a small program (`vpc`) of the calls in
`_lifecycle.py`, one at a time, and each of its bounded waits may end at any
moment. `UnitAfter` and `LeftInCgroup` are systemd's reading of the rendered
unit. systemd itself is external and modelled from the unit text and the
commands the code issues: it may refuse a start (`StartRefused`: the start limit, a
job that fails), and a call of `systemctl` may raise out of a verb (`SystemctlFails`).

**Throttle.** The only state is the log: who is throttled, until when and how far
the ladder has climbed are operators over its newest two files, translated one by
one from the scans of `_throttle.py`. serve's skip path reads the log twice (the
map, then `pending_recovered`) and emits afterwards, so these are three actions
and a foreign round may append between them; the back-off regime sleeps and emits
its own breadcrumb. `DueAt`, in the properties, is the reference: when the whole
history allows another try. Times are small integers; a month turn moves the
events so far into the older file, a clock correction moves `now`.

**Detectors, Monitor.** Each detector is an operator from the buffer, the samples
and the time to at most one alert. `rate_limit_active` is in `Throttle`, with the
state it reads. A poll is one action (`Poll`) up to the list of alerts; each alert
is handled by itself (`Suppress`, `RecordOnly`, `StopService`/`StopReturns`),
because a stop takes time in which serve may drain. serve appears as what its
events and its process show. What goes wrong in a behaviour is fixed by a
`Scenario`.

**EventStream.** `Emits` is a writer in `emit`: the stamp, the append, and ring's
three system calls per FIFO. `Tails` is one `events --tail` at the far end of an
ssh connection, from `mkfifo` to its wait, `Relays` the process on the near end.
An event is its identity and timestamp. Both months' files exist as sequences; the
month a tail takes for the current one is read once, before the files are listed.
`TailEnds` loses what was on the wire and may leave the FIFO behind without a reader.

**OuterLoop.** A script is a pure decision from a view of the disk (`View`) to a
write, in a module of its own; `OuterLoop` gives it a serve (`phase`, `pidfile`,
`log`), lets it poll, decide and write in separate steps, and lets anything happen
between them. `results` is what the rounds really left; the log is what the script
can see of it, which lags.

## 3. Runs

Twelve runs: ten pass, two violate what the repository documents
(section 6).

| run | checks | shows |
|---|---|---|
| `serve_verdicts` | `StreaksMatchHistory`, `MemLoopConverges`, `ImplementsContract` | with every mix of outcomes, crashes, stop jobs, failing boots and passing time, counters equal the runs of rounds, `mem_loop` restarts converge, and the loop implements the contract |
| `serve_gates` | `NoRoundAfterStop`, `RoutesAroundThrottles`, `StopHonoured`, `PausesEnd`, `NoPhaseStarves` | stops, memory, windows, throttles (serve's own and other rounds'), the stop file and the sentinel in every order |
| `spawn_round` | `BrakeReleased`, `NoOrphan`, `FloorNeedsSustained`, `MemTerminatedHonest`, `RoundReturns` | every sample sequence, write failure, exception and stuck leader, over repeated rounds |
| `service_control` | `LoopIsNamed`, `FoundRoundEnds`, `GracefulDrains`, `RestartReturns` | two serves and two rounds racing, crashes, failing boots, refused starts, failing `systemctl` calls and every verb in every state, with and without a unit |
| `agent_run` | `AgentGone`, `NoStrays`, `OwnsPid`, `RunEnds` | up to three SIGTERMs anywhere, raising callbacks, detaching descendants, uninterruptible sleep, with and without a container |
| `round_runner` | `UniqueNumbers`, `StashAnnounced`, `NoteIsTrue` | rounds of serve and of a user, dying serves, aborts, a lost `status.json`, failing and slow git calls, under each `dirty_action` |
| `throttle` | `RecoveredOnce`, `ViewCoherent`, `FoldAgrees`, `NoEarlyRetry` | two agents, each regime, foreign rounds, a dying serve, a month that turns, a clock that is corrected |
| `monitor` | `TailComplete`, `OncePerEpisode`, `DeathReported`, `DrainResolved` | twelve deployments, each with one kind of trouble, that between them raise every alert |
| `event_stream` | `NoneLostInOrder`, `WakeNotLost`, `HandoffExact`, `GiveUpIsEarned` | two writers, a link that fails and heals, a month that turns in the middle |
| `outer_loop` | `WritesInGap`, `WritesAreEarned`, `OnceAcrossRestarts`, `StopIsTimely` | each of the eleven scripts, under its own configuration and under spoiled ones, with usage in time and late |
| `sentinel_restart`, `git_timeout` | one documented claim each | a counterexample each |

Types are proved where there is a proof module (section 4) and not run.

Bounds, and why they are enough:

- thresholds of 2 and 3 instead of 5, 5 and 3: a run of rounds can be begun,
  broken, resumed and completed, and the three counters differ from each other;
  the theorems cover all values;
- two phases: one runnable and one blocked is what rotation, skipping and
  starvation need; `serve_verdicts` has one phase, as verdicts do not look at it;
- `max_rounds = 4` in `serve_verdicts` bounds the history, one more than the
  largest threshold, so a streak can be broken by its first round;
- `MaxTime = 2` with `Window = 1` in `serve_verdicts`: an event on the edge of the
  window, inside it and outside it; `serve_gates`, whose properties do not look
  at the window, has `MaxTime = 1`;
- `StartLimitBurst` of 1 or 2: one restart and the start limit;
- `MaxTicks = 5` checks with `CriticalSamples = WarningSamples = 2`: two full
  streaks and a healthy sample between them; `MaxHigh = 3`: an operator's value
  with room for two successive brakes; one failing restore;
- one worker and one helper process of the agent, `MaxTerms = 3`: a first SIGTERM
  into the handler's reap, a second into its waits, a third past them;
- two processes, three rounds, two changes in `round_runner`: two rounds that
  collide and one after them, a stash to be found by the round after next; users'
  rounds and dying serves are in separate configurations;
- two serves and two rounds: the loser of each lock, a stale pid file or sidecar
  beside a live process, an orphan beside a live round;
- `throttle`: four events and three ticks with `BASE = 1`, ladder and sleep capped at
  2: two failures in a row, a success between two, a reset beyond one sleep (3) and a
  malformed one (9 with `SANITY_S = 6`); one fault per behaviour. The two agents are
  interchangeable, so the run uses their symmetry;
- `monitor`: windows of two rounds, thresholds of one or two, one fault per
  behaviour. `BUFFER = 9` is less than the longest logs, so events are evicted; the
  code keeps 20000. An interval is one tick, and a poll other than its stop takes none;
- `event_stream`: two events, two connections, a link that can fail in the first two
  ticks, the month turning at tick 2, a tolerance of 2 and pauses of 1 and 2. The
  listener tries twice (`TRIES`) where the code tries three times, so that running
  out of attempts happens with two writers. The relay's own steps take no time, and
  nothing is asked once it is gone;
- `outer_loop`: the gap is five ticks with the scripts' windows in their order
  (write after 1, settle 2, before 3), a script takes a step in every tick (`Lag`;
  the scripts poll each second in a gap of a minute), usage is recorded up to two ticks
  after `round_end` (`HookTime`), that is, before the settle time is over or as it
  ends, one restart of serve or of the script or one month
  turn, and three rounds, the third of which is not followed to its end.

Fairness. `ServeLoop`: serve's own steps are weakly fair (one runnable thread), a
round ends (the outer ceiling of `_spawn_round`; `RoundReturns` of `SpawnRound` is
that assumption, checked), and systemd acts on a restart. Nothing is assumed of
signals, memory, windows or throttles; where a property needs the world to be kind,
it says so in its premise (`PausesEnd`, `NoPhaseStarves`). `SpawnRound`: only the
watcher is fair, since its waits have deadlines; the leader and the host may do
anything. `AgentRun`: the round process is fair, the agent, its descendants and the
kernel's sleep are not. `ServiceControl`: running processes, systemd's queue and the
verb under way are fair; nobody has to type anything. `Monitor`: the monitor's steps
are fair, its start included (its unit says `Restart=always`), time passes, and a
serve that has its SIGTERM ends its round and exits (every round has a ceiling).
`Throttle`, `EventStream` and `OuterLoop` state safety only; where a script must be
in time, its quickness is the bound `Lag`, not fairness.

Deadlock checking is off where a behaviour ends: a call of `run()`, and the bounded
time or events of `Throttle`, `Monitor`, `EventStream` and `OuterLoop`. It is on in
every other run: those systems never stop.

## 4. Theorems

Proved for every value of the constants, from the named assumptions in the
modules (thresholds are positive, `None` is no process, configurations are of
their type). All invariance proofs have one step per action.

- `ServeProofs`, of `ServeLoop`: `TypeCorrect`, `StopIsRespected`,
  `SnapshotIsEnough`, `MemLoopRestartsConverge`. `RoutesAroundThrottles` is not
  inductive: it needs `SnapshotCovers` (between gate and spawn the throttles are
  those of the snapshot and those other rounds have reported since, the chosen phase
  is not in the snapshot, and the back-off belongs to the other regime).
  `MemLoopConverges` needs `MemLogOrdered`, and the lemma that a window holding fewer
  than the threshold's events can take one more; it is the argument that systemd
  cannot restart a thrashing serve for ever. Of `ServeHistory`: `CountersAreRuns`,
  `BreakersArePrompt` and the refinement `ServeImplementsContract`. The inductive
  invariant `HInv` is `TypeOK`, `LoopShape` (where serve can be with and without a
  verdict), `StreaksMatchHistory` and `GiveUpPrompt`; neither of the last two is
  inductive without the other, because a counter equals a run only as long as the
  breaker has not been overrun.
- `WatcherProofs`, of `SpawnRound` (whose specification is `SpawnSpec` there):
  `SpawnRoundTypes`, `BrakeIsReleased`, `BrakeOnlyTightens`, `NoLeaderIsOrphaned`,
  `FloorIsPatient`, `DeferralsAreReported`, `FloorIsOnRecord`. The brake needs
  `BrakeInv` (while engaged, the remembered value is the operator's), the floor
  `StreakInv` (the streak counts critical samples at the end of `recent`), the
  deferral `DeferInv` (the flag equals the count), the record `HonestInv` (the log is
  true except between the floor's signal and its event, and in a call that unwinds).
- `AgentRunProofs`: `AgentRunTypes`, `RunEndsTheAgent`, `WallsSignalTheirAgent`,
  `ReapTakesDescendants`, `ContainerIsReportedOnce`, for any set of descendants
  and any number of SIGTERMs. `CallSites` relates the location to the call site;
  `AgentInv` says that past the SIGKILL the agent is dying and that it is waited
  for only where the code waits; `StrayInv` that the group stays empty and the
  captured stay dead, because only a running agent starts processes; `ReportInv`
  that the flag equals the number of reports. `WallsSignalTheirAgent` is about the
  timeout and the kill after its grace, not about the exception handler (section 5).
- `RoundRunnerProofs`: `ServeNumbersAreUnique`, `ServeOverwritesNoLog`,
  `NotedStashesAreAnnounced`, `NotesAreTrue`, for any number of processes and rounds.
  Uniqueness needs that a published number has its log and is published once
  (`Published`) and that a used one is not published again (`Used`): the log, not
  `status.json`, carries the argument. The stash needs that only the lock's holder
  touches the note (`OneHolder`) and that it announces before it may overwrite or
  clear (`Told`). The note is true because of `Newest`: the holder of the lock is the
  newest round, every stash is an older round's until it pushes, and nothing changes
  the tree between the listing of its dirty files and the push. `NoteIsTrue` excepts
  `LogPath`, which the listing has and the push leaves out, and rounds whose numbers
  a message cannot tell apart (`NumbersTellApart`): the idempotency window finds a
  stash by the prefix of its message, so round 1 may take that of round 10 for its
  own.
- `ServiceControlProofs`: `ServiceTypes`, `RunningServeIsNamed`,
  `RunningRoundIsNamed`, `RoundsDrain`, `NoRoundReplacesTheFound`, for any number
  of processes. `ServiceInv` says which lock every location implies
  (`NamedUnderLock`, `HeldUnderLock`), that a serve with a child is waiting for it
  and has one only (`ParentsWait`, `OneChild`), and what the verb under way knows
  of its target (`KillIsForced`, `Signalled`, `FoundIsLast`).

- `EventStreamProofs`: `DoorbellIsHeard`, `GiveUpWaitsForTolerance`,
  `NothingOwedIsLost` and `HandoffIsExact`, for any number of writers, connections,
  attempts and broken links and any tolerance and back-off. `WakeNotLost` is
  inductive once the tail is known to reach its wait only by a read that found
  nothing (`TailMoves`): a writer that has appended passes the promise to ring from
  its scan to each path still to be rung. `GiveUpIsEarned` needs `EarnedInv`: an
  outage never begins before the last line. For the other two every printed line is
  traced to a position of a file: the replay has printed the lines before its
  cursor, the follow those between its starting offset and its own, and what is on
  the wire is what the relay has not read yet. An event appended in order is then
  behind the resume point or ahead of a cursor, whichever connection is alive.
- `WatcherProofs`, of `Monitor`: `TailIsComplete`, for any buffer size and any polls
  that fail, and `ActedOncePerEpisode`. `TailInv` is that the second of two files is
  begun when the month turns (`FilesInv`), that an offset counts lines of its file
  that were read (`OffsetsInv`) and that the buffer is the end of what was read, in
  order (`BufferInv`). `EpisodeInv` relates the ordered map `seen`, read as an order
  on its keys, to the alerts of the poll under way: what was acted on stays
  remembered as long as it is alerted. For that the map may evict only episodes that
  are over, so its cap must hold the present alerts and those of the poll before:
  `MonitorAssumption` asks for `SEEN_CAP` of at least twice the number of detectors
  (512 and 12 in the code).
- `ThrottleProofs`: `RecoveryAnnouncedOnce`, `OneScanFindsAll`, `OperatorSeesTheGate`
  and `RetriesAreDue`, for any finite set of agents, any ladder, any resets and logs
  of any length. `OpenInv` carries the first: an agent serve is about to announce has
  a detection as its last transient event. The next two compare scans, and need only
  the types of `LogTypes`. A scan of the code is a recursive function of the number
  of events read; `ScanExists` shows that such a function exists and is unique, by
  induction obtained from the smallest counterexample (`WFMin` over the naturals)
  rather than from the library's schema. `CountsAgree` and `TransientsAgree` then
  follow both scans event by event. `RetriesAreDue` proves `NoEarlyRetry`: the scan
  counts the failures in a row (`ScanCountsTheRow`), the reset that the gates read is
  no sooner than the ladder of the whole history (`ResetIsDue`), and a success can
  only bring an agent's time forward (`DueFalls`). `PatientInv` carries it from the
  scan to the launch: whom the map leaves out is due by the events it was made of
  (`SkipInv`), a back-off is as long as the ladder says (`SleepInv`), and what was
  announced as over was due (`RecoveredInv`), on which every later scan relies. It
  needs that a base duration is within the sanity window (a minute against a year),
  or its own reports would count as malformed.

- `OuterLoopProofs`: `TypesHold`, `WritesOnce`, `WritesStayInGap`, `WritesHaveCause`,
  `StopComesInTime`, for any recipes, configurations, outcomes, number of rounds and
  number of crashes and restarts. Each of the eleven scripts is a decision of its
  own, so most lemmas say what one script has seen when it decides to write.
  `FileInv` is what all rest on: the types, who ran which round and when the pid file
  names it (`Identity`), which rounds the log has started and ended (`Numbered`), and
  what each script can be about to write (`TodoFits`). `WritesOnce` needs only that
  the mark a script looks for is in the file once it has written (`MarkedOnce`).
  `WritesStayInGap` needs `GapInv`: between decision and write the round stays the
  newest, and the window was open as long ago as the script has been idle (`Aimed`).
  It has one hypothesis, `WRITE_BEFORE_S + Lag < DELAY_S`: the window and one step of
  the script fit in the delay. In the code the window closes after 50 s, the scripts
  refuse a `restart_delay_s` other than 60 and poll every second (`WRITE_BEFORE_S`,
  `DELAY_S` and the sleeps of `watch`). Without it the script could be overtaken:
  that no other lock protects the gap is a fact about these scripts.
  `WritesHaveCause` is about what was *read* against what *happened*, for every write
  of every script: costs that add up to the ceiling, checks and values, a round that
  had ended, the configuration and the queue the recipe asks for. By `LogAgrees` the
  events of a round say what the round left, except for usage not recorded yet and a
  check not made yet; by `SpentInv` the log shows as spent what the rounds have cost,
  as far as usage is recorded. `EarnedInv` carries the cause from the poll to the
  write: what is decided is settled, and serve cannot take it back (`Decided`,
  `Kept`), and the scripts with a fixed round have seen their configuration in the
  preflight (`Checked`). `StopComesInTime` proves `StopIsTimely`, an action property
  whose argument runs the other way: what the rounds left must be *seen*, and soon
  enough. `UsageInv` and `CheckedInv` say that usage and checks are in the log (usage
  of a round not before its end), `SpentInv` that the log shows as spent what the
  rounds have cost: the sum over the events and the sum over the rounds, two
  recursive functions, grow by the same addend (`SumsLonger`), so `Crossed` decides
  as the property does (`CrossedTells`). `Ready` says that a script which watches has
  passed its preflight and latched the serve it watches, and `OnTime` is the
  schedule: until the stop file is there, either no stop is due after this round
  (`Judged`), or the script is about to write (`Writing`), or it has still to look at
  the round and there is time left for it (`Looking`: one poll for each ended round
  it has not acted on), or the usage is already too late (`Lost`). `SpendLooks`,
  `FailLooks` and `RalphLooks` say what one poll of each script makes of that. The
  hypothesis `Margins` names two inequalities, with the code's values: window and
  step fit in the delay (50 + 1 < 60), and what settles is within the window (10 + 1
  <= 50). Nothing is assumed of the hooks or of the length of the log: what
  `spend_ceiling` cannot reach is an exception of the property (`in_reach`): usage
  recorded later than `SETTLE_S` after the round's end, and a backlog of ended rounds
  that takes more polls than the window has (section 7).

Some theorems are about invariants that no run checks any more, because a stronger
or a more telling one took their place in the runs: the types, `GiveUpPrompt`,
`BrakeNeverLoosens`, `DeferReportedOnce`, `RoundIsNamed`, `FreshLog`, `ReportedOnce`.

Model-checked only: everything about liveness (`StopHonoured`, `PausesEnd`,
`NoPhaseStarves`, `RoundReturns`, `RunEnds`, `RestartReturns`, `DeathReported`,
`DrainResolved`), which is beyond the prover. Every other property of a passing run is
stated by a theorem.

## 5. Simplifications worth knowing

- The restart delay's length, log wording and environment variables are left out.
- `ThrottleGate` may miss an active throttle: the scalar view of the throttle is
  the newest event of any agent, and a sibling's recovery hides an older one.
- The doorbell only shortens waits. In the modules other than `EventStream` each wait
  may end at any time, so every result there holds with and without it.
- In `SpawnRound` an exception inside a memory check leaves the brake as it was
  before or after the whole check, not in between.
- `AgentRun` has the wait of platforms with a pidfd or a kqueue, which notices an
  exit without reaping it. The polling fallback of `_procwait.py` reaps, and the
  SIGKILL after it goes to a pid that is already free; `OwnsPid` does not hold
  there.
- In `AgentRun` the exception handler may be entered when the agent has been
  reaped already (a SIGTERM between the last wait and the return); its signals
  then go to a freed pid. `OwnsPid` is stated for the two hard walls.
- `create_time_matches` is taken to tell processes apart for good. In the five
  seconds in which `kill` polls `pid_alive` it compares no start time, and a pid
  reused in them would get the SIGKILL; this is not modelled.
- `RoundRunner` leaves out the pruning of old logs. `round_log_retention` keeps the
  newest `round-<n>.log` files by modification time, which are the highest numbers
  unless an orphan still writes an older one; `FreshLog` rests on that.
- A round by hand that numbers itself between serve's numbering and its spawn shares
  the number with serve's round; if both end dirty within `stash_idempotency_s`, the
  second is not stashed and the note pairs its files with the first one's stash.
  `UniqueNumbers` excepts exactly this, `NoteIsTrue` also the paths of a `log_dir`
  inside the tree and numbers of which one begins
  like the other (1 and 10). Numbers also advance for a
  round by hand with `--phase`, so the rotation of the rounds after it shifts.
- `kill` of a user unit queues no stop job: when it comes to the SIGKILL, the unit's
  `Restart=on-failure` starts serve again. `ServiceControl` has the step.
- A stop issued while a restart drains is routed to the pid file (`deactivating`
  is not an active state for `detect_service_mode`), and the start that restart
  has queued brings the unit back. `RestartReturns` therefore allows "the operator
  asked otherwise" as an outcome and does not require it. How many starts the limit
  allows is the subject of `ServeLoop`; in `ServiceControl` any start may be refused.

- Event lines are whole, for every reader: an assumption the code does not provide
  for. `read_new_raw` skips a last line that is not finished, but takes the end of the
  file as its next offset (`event_log.py:92-94`), so the rest of that line is lost to
  it; likewise a line torn between two writers. Not modelled either are readers that
  hold a file of a month in which an old event is still being appended when two newer
  months exist.
- The attribution of a memory termination to a round by comparing timestamps
  (`_round_outcome.py`), which a clock that steps back can spoil, is an input of
  `ServePolicy`. The container stop, which comes after the reap's own waits while the
  watcher's grace runs, would need the clocks of both processes and is not modelled.

## 6. Findings

1. `sentinel_restart`: a round that writes `.agent-done` and whose end trips
   `mem_loop` exits 71; the restarted serve removes the sentinel as stale and goes
   on. `docs/runbook.md` says serve exits cleanly with code 0.
2. `git_timeout`: only the first `git status` after the agent is guarded against a
   timeout; one in `resolve_dirty_tree` (the second `git status`, `stash list`,
   `check-ignore`, `rev-parse`) ends the round without `status.json`, `round_end`
   and hooks, which the comment at the guard and the changelog rule out.

## 7. Remarks

Behaviour of the code met while modelling. The properties above are stated so that
they except exactly these; none has a run of its own.

Round and service:

- A round run by hand, or left by an earlier serve, that reports a limit between
  serve's snapshot (`cli/serve_cmd.py:336`) and its spawn is not seen: serve launches
  the throttled phase once. `RoutesAroundThrottles` excepts it (`raced`).
- `restart` half-executes when the start after the stop is refused (the start limit
  of `service_unit.py:91-92`) or a `systemctl` call raises (`lifecycle.py:61`): the
  service stays down, the outcome the comment at `_lifecycle.py:290-293` says restart
  "must never produce". `docs/runbook.md:873-877` has the way out of the start limit.
  `RestartReturns` excepts it (`refused`).
- With `log_dir` inside the work tree the note of a stash lists the runner's own files
  (`runner.py:587`, `vcs_state.py:97-131`), which the push leaves out
  (`vcs_state.py:218-220`): the next agent is told of files no stash holds.
- Of `_kill_pgroup` only the two waits are shielded (`agent_runtime.py:195`): a second
  SIGTERM earlier in the exception handler's reap leaves the agent running, which the
  comment at lines 186-188 rules out. `AgentGone` names the window.
- `kill` reaches a round only through its sidecar (`_lifecycle.py:258`); a round that
  has not written it yet is left running. `FoundRoundEnds` is about the others.
- A failed restore of `memory.high` (`cli/_serve_round.py:653`) is not retried,
  although `metrics.py:611-613` says the caller does: the value was a local.
- A deferral cut short by a stop writes no `round_resumed`, so its `round_deferred`
  excuses the silence of later lifetimes (`_monitor_detectors.py:628-630`), for up to
  eight days or until the next pause event.

Throttle:

- Between serve's scan and `pending_recovered` a foreign round may report a limit;
  serve then announces the recovery of an agent that is throttled, and may try it
  early. `NoEarlyRetry` excepts it (`raced`).
- The scalar view is that of the newest event: in the back-off regime with several
  agents a sibling's recovery hides an active throttle.
- A single sleep is capped at eight hours; at its end the recovery of a reset that
  lies further away is announced. `NoEarlyRetry` excepts it (`capped`).
- The reset that back-off computes and the one the gates derive climb the same ladder
  from different starting points; a reset more than a year away counts as none.

Monitor:

- A stop of a draining unit reads as still active in systemd mode and is recorded as
  failed (`monitor.py:322-328`), although the stop job is under way.
- An alert that clears while its stop drains leaves the stop unrecorded; a serve that
  is started again while its alert persists is not stopped again.
- The buffer holds 20000 events, the horizon of a deferral is eight days: on a busy
  log the pause that excuses the silence can be evicted, and an alarm be raised early.

Event stream:

- The relay resumes from the latest timestamp it has relayed. Writers stamp before
  they append, so an event may follow one with a later timestamp; if the link drops
  between the two it is never relayed, although `remote_relay.py:11-15` says none is
  lost. Events from before the first relayed line are lost likewise.
  `NoneLostInOrder` is about events appended in the order of their timestamps.
- The event at the resume point is always replayed, so a link that connects, delivers
  it and dies resets the give-up clock each time.
- `replay_since` hands over exactly only in the month it takes for the current one;
  lines that are appended during the replay to the other month's file, or to a file
  of a month that begins meanwhile, appear twice. `HandoffExact` says which month.
- `ring` may unlink a FIFO that was opened after it got ENXIO; that listener then
  wakes only once a second. `WakeNotLost` names the window.

Outer-loop scripts:

- A give-up event anywhere in the log makes some scripts treat every later round as
  too late; after a serve is started in the gap of another, its first round has no
  gap before it; `longhorizon` acts before `round_end`; `ralph` may stop serve for a
  round of an earlier one; `ace` and `rsi_agent` write again after their own restart;
  `between_rounds` keeps the month file it started with. `WritesInGap`,
  `OnceAcrossRestarts` and `StopIsTimely` are stated for the scripts that exclude
  these.
- `karpathy` takes the whole delay for its window and does not look again before it
  writes (`karpathy/delay.py:185-192,306-315`), so a write may come after the next round
  has started, although its header says writes come before (lines 8-9). `WritesInGap`
  leaves it out.
- `spend_ceiling` looks at one ended round per second, oldest first
  (`spend_ceiling/delay.py:747-753,828-829`). Started beside a log of more than about
  fifty ended rounds it comes to the round that ends meanwhile only after the window
  has closed, and that round's stop is missed. So it is when a round's usage is
  recorded more than ten seconds after `round_end`: the script has judged the round by
  then. `StopIsTimely` excepts both (`in_reach`).

## 8. Plan

1. `AgentRun` composed with `SpawnRound`'s termination: the watcher's grace of 15 s
   against the round's own clean-up, each with its clock.
2. Attribution of events to a round by time (`round_outcome`).
3. Candidates and next openings of `phase_select.py` and `schedule.py` against a
   reference; `upgrade` as a client of `ServiceControl`.

## 9. Not modelled

Parsing and validation of the configuration, migrations and agent plugins (text
in, records out; the models start from validated configurations and detected
throttles); the one-shot views (`peek`, `status`, `events` without `--tail`), the
installer, the goal helpers and the documentation generator (input/output without
protocol state); calendar arithmetic (the set of open windows is an input); the
upgrade verb, a sequence of `stop`, `pip` and `start`.
