--------------------------- MODULE ServiceControl ---------------------------
(***************************************************************************)
(* The processes around one project and the verbs that start and end them:  *)
(* serve processes (cli/serve_cmd.py: serve.lock, serve.pid, the SIGTERM    *)
(* handler, the finally clause), their round children (cli/round_cmd.py,    *)
(* runner.py: agent-runner.lock and its .holder sidecar), the start, stop,  *)
(* kill and restart verbs (_lifecycle.py, lifecycle.py) and the user unit   *)
(* that service_unit.py renders, kept by systemd.                           *)
(*                                                                         *)
(* A member of Serves or of Rounds is a pid together with its start time:   *)
(* it is handed out again only when nothing names it any more, which is     *)
(* what create_time_matches buys.  Every bounded wait of a verb may end by  *)
(* its timeout at any moment.  What a serve does between two stop checks,   *)
(* and how a round's end is judged, is ServeLoop's subject.                 *)
(***************************************************************************)
EXTENDS Naturals, FiniteSets

CONSTANTS
    Serves, Rounds,  \* process identities
    None,            \* no process
    UnitInstalled,   \* BOOLEAN values to explore: is there a user unit?
    Verbs,           \* the verbs the operator uses
    Hazards          \* which of "hand_launch", "boot_fails", "crash",
                     \* "gives_up", "beside_unit", "refused" happen

AllVerbs == {"start", "stop", "kill", "restart", "restart_force"}

ASSUME ServiceControlAssumption ==
    /\ None \notin Serves /\ None \notin Rounds
    /\ UnitInstalled \subseteq BOOLEAN
    /\ Verbs \subseteq AllVerbs
    /\ Hazards \subseteq {"hand_launch", "boot_fails", "crash", "gives_up",
                          "beside_unit", "refused"}

VARIABLES
    installed,    \* the user unit file exists
    serve,        \* where each serve process is
    stop,         \* its stop["requested"]
    code,         \* how it will exit: "clean", "failure", "prevent"
    serve_lock,   \* holder of the flock on serve.lock
    pid_file,     \* the serve serve.pid names, dead or alive
    round,        \* where each round child is
    parent,       \* the serve that spawned it
    round_lock,   \* holder of the flock on agent-runner.lock
    holder,       \* the round its .holder sidecar names, dead or alive
    unit, main, start_job,     \* systemd: unit state, main pid, queued start
    verb, vpc, target, rtarget,\* the verb under way and the pids it read
    asked,        \* history: what the operator last asked for, "up" or "down"
    forced,       \* history: a kill verb or a crash has ended processes
    refused,      \* history: systemd refused a start or a systemctl call failed
                  \* since the last restart was admitted
    found         \* history: kill found the round of the serve it signalled

serves == <<serve, stop, code>>
rounds == <<round, parent>>
files == <<pid_file, holder>>
locks == <<serve_lock, round_lock>>
systemd == <<unit, main, start_job>>
cli == <<verb, vpc, target, rtarget, found>>
vars == <<installed, serves, rounds, files, locks, systemd, cli, asked, forced,
          refused>>

InLoop == {"loop", "go", "wait"}
Armed == InLoop \cup {"armed", "unlink", "release"}
HoldsServeLock == Armed \cup {"locked"}
HoldsRoundLock == {"locked", "running", "closing"}
Exits == {"clean", "failure", "prevent"}
Down == {"inactive", "failed"}            \* _SYSTEMD_INACTIVE_STATES
Up == {"active", "activating"}            \* _SYSTEMD_ACTIVE_STATES

FlagTypes ==
    /\ installed \in BOOLEAN
    /\ start_job \in BOOLEAN
    /\ forced \in BOOLEAN
    /\ found \in BOOLEAN
    /\ refused \in BOOLEAN
    /\ stop \in [Serves -> BOOLEAN]

ValueTypes ==
    /\ serve \in [Serves -> HoldsServeLock \cup {"none", "boot"}]
    /\ code \in [Serves -> Exits]
    /\ serve_lock \in Serves \cup {None}
    /\ pid_file \in Serves \cup {None}
    /\ round \in [Rounds -> HoldsRoundLock \cup {"none", "boot"}]
    /\ parent \in [Rounds -> Serves \cup {None}]
    /\ round_lock \in Rounds \cup {None}
    /\ holder \in Rounds \cup {None}
    /\ unit \in Up \cup Down \cup {"deactivating"}
    /\ main \in Serves \cup {None}
    /\ verb \in AllVerbs \cup {"none"}
    /\ vpc \in {"idle", "admit", "route", "confirm", "unit_grace", "holder",
                "round_grace", "serve_grace", "respawn"}
    /\ target \in Serves \cup {None}
    /\ rtarget \in Rounds \cup {None}
    /\ asked \in {"up", "down"}

(* Types, for every value of the constants.                                *)
TypeOK == FlagTypes /\ ValueTypes

Init ==
    /\ installed \in UnitInstalled
    /\ serve = [s \in Serves |-> "none"]
    /\ stop = [s \in Serves |-> FALSE]
    /\ code = [s \in Serves |-> "clean"]
    /\ serve_lock = None /\ pid_file = None
    /\ round = [r \in Rounds |-> "none"]
    /\ parent = [r \in Rounds |-> None]
    /\ round_lock = None /\ holder = None
    /\ unit = "inactive" /\ main = None /\ start_job = FALSE
    /\ verb = "none" /\ vpc = "idle" /\ target = None /\ rtarget = None
    /\ asked = "down" /\ forced = FALSE /\ found = FALSE
    /\ refused = FALSE

-----------------------------------------------------------------------------
(* Processes come and go.                                                  *)

FreshServe(s) ==
    /\ serve[s] = "none"
    /\ s \notin {pid_file, target}
    /\ \A r \in Rounds : parent[r] # s

FreshRound(r) ==
    /\ round[r] = "none" /\ parent[r] = None
    /\ r \notin {holder, rtarget}

(* exec of `agent-runner serve`.                                            *)
Begin(s) ==
    /\ FreshServe(s)
    /\ serve' = [serve EXCEPT ![s] = "boot"]
    /\ stop' = [stop EXCEPT ![s] = FALSE]
    /\ code' = [code EXCEPT ![s] = "clean"]

(* What systemd makes of its main process's exit: no restart under a stop   *)
(* job; otherwise Restart=on-failure, with RestartPreventExitStatus.        *)
UnitAfter(how) ==
    IF unit = "deactivating" \/ how = "clean" THEN "inactive"
    ELSE IF how = "failure" THEN "activating" ELSE "failed"

(* The rounds in the cgroup of a main process that ends: KillMode=mixed     *)
(* sends SIGKILL to what is left in it.                                     *)
LeftInCgroup(s) == IF s = main THEN {r \in Rounds : parent[r] = s} ELSE {}

(* The rounds of R die: the kernel drops their flock, the sidecar stays.    *)
RoundsDie(R) ==
    /\ round' = [r \in Rounds |-> IF r \in R THEN "none" ELSE round[r]]
    /\ parent' = [r \in Rounds |-> IF r \in R THEN None ELSE parent[r]]
    /\ round_lock' = IF round_lock \in R THEN None ELSE round_lock

(* Process s is gone, with the rounds of R: its flock goes, serve.pid stays *)
(* as it is.                                                                *)
ServeDies(s, how, R) ==
    /\ serve' = [serve EXCEPT ![s] = "none"]
    /\ UNCHANGED <<stop, code>>
    /\ serve_lock' = IF serve_lock = s THEN None ELSE serve_lock
    /\ RoundsDie(R \cup LeftInCgroup(s))
    /\ main' = IF s = main THEN None ELSE main
    /\ unit' = IF s = main THEN UnitAfter(how) ELSE unit
    /\ UNCHANGED <<files, start_job>>

-----------------------------------------------------------------------------
(* A serve process: cmd() of serve_cmd.py.                                  *)

(* The operator types `agent-runner serve`, beside an installed unit or     *)
(* without one.                                                             *)
HandLaunch(s) ==
    /\ "hand_launch" \in Hazards
    /\ ~installed \/ "beside_unit" \in Hazards
    /\ Begin(s)
    /\ asked' = "up"
    /\ UNCHANGED <<installed, refused, rounds, files, locks, systemd, cli, forced>>

(* Mutant: the loser runs the finally clause and unlinks serve.pid.         *)
AcquireServeLockUnlinks(s) ==
    /\ serve[s] = "boot"
    /\ \/ /\ serve_lock = None
          /\ serve_lock' = s
          /\ serve' = [serve EXCEPT ![s] = "locked"]
          /\ UNCHANGED <<stop, code, rounds, files, round_lock, systemd>>
       \/ /\ serve_lock # None
          /\ pid_file' = None
          /\ serve' = [serve EXCEPT ![s] = "none"]
          /\ main' = IF s = main THEN None ELSE main
          /\ unit' = IF s = main THEN UnitAfter("failure") ELSE unit
          /\ UNCHANGED <<stop, code, rounds, holder, locks, start_job>>
    /\ UNCHANGED <<installed, refused, cli, asked, forced>>

(* The loser of serve.lock returns 1 before it touches anything.            *)
AcquireServeLock(s) ==
    /\ serve[s] = "boot"
    /\ \/ /\ serve_lock = None
          /\ serve_lock' = s
          /\ serve' = [serve EXCEPT ![s] = "locked"]
          /\ UNCHANGED <<stop, code, rounds, files, round_lock, systemd>>
       \/ serve_lock # None /\ ServeDies(s, "failure", {})
    /\ UNCHANGED <<installed, refused, cli, asked, forced>>

ArmSignals(s) ==
    /\ serve[s] = "locked"
    /\ serve' = [serve EXCEPT ![s] = "armed"]
    /\ UNCHANGED <<installed, refused, stop, code, rounds, files, locks, systemd,
                   cli, asked, forced>>

(* A ConfigError at load, a failing _prepare_loop or overlapping windows:   *)
(* exit 78 with the lock released and no pid file written.                  *)
BootFails(s) ==
    /\ "boot_fails" \in Hazards
    /\ serve[s] \in {"boot", "armed"}
    /\ ServeDies(s, "prevent", {})
    /\ UNCHANGED <<installed, refused, cli, asked, forced>>

WritePid(s) ==
    /\ serve[s] = "armed"
    /\ pid_file' = s
    /\ serve' = [serve EXCEPT ![s] = "loop"]
    /\ UNCHANGED <<installed, refused, stop, code, rounds, holder, locks, systemd,
                   cli, asked, forced>>

(* One pass over the gates: it ends at the last stop check before a spawn,  *)
(* or leaves the loop because of a stop, the sentinel, the stop file or     *)
(* max_rounds.                                                              *)
PassGates(s) ==
    /\ serve[s] = "loop"
    /\ \/ ~stop[s] /\ serve' = [serve EXCEPT ![s] = "go"]
       \/ serve' = [serve EXCEPT ![s] = "unlink"]
    /\ UNCHANGED <<installed, refused, stop, code, rounds, files, locks, systemd,
                   cli, asked, forced>>

(* Popen(start_new_session=True).                                           *)
SpawnChild(s) ==
    /\ serve[s] = "go"
    /\ \E r \in Rounds :
          /\ FreshRound(r)
          /\ round' = [round EXCEPT ![r] = "boot"]
          /\ parent' = [parent EXCEPT ![r] = s]
    /\ serve' = [serve EXCEPT ![s] = "wait"]
    /\ UNCHANGED <<installed, refused, stop, code, files, locks, systemd, cli, asked,
                   forced>>

(* Mutant: a stop request ends the wait for the child.                      *)
RoundOverImpatient(s) ==
    /\ serve[s] = "wait"
    /\ stop[s] \/ \A r \in Rounds : parent[r] # s
    /\ serve' = [serve EXCEPT ![s] = IF stop[s] THEN "unlink" ELSE "loop"]
    /\ UNCHANGED <<installed, refused, stop, code, rounds, files, locks, systemd, cli,
                   asked, forced>>

(* _spawn_round returns once the child is gone; a give-up verdict or an     *)
(* exception leaves the loop, and so does a stop request.                   *)
RoundOver(s) ==
    /\ serve[s] = "wait"
    /\ \A r \in Rounds : parent[r] # s
    /\ \/ ~stop[s] /\ serve' = [serve EXCEPT ![s] = "loop"] /\ code' = code
       \/ /\ stop[s]
          /\ serve' = [serve EXCEPT ![s] = "unlink"] /\ code' = code
       \/ /\ "gives_up" \in Hazards
          /\ serve' = [serve EXCEPT ![s] = "unlink"]
          /\ \E how \in {"failure", "prevent"} : code' = [code EXCEPT ![s] = how]
    /\ UNCHANGED <<installed, refused, stop, rounds, files, locks, systemd, cli, asked,
                   forced>>

(* The finally clause: serve.pid first, whatever it names, ...              *)
UnlinkPid(s) ==
    /\ serve[s] = "unlink"
    /\ pid_file' = None
    /\ serve' = [serve EXCEPT ![s] = "release"]
    /\ UNCHANGED <<installed, refused, stop, code, rounds, holder, locks, systemd,
                   cli, asked, forced>>

(* ... then the lock, and the process ends.                                 *)
ReleaseServeLock(s) ==
    /\ serve[s] = "release"
    /\ ServeDies(s, code[s], {})
    /\ UNCHANGED <<installed, refused, cli, asked, forced>>

(* SIGKILL from outside, the kernel's OOM killer.                           *)
ServeCrashes(s) ==
    /\ "crash" \in Hazards
    /\ serve[s] # "none"
    /\ ServeDies(s, "failure", {})
    /\ forced' = TRUE
    /\ UNCHANGED <<installed, refused, cli, asked>>

-----------------------------------------------------------------------------
(* A round child: round_cmd.cmd and run_one_round.                          *)

(* The startup battery may refuse; LockHeldError if another round is alive. *)
AcquireRoundLock(r) ==
    /\ round[r] = "boot"
    /\ \/ /\ round_lock = None
          /\ round_lock' = r
          /\ round' = [round EXCEPT ![r] = "locked"]
          /\ UNCHANGED parent
       \/ /\ round_lock # None \/ "boot_fails" \in Hazards
          /\ RoundsDie({r})
    /\ UNCHANGED <<installed, refused, serves, files, serve_lock, systemd, cli, asked,
                   forced>>

WriteHolderSidecar(r) ==
    /\ round[r] = "locked"
    /\ holder' = r
    /\ round' = [round EXCEPT ![r] = "running"]
    /\ UNCHANGED <<installed, refused, serves, parent, pid_file, locks, systemd, cli,
                   asked, forced>>

(* _run_one_round_inner returns or unwinds: the sidecar goes first, ...     *)
UnlinkHolder(r) ==
    /\ round[r] = "running"
    /\ holder' = None
    /\ round' = [round EXCEPT ![r] = "closing"]
    /\ UNCHANGED <<installed, refused, serves, parent, pid_file, locks, systemd, cli,
                   asked, forced>>

(* ... then the flock, and the process ends.                                *)
ReleaseRoundLock(r) ==
    /\ round[r] = "closing"
    /\ RoundsDie({r})
    /\ UNCHANGED <<installed, refused, serves, files, serve_lock, systemd, cli, asked,
                   forced>>

-----------------------------------------------------------------------------
(* systemd (external): the unit rendered by render_serve_unit.              *)

MainBegins(s) ==
    /\ Begin(s)
    /\ unit' = "active" /\ main' = s /\ start_job' = FALSE

(* RestartSec has passed, or a queued start job runs.                       *)
UnitStarts(s) ==
    /\ unit = "activating" \/ (unit \in Down /\ start_job)
    /\ MainBegins(s)
    /\ UNCHANGED <<installed, refused, rounds, files, locks, cli, asked, forced>>

(* A start refused: more than StartLimitBurst starts in StartLimitIntervalSec *)
(* (how many is ServeLoop's subject, here any start may be one too many), or *)
(* a start job that fails otherwise.  The unit is failed and stays so.       *)
StartRefused ==
    /\ "refused" \in Hazards
    /\ unit' = "failed" /\ start_job' = FALSE /\ refused' = TRUE
    /\ UNCHANGED <<serves, main>>

UnitRefused ==
    /\ unit = "activating" \/ (unit \in Down /\ start_job)
    /\ StartRefused
    /\ UNCHANGED <<installed, rounds, files, locks, cli, asked, forced>>

(* What SIGTERM does.  An armed serve notes it; one still booting dies of   *)
(* the default action, a clean exit to systemd.  A round dies of it until   *)
(* it has written its sidecar; afterwards it unwinds in its own time.       *)
UnarmedRounds(R) == {r \in R : round[r] \in {"boot", "locked"}}

TermServe(s, R) ==
    \/ /\ serve[s] \in Armed
       /\ stop' = [stop EXCEPT ![s] = TRUE]
       /\ UNCHANGED <<serve, code, serve_lock, files, systemd>>
       /\ RoundsDie(R)
    \/ serve[s] \in {"boot", "locked"} /\ ServeDies(s, "clean", R)

(* A stop job: SIGTERM to the main process, no restart afterwards.          *)
StopUnit ==
    /\ start_job' = FALSE
    /\ \/ /\ unit = "active"
          /\ \/ /\ serve[main] \in Armed
                /\ unit' = "deactivating"
                /\ stop' = [stop EXCEPT ![main] = TRUE]
                /\ UNCHANGED <<serve, code, rounds, files, locks, main>>
             \/ /\ serve[main] \in {"boot", "locked"}
                /\ unit' = "inactive" /\ main' = None
                /\ serve' = [serve EXCEPT ![main] = "none"]
                /\ serve_lock' = IF serve_lock = main THEN None ELSE serve_lock
                /\ UNCHANGED <<stop, code, rounds, files, round_lock>>
       \/ /\ unit # "active"
          /\ unit' = IF unit = "activating" THEN "inactive" ELSE unit
          /\ UNCHANGED <<serves, rounds, files, locks, main>>

-----------------------------------------------------------------------------
(* The verbs of _lifecycle.py.                                              *)

(* PIDFile.read, _round_holder_pid: only a live process is ever named.      *)
ReadPid == IF pid_file # None /\ serve[pid_file] # "none" THEN pid_file ELSE None
ReadHolder == IF holder # None /\ round[holder] # "none" THEN holder ELSE None

detect_service_mode ==
    IF installed
      THEN IF unit \in Up \/ ReadPid = None THEN "systemd" ELSE "pid_file"
      ELSE IF pid_file # None THEN "pid_file" ELSE "none"

(* restart looks at the mode before it does anything.                       *)
Invoke(v) ==
    /\ vpc = "idle"
    /\ verb' = v
    /\ vpc' = IF v \in {"restart", "restart_force"} THEN "admit" ELSE "route"
    /\ asked' = IF v = "start" THEN "up" ELSE asked
    /\ UNCHANGED <<installed, refused, serves, rounds, files, locks, systemd, target,
                   rtarget, found, forced>>

Done ==
    /\ verb' = "none" /\ vpc' = "idle"
    /\ target' = None /\ rtarget' = None /\ found' = FALSE

(* stop() and kill() are over: the verb returns, or restart goes on.        *)
Continue ==
    \/ verb \in {"stop", "kill"} /\ Done
    \/ /\ verb \in {"restart", "restart_force"}
       /\ vpc' = "respawn" /\ target' = None /\ rtarget' = None
       /\ found' = FALSE /\ verb' = verb

Admit ==
    /\ vpc = "admit"
    /\ \/ /\ detect_service_mode = "systemd"
          /\ vpc' = "route" /\ asked' = "up" /\ refused' = FALSE
          /\ UNCHANGED <<verb, target, rtarget, found>>
       \/ detect_service_mode # "systemd" /\ Done /\ UNCHANGED <<asked, refused>>
    /\ UNCHANGED <<installed, serves, rounds, files, locks, systemd, forced>>

(* A systemctl call of a verb that fails, or that outlasts                  *)
(* _SYSTEMCTL_TIMEOUT_S, raises out of the verb (`check=True`): the rest of  *)
(* the verb does not happen.  A restart's stop may raise once it has taken   *)
(* effect.                                                                  *)
SystemctlFails ==
    /\ "refused" \in Hazards
    /\ installed
    /\ \/ vpc = "route" /\ detect_service_mode = "systemd"
       \/ vpc = "confirm" /\ verb = "restart"
       \/ vpc = "unit_grace" /\ unit \notin Down
       \/ vpc = "respawn" /\ (unit \in Down => detect_service_mode = "systemd")
    /\ Done /\ refused' = TRUE
    /\ UNCHANGED <<installed, serves, rounds, files, locks, systemd, asked,
                   forced>>

(* start(): `systemctl start`; a plain serve cannot be started.             *)
StartVerb ==
    \/ /\ detect_service_mode = "systemd" /\ unit \in Down \cup {"activating"}
       /\ (\E s \in Serves : MainBegins(s)) /\ UNCHANGED refused
       /\ UNCHANGED <<rounds, files, locks>>
    \/ /\ detect_service_mode = "systemd" /\ unit \in Down \cup {"activating"}
       /\ StartRefused
       /\ UNCHANGED <<rounds, files, locks>>
    \/ /\ detect_service_mode = "systemd" /\ unit = "deactivating"
       /\ start_job' = TRUE
       /\ UNCHANGED <<serves, rounds, files, locks, unit, main, refused>>
    \/ /\ detect_service_mode # "systemd" \/ unit = "active"
       /\ UNCHANGED <<serves, rounds, files, locks, systemd, refused>>

RouteStart ==
    /\ vpc = "route" /\ verb = "start"
    /\ StartVerb /\ Done
    /\ UNCHANGED <<installed, asked, forced>>

(* stop(): a queued stop job, or SIGTERM to the serve that serve.pid names. *)
RouteStop ==
    /\ vpc = "route" /\ verb \in {"stop", "restart"}
    /\ \/ detect_service_mode = "systemd" /\ StopUnit
       \/ /\ detect_service_mode # "systemd" /\ ReadPid # None
          /\ TermServe(ReadPid, {})
       \/ /\ detect_service_mode # "systemd" /\ ReadPid = None
          /\ UNCHANGED <<serves, rounds, files, locks, systemd>>
    /\ vpc' = "confirm"
    /\ asked' = IF verb = "stop" THEN "down" ELSE asked
    /\ UNCHANGED <<installed, refused, verb, target, rtarget, found, forced>>

(* The confirm window: inactive, gone, or still draining.                   *)
ConfirmStop ==
    /\ vpc = "confirm"
    /\ Continue
    /\ UNCHANGED <<installed, refused, serves, rounds, files, locks, systemd, asked,
                   forced>>

(* kill(), under systemd: SIGTERM to every process of the cgroup.           *)
KillUnit ==
    /\ vpc = "route" /\ verb \in {"kill", "restart_force"}
    /\ detect_service_mode = "systemd"
    /\ \/ /\ main # None
          /\ TermServe(main, UnarmedRounds({r \in Rounds : parent[r] = main}))
       \/ main = None /\ UNCHANGED <<serves, rounds, files, locks, systemd>>
    /\ vpc' = "unit_grace" /\ forced' = TRUE
    /\ UNCHANGED <<installed, refused, verb, target, rtarget, found, asked>>

AskedAfterKill == asked' = IF verb = "kill" THEN "down" ELSE asked

(* ... and SIGKILL to what is left once the grace is over.                  *)
UnitGrace ==
    /\ vpc = "unit_grace"
    /\ \/ /\ unit \in Down \/ main = None
          /\ UNCHANGED <<serves, rounds, files, locks, systemd>>
       \/ unit \notin Down /\ main # None /\ ServeDies(main, "failure", {})
    /\ AskedAfterKill /\ Continue
    /\ UNCHANGED <<installed, refused, forced>>

(* Mutant: the round is looked for and ended before serve is signalled.     *)
KillRoundFirst ==
    /\ vpc = "route" /\ verb \in {"kill", "restart_force"}
    /\ detect_service_mode # "systemd"
    /\ \/ /\ ReadPid = None
          /\ AskedAfterKill /\ Continue
          /\ UNCHANGED forced
       \/ /\ ReadPid # None
          /\ target' = ReadPid /\ vpc' = "holder" /\ forced' = TRUE
          /\ UNCHANGED <<verb, rtarget, found, asked>>
    /\ UNCHANGED <<installed, refused, serves, rounds, files, locks, systemd>>

(* kill(), a plain serve: SIGTERM to the serve first, ...                   *)
KillPlain ==
    /\ vpc = "route" /\ verb \in {"kill", "restart_force"}
    /\ detect_service_mode # "systemd"
    /\ \/ /\ ReadPid = None
          /\ AskedAfterKill /\ Continue
          /\ UNCHANGED <<serves, rounds, files, locks, systemd, forced>>
       \/ /\ ReadPid # None
          /\ TermServe(ReadPid, {})
          /\ target' = ReadPid /\ vpc' = "holder" /\ forced' = TRUE
          /\ UNCHANGED <<verb, rtarget, found, asked>>
    /\ UNCHANGED <<installed, refused>>

(* ... then the round the sidecar names, if it names one, ...               *)
FindRound ==
    /\ vpc = "holder"
    /\ rtarget' = ReadHolder
    /\ found' = (ReadHolder # None /\ parent[ReadHolder] = target)
    /\ vpc' = IF ReadHolder # None THEN "round_grace" ELSE "serve_grace"
    /\ UNCHANGED <<installed, refused, serves, rounds, files, locks, systemd, verb,
                   target, asked, forced>>

(* ... which has _ROUND_TERM_GRACE_S before SIGKILL, ...                    *)
RoundGrace ==
    /\ vpc = "round_grace"
    /\ \/ round[rtarget] = "none" /\ UNCHANGED <<rounds, round_lock>>
       \/ round[rtarget] # "none" /\ RoundsDie({rtarget})
    /\ vpc' = "serve_grace"
    /\ UNCHANGED <<installed, refused, serves, files, serve_lock, systemd, verb, target,
                   rtarget, found, asked, forced>>

(* ... and the serve, which has _PID_SIGNAL_GRACE_S.                        *)
ServeGrace ==
    /\ vpc = "serve_grace"
    /\ \/ /\ serve[target] = "none"
          /\ UNCHANGED <<serves, rounds, files, locks, systemd>>
       \/ serve[target] # "none" /\ ServeDies(target, "failure", {})
    /\ AskedAfterKill /\ Continue
    /\ UNCHANGED <<installed, refused, forced>>

(* Mutant: a start behind a drain times out and is dropped.                 *)
RespawnImpatient ==
    /\ vpc = "respawn"
    /\ \/ unit \in Down /\ StartVerb
       \/ /\ unit \notin Down
          /\ UNCHANGED <<serves, rounds, files, locks, systemd, refused>>
    /\ Done
    /\ UNCHANGED <<installed, asked, forced>>

(* restart brings the unit back: at once, or behind the drain.              *)
Respawn ==
    /\ vpc = "respawn"
    /\ \/ unit \in Down /\ StartVerb
       \/ /\ unit \notin Down
          /\ start_job' = (unit # "active")
          /\ UNCHANGED <<serves, rounds, files, locks, unit, main, refused>>
    /\ Done
    /\ UNCHANGED <<installed, asked, forced>>

-----------------------------------------------------------------------------
ServeNext(s) ==
    \/ AcquireServeLock(s) \/ ArmSignals(s) \/ WritePid(s) \/ PassGates(s)
    \/ SpawnChild(s) \/ RoundOver(s) \/ UnlinkPid(s) \/ ReleaseServeLock(s)

RoundNext(r) ==
    \/ AcquireRoundLock(r) \/ WriteHolderSidecar(r) \/ UnlinkHolder(r)
    \/ ReleaseRoundLock(r)

VerbNext ==
    \/ Admit \/ RouteStart \/ RouteStop \/ ConfirmStop \/ KillUnit \/ UnitGrace
    \/ KillPlain \/ FindRound \/ RoundGrace \/ ServeGrace \/ Respawn

Next ==
    \/ \E s \in Serves :
          \/ HandLaunch(s) \/ ServeNext(s) \/ BootFails(s) \/ ServeCrashes(s)
          \/ UnitStarts(s)
    \/ \E r \in Rounds : RoundNext(r)
    \/ \E v \in Verbs : Invoke(v)
    \/ VerbNext
    \/ UnitRefused \/ SystemctlFails

Spec == Init /\ [][Next]_vars

(* Processes that run get the processor, systemd works off its queue, a     *)
(* verb's waits are bounded, and a round ends within its budget             *)
(* (SpawnRound).  Nobody has to type anything.                              *)
LiveSpec ==
    /\ Spec
    /\ \A s \in Serves : WF_vars(ServeNext(s)) /\ WF_vars(UnitStarts(s))
    /\ \A r \in Rounds : WF_vars(RoundNext(r))
    /\ WF_vars(VerbNext)

-----------------------------------------------------------------------------
(* stop and kill find the loop that runs: whichever serves were started,    *)
(* crashed and cleaned up before, serve.pid names the one in its loop.      *)
LoopIsNamed == \A s \in Serves : serve[s] \in InLoop => pid_file = s

(* kill finds the round that runs: the .holder sidecar names the round in   *)
(* flight, orphans of a dead serve included.                                *)
RoundIsNamed == \A r \in Rounds : round[r] = "running" => holder = r

(* Only force ends a round that has taken its lock: stop, restart, a unit   *)
(* stop or a give-up let it reach its own finally clause.                   *)
GracefulDrains ==
    [][\A r \in Rounds :
          round[r] \in {"locked", "running"} /\ round'[r] = "none" => forced']_vars

(* SIGTERM to the serve comes first so that no new round replaces the one   *)
(* kill is about to end: when kill found the round of the serve it          *)
(* signalled, no round of that serve outlives the verb.                     *)
FoundRoundEnds == vpc = "serve_grace" /\ found =>
                    \A r \in Rounds : parent[r] # target

(* restart never half-executes ("the half-execution restart must never      *)
(* produce"): once it has asked for the stop, the unit comes back unless     *)
(* the operator asks otherwise, or systemd refuses a start or a systemctl   *)
(* call of the verb fails: the unit may then stay down.                     *)
RestartReturns ==
    verb \in {"restart", "restart_force"} /\ vpc \in {"confirm", "unit_grace", "respawn"}
        ~> unit = "active" \/ asked = "down" \/ refused
=============================================================================
