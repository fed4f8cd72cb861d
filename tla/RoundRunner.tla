----------------------------- MODULE RoundRunner -----------------------------
(***************************************************************************)
(* The round itself: run_one_round in agent_runner/runner.py, with the      *)
(* dirty-tree policy of vcs_state.py, the files of context_store.py and the *)
(* round numbers of round_log.py.  A round is a process; serve spawns it    *)
(* with a number in its environment, or a user starts one by hand, and      *)
(* agent-runner.lock lets one at a time through.                            *)
(*                                                                         *)
(* A file the agent changes is a number, fresh each time; the paths of a    *)
(* log_dir inside the tree are one path, LogPath.  A stash is known by its  *)
(* SHA, here its position in stash.  Left out: prompts, hooks, goal  *)
(* checks, metrics, the pruning of old logs, stashes dropped by a user, and *)
(* the agent's own end (AgentRun).                                          *)
(***************************************************************************)
EXTENDS Integers, Sequences

CONSTANTS
    Procs,      \* process slots for rounds
    None,       \* no process
    Configs,    \* configurations to explore
    MaxNum,     \* bound: round numbers
    MaxRounds,  \* bound: rounds that reach round_start
    MaxWork     \* bound: changes the agents make

HazardKinds == {"hand", "orphan", "abort", "rot", "git_timeout", "git_fails"}

ConfigType ==
    [dirty_action : {"stash", "ignore", "auto_commit"},
     log_dir : {"outside", "in_tree"},   \* "outside" also if git ignores it
     hazards : SUBSET HazardKinds]

ASSUME RoundRunnerAssumption ==
    /\ None \notin Procs
    /\ MaxNum \in Nat /\ MaxRounds \in Nat /\ MaxWork \in Nat
    /\ Configs \subseteq ConfigType

VARIABLES
    cfg,
    serve_num,     \* the number serve has computed and not used yet, or 0
    serve_child,   \* the round serve waits for
    pc, env_num,   \* where each round is; AGENT_RUNNER_ROUND_NUM, 0 if unset
    lock,          \* the holder of agent-runner.lock
    round_num, orphan_block, result, dirty,   \* locals of the holder
    status,        \* status.json's round_num, 0 when missing or unreadable
    serve_log,     \* the highest n of the round-<n>.log files
    orphan,        \* orphan-state.json: [ref, files]; ref 0 when there is none
    tree,          \* uncommitted changes
    stash,         \* every stash made: [round, files]
    recent,        \* the newest stash, while younger than stash_idempotency_s
    \* history
    made,          \* changes made so far
    started,       \* rounds that emitted round_start: [num, by]
    announced,     \* stashes some agent was told of
    recorded,      \* stashes written to orphan-state.json
    dropped        \* rounds a GitTimeout ended after their agent

locals == <<round_num, orphan_block, result, dirty>>
serve == <<serve_num, serve_child>>
git == <<tree, stash, recent, made>>
files == <<status, serve_log, orphan>>
history == <<started, announced, recorded, dropped>>
vars == <<cfg, serve, pc, env_num, lock, locals, files, git, history>>

Nums == 0..MaxNum
Refs == 0..Len(stash)
Places == {"none", "start", "inner", "begun", "agent", "exited", "resolve",
           "listing", "status", "end"}
Work == 1..MaxWork
LogPath == 0
Paths == Work \cup {LogPath}

TypeOK ==
    /\ cfg \in ConfigType
    /\ serve_num \in 0..(MaxNum + 1) /\ serve_child \in Procs \cup {None}
    /\ pc \in [Procs -> Places]
    /\ env_num \in [Procs -> Nums]
    /\ lock \in Procs \cup {None}
    /\ round_num \in Nums /\ orphan_block \in Refs
    /\ result \in {"none", "ok", "failed"} /\ dirty \subseteq Paths
    /\ status \in Nums /\ serve_log \in Nums
    /\ orphan \in [ref : Refs, files : SUBSET Paths]
    /\ tree \subseteq Work /\ made \in 0..MaxWork /\ recent \in Refs
    /\ stash \in Seq([round : Nums, files : SUBSET Work])
    /\ started \in Seq([num : Nums, by : {"serve", "hand"}])
    /\ announced \subseteq Nat /\ recorded \subseteq Nat
    /\ dropped \subseteq Nums

NoOrphanState == [ref |-> 0, files |-> {}]

Init ==
    /\ cfg \in Configs
    /\ serve_num = 0 /\ serve_child = None
    /\ pc = [p \in Procs |-> "none"] /\ env_num = [p \in Procs |-> 0]
    /\ lock = None
    /\ round_num = 0 /\ orphan_block = 0 /\ result = "none" /\ dirty = {}
    /\ status = 0 /\ serve_log = 0 /\ orphan = NoOrphanState
    /\ tree = {} /\ stash = <<>> /\ recent = 0 /\ made = 0
    /\ started = <<>> /\ announced = {} /\ recorded = {} /\ dropped = {}

Happens(hazard) == hazard \in cfg.hazards

-----------------------------------------------------------------------------
(* Serve and the users.                                                     *)

(* Mutant: the counter as status.json has it.                              *)
NextOfStatus == status + 1

Larger(m, n) == IF m > n THEN m ELSE n

NextRoundNum == Larger(status, serve_log) + 1

(* The loop top, after the previous round was reaped.  The number is used   *)
(* only after selection, gates and pauses.                                  *)
ServeNumbers ==
    /\ serve_child = None /\ serve_num = 0
    /\ serve_num' = NextRoundNum
    /\ UNCHANGED <<cfg, serve_child, pc, env_num, lock, locals, files, git, history>>

(* A pause leads back to the loop top; so does the death of a serve that    *)
(* had not spawned.                                                         *)
ServePauses ==
    /\ serve_num # 0
    /\ serve_num' = 0
    /\ UNCHANGED <<cfg, serve_child, pc, env_num, lock, locals, files, git, history>>

(* round-<n>.log is opened with "w", then the child is started.             *)
ServeSpawns ==
    /\ serve_num \in 1..MaxNum
    /\ \E p \in Procs :
          /\ pc[p] = "none"
          /\ pc' = [pc EXCEPT ![p] = "start"]
          /\ env_num' = [env_num EXCEPT ![p] = serve_num]
          /\ serve_child' = p
    /\ serve_log' = Larger(serve_log, serve_num)
    /\ serve_num' = 0
    /\ UNCHANGED <<cfg, lock, locals, status, orphan, git, history>>

ServeReaps ==
    /\ serve_child # None /\ pc[serve_child] = "none"
    /\ serve_child' = None
    /\ UNCHANGED <<cfg, serve_num, pc, env_num, lock, locals, files, git, history>>

(* A plain serve is killed and started again; its round runs on.            *)
ServeDies ==
    /\ Happens("orphan") /\ serve_child # None
    /\ serve_child' = None
    /\ UNCHANGED <<cfg, serve_num, pc, env_num, lock, locals, files, git, history>>

HandStarts ==
    /\ Happens("hand")
    /\ \E p \in Procs :
          /\ pc[p] = "none" /\ p # serve_child
          /\ pc' = [pc EXCEPT ![p] = "start"]
    /\ UNCHANGED <<cfg, serve, env_num, lock, locals, files, git, history>>

-----------------------------------------------------------------------------
(* The round, up to its agent.                                              *)

(* A process is gone, and with it its locals and its flock.                 *)
Leave(p) ==
    /\ pc' = [pc EXCEPT ![p] = "none"] /\ env_num' = [env_num EXCEPT ![p] = 0]
    /\ lock' = None
    /\ round_num' = 0 /\ orphan_block' = 0 /\ result' = "none" /\ dirty' = {}

(* The startup battery fails, or another round has the lock.                *)
RoundRefused(p) ==
    /\ pc[p] = "start"
    /\ pc' = [pc EXCEPT ![p] = "none"] /\ env_num' = [env_num EXCEPT ![p] = 0]
    /\ UNCHANGED <<cfg, serve, lock, locals, files, git, history>>

AcquireLock(p) ==
    /\ pc[p] = "start" /\ lock = None
    /\ lock' = p
    /\ pc' = [pc EXCEPT ![p] = "inner"]
    /\ UNCHANGED <<cfg, serve, env_num, locals, files, git, history>>

(* _resolve_round_num: serve's number, or the counter serve uses.           *)
ResolveRoundNum(p) == IF env_num[p] # 0 THEN env_num[p] ELSE NextRoundNum

(* Mutant: the note is consumed when it is read.                            *)
BeginConsumes(p) ==
    /\ pc[p] = "inner"
    /\ ResolveRoundNum(p) \in Nums /\ Len(started) < MaxRounds
    /\ round_num' = ResolveRoundNum(p)
    /\ orphan_block' = orphan.ref /\ orphan' = NoOrphanState
    /\ started' = Append(started,
          [num |-> ResolveRoundNum(p), by |-> IF env_num[p] # 0 THEN "serve" ELSE "hand"])
    /\ pc' = [pc EXCEPT ![p] = "begun"]
    /\ UNCHANGED <<cfg, serve, env_num, lock, result, dirty, status, serve_log, git,
                   announced, recorded, dropped>>

(* Up to round_start: the number, the note of the last stash, the context.  *)
Begin(p) ==
    /\ pc[p] = "inner"
    /\ ResolveRoundNum(p) \in Nums /\ Len(started) < MaxRounds
    /\ round_num' = ResolveRoundNum(p)
    /\ orphan_block' = orphan.ref
    /\ UNCHANGED <<result, dirty>>
    /\ started' = Append(started,
          [num |-> ResolveRoundNum(p), by |-> IF env_num[p] # 0 THEN "serve" ELSE "hand"])
    /\ pc' = [pc EXCEPT ![p] = "begun"]
    /\ UNCHANGED <<cfg, serve, env_num, lock, files, git, announced, recorded, dropped>>

(* The agent starts, with orphan_stash in its prompt.                       *)
Spawn(p) ==
    /\ pc[p] = "begun"
    /\ announced' = announced \cup ({orphan_block} \ {0})
    /\ pc' = [pc EXCEPT ![p] = "agent"]
    /\ UNCHANGED <<cfg, serve, env_num, lock, locals, files, git, started, recorded, dropped>>

-----------------------------------------------------------------------------
(* The agent.                                                               *)

AgentWorks(p) ==
    /\ pc[p] = "agent" /\ made < MaxWork
    /\ made' = made + 1 /\ tree' = tree \cup {made + 1}
    /\ UNCHANGED <<cfg, serve, pc, env_num, lock, locals, files, stash, recent, history>>

(* It applies the stash it was told of.                                     *)
AgentSalvages(p) ==
    /\ pc[p] = "agent" /\ orphan_block # 0
    /\ tree' = tree \cup stash[orphan_block].files
    /\ UNCHANGED <<cfg, serve, pc, env_num, lock, locals, files, stash, recent, made, history>>

AgentCommits(p) ==
    /\ pc[p] = "agent"
    /\ tree' = {}
    /\ UNCHANGED <<cfg, serve, pc, env_num, lock, locals, files, stash, recent, made, history>>

(* "ok": result.ok or result.killed_for_grace.                                *)
AgentExits(p) ==
    /\ pc[p] = "agent"
    /\ result' \in {"ok", "failed"}
    /\ pc' = [pc EXCEPT ![p] = "exited"]
    /\ UNCHANGED <<cfg, serve, env_num, lock, round_num, orphan_block, dirty, files, git, history>>

-----------------------------------------------------------------------------
(* After the agent.  Every git call has a time limit, and may fail.         *)

(* git status lists the runner's own files too when log_dir is in the tree:  *)
(* it changes all the time.                                                 *)
LogPaths == IF cfg.log_dir = "in_tree" THEN {LogPath} ELSE {}

(* detect_dirty_files; of a failing git it is an empty list: a clean tree.  *)
DirtyFiles(readable) == IF readable THEN tree \cup LogPaths ELSE {}

CheckDirty(p) ==
    /\ pc[p] = "exited"
    /\ \E readable \in {TRUE} \cup {~Happens("git_fails")} :
          /\ dirty' = DirtyFiles(readable)
          /\ pc' = [pc EXCEPT ![p] = IF dirty' # {} /\ result = "ok" THEN "resolve" ELSE "status"]
          /\ orphan' = IF dirty' # {} THEN orphan ELSE NoOrphanState
    /\ UNCHANGED <<cfg, serve, env_num, lock, round_num, orphan_block, result, status, serve_log,
                   git, history>>

(* dirty_check_failed: the tree is unknown, the note stays.                 *)
CheckTimesOut(p) ==
    /\ pc[p] = "exited" /\ Happens("git_timeout")
    /\ pc' = [pc EXCEPT ![p] = "status"]
    /\ UNCHANGED <<cfg, serve, env_num, lock, locals, files, git, history>>

Commit(p) ==
    /\ pc[p] = "resolve" /\ cfg.dirty_action = "auto_commit" /\ tree # {}
    /\ tree' = {}
    /\ pc' = [pc EXCEPT ![p] = "status"]
    /\ UNCHANGED <<cfg, serve, env_num, lock, locals, files, stash, recent, made, history>>

(* The message of a stash of round m starts with "ORPHAN R<n>": dropping    *)
(* some of m's last digits leaves n.                                        *)
StartsWith(m, n) == \E k \in 0..MaxNum : m \div 10 ^ k = n

(* Mutant: any stash in the window is taken for this round's.               *)
RecentOrphanOfAny == recent # 0

(* _recent_orphan_for_round: only the newest stash, only within the window. *)
RecentOrphanForRound ==
    recent # 0 /\ StartsWith(stash[recent].round, round_num)

(* DirtyOutcome "ignored": by policy, or a git add, commit or stash push    *)
(* that failed or timed out, or had nothing to take once log_dir was        *)
(* excluded, or the listing after the push that failed.                     *)
Ignored(p) ==
    /\ \/ pc[p] = "resolve" /\ cfg.dirty_action = "ignore"
       \/ /\ pc[p] = "resolve" /\ tree = {}
          /\ cfg.dirty_action = "auto_commit" \/ ~RecentOrphanForRound
       \/ pc[p] = "resolve" /\ (Happens("git_timeout") \/ Happens("git_fails"))
       \/ pc[p] = "listing" /\ Happens("git_fails")
    /\ pc' = [pc EXCEPT ![p] = "status"]
    /\ UNCHANGED <<cfg, serve, env_num, lock, locals, files, git, history>>

WriteOrphanState(ref) ==
    /\ orphan' = [ref |-> ref, files |-> dirty]
    /\ recorded' = recorded \cup {ref}

(* orphan_idempotent_skip: nothing is stashed, the old stash is noted.      *)
ReuseStash(p) ==
    /\ pc[p] = "resolve" /\ cfg.dirty_action = "stash"
    /\ RecentOrphanForRound
    /\ WriteOrphanState(Len(stash))
    /\ pc' = [pc EXCEPT ![p] = "status"]
    /\ UNCHANGED <<cfg, serve, env_num, lock, locals, status, serve_log, git,
                   started, announced, dropped>>

(* `git stash push -u` takes the tree without log_dir.                      *)
StashPush(p) ==
    /\ pc[p] = "resolve" /\ cfg.dirty_action = "stash" /\ tree # {}
    /\ ~RecentOrphanForRound
    /\ stash' = Append(stash, [round |-> round_num, files |-> tree])
    /\ tree' = {} /\ recent' = Len(stash) + 1
    /\ pc' = [pc EXCEPT ![p] = "listing"]
    /\ UNCHANGED <<cfg, serve, env_num, lock, locals, files, made, history>>

(* git stash list gives the new stash its SHA; then the note, then          *)
(* orphan_stashed.                                                          *)
NoteStash(p) ==
    /\ pc[p] = "listing"
    /\ WriteOrphanState(Len(stash))
    /\ pc' = [pc EXCEPT ![p] = "status"]
    /\ UNCHANGED <<cfg, serve, env_num, lock, locals, status, serve_log, git,
                   started, announced, dropped>>

WriteStatus(p) ==
    /\ pc[p] = "status"
    /\ status' = round_num
    /\ pc' = [pc EXCEPT ![p] = "end"]
    /\ UNCHANGED <<cfg, serve, env_num, lock, locals, serve_log, orphan, git, history>>

(* round_end, the hooks, and run_one_round's finally.                       *)
EndRound(p) ==
    /\ pc[p] = "end"
    /\ Leave(p)
    /\ UNCHANGED <<cfg, serve, files, git, history>>

(* The round ends early: SIGTERM, an exception, a crash of the process.     *)
Abort(p) ==
    /\ Happens("abort") /\ lock = p
    /\ Leave(p)
    /\ UNCHANGED <<cfg, serve, files, git, history>>

(* A GitTimeout inside resolve_dirty_tree that nothing translates: the      *)
(* second git status, stash list and check-ignore before the push, or the   *)
(* listing after it; rev-parse after the commit.                            *)
GitTimeout(p) ==
    /\ Happens("git_timeout")
    /\ \/ pc[p] = "resolve" /\ cfg.dirty_action # "ignore" /\ UNCHANGED tree
       \/ pc[p] = "resolve" /\ cfg.dirty_action = "auto_commit" /\ tree' = {}
       \/ pc[p] = "listing" /\ UNCHANGED tree
    /\ dropped' = dropped \cup {round_num}
    /\ Leave(p)
    /\ UNCHANGED <<cfg, serve, files, stash, recent, made,
                   started, announced, recorded>>

-----------------------------------------------------------------------------
(* stash_idempotency_s passes since the newest stash.                       *)
WindowPasses ==
    /\ recent # 0 /\ recent' = 0
    /\ UNCHANGED <<cfg, serve, pc, env_num, lock, locals, files, tree, stash, made, history>>

(* status.json is deleted or becomes unreadable: read_status gives None.    *)
StatusRots ==
    /\ Happens("rot") /\ status # 0 /\ status' = 0
    /\ UNCHANGED <<cfg, serve, pc, env_num, lock, locals, serve_log, orphan, git, history>>

ServeStep == ServeNumbers \/ ServePauses \/ ServeSpawns \/ ServeReaps \/ ServeDies

RoundStep(p) ==
    \/ RoundRefused(p) \/ AcquireLock(p) \/ Begin(p) \/ Spawn(p)
    \/ AgentWorks(p) \/ AgentSalvages(p) \/ AgentCommits(p) \/ AgentExits(p)
    \/ CheckDirty(p) \/ CheckTimesOut(p) \/ Ignored(p) \/ Commit(p)
    \/ ReuseStash(p) \/ StashPush(p) \/ NoteStash(p)
    \/ WriteStatus(p) \/ EndRound(p) \/ Abort(p) \/ GitTimeout(p)

Next ==
    \/ ServeStep \/ HandStarts
    \/ \E p \in Procs : RoundStep(p)
    \/ WindowPasses \/ StatusRots

Spec == Init /\ [][Next]_vars

-----------------------------------------------------------------------------
(* Two rounds with the same number: at least one was started by hand.       *)
(* Whatever crashes, is killed or is lost of status.json, serve never       *)
(* numbers two rounds alike (next_round_num, _resolve_round_num).           *)
UniqueNumbers ==
    \A i, j \in DOMAIN started :
        /\ i # j
        /\ started[i].num = started[j].num
        => started[i].by = "hand" \/ started[j].by = "hand"

(* The number serve is about to spawn with names no existing log, although  *)
(* it was computed before the pauses: open("w") truncates nothing.          *)
FreshLog == serve_num # 0 => serve_num > serve_log

(* A stash that was written to orphan-state.json is still there to be read  *)
(* by the next round, or some agent was told of it: no failing git, dying   *)
(* round or second note makes a noted stash disappear unseen.               *)
StashAnnounced == recorded \subseteq announced \cup {orphan.ref}

(* No round's number is another's, or the beginning of another's (1 and 10). *)
NumbersTellApart ==
    \A i, j \in DOMAIN started : StartsWith(started[i].num, started[j].num) => i = j

(* What an agent will look for in the stash it is told of is there: every   *)
(* file the note names is in its stash, except the paths of a log_dir       *)
(* inside the tree (listed as dirty, excluded from the push) and unless     *)
(* rounds had numbers that a stash's message cannot tell apart: the         *)
(* idempotency window takes a stash for this round's own by the prefix of   *)
(* its message.                                                             *)
NoteIsTrue ==
    NumbersTellApart /\ orphan.ref # 0
        => orphan.files \ {LogPath} \subseteq stash[orphan.ref].files

(* runner.py, before the dirty check: "A GitTimeout here must not lose the  *)
(* round's OWN bookkeeping".                                                *)
GitTimeoutKeepsBooks == dropped = {}
=============================================================================
