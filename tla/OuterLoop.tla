----------------------------- MODULE OuterLoop ------------------------------
(***************************************************************************)
(* One script of examples/outer_loop (or examples/between_rounds) beside a  *)
(* serve.  The serve side is what a script sees of it: serve.pid, the       *)
(* events of its rounds, the gap between them, the stop file; serve itself  *)
(* is ServeLoop.  The script polls, decides on what it read, and writes a   *)
(* step later: whatever happens in between is in the model.  Time is a      *)
(* tick; a script takes a step at least every Lag ticks.                    *)
(***************************************************************************)
EXTENDS GapLog

CONSTANTS
    Recipes,      \* scripts to explore
    Outcomes,     \* per recipe, what a round can leave: [cost, check, value]
    Configs,      \* per recipe, contents of agent-runner.toml and the queue
    Lag,          \* ticks a script can take between two of its steps
    HookTime,     \* bound: ticks the hooks take after round_end
    MaxFaults,    \* bound: restarts of serve and of the script, month turns
    MaxRound      \* bound: round numbers; this one is not followed to its end

SC == INSTANCE SpendCeiling
TA == INSTANCE ToolAllow
RF == INSTANCE RepeatFail
RE == INSTANCE RsiExam
SD == INSTANCE SerialDiscard
KA == INSTANCE Karpathy
CW == INSTANCE CourseWriters
PW == INSTANCE PlainWatchers

AllRecipes ==
    {"spend_ceiling", "tool_allow", "repeat_fail", "rsi_exam", "serial_discard",
     "karpathy", "ace", "rsi_agent", "ralph", "longhorizon", "between_rounds"}

(* The recipes with a window that ends before the delay does. *)
Guarded == {"spend_ceiling", "tool_allow", "repeat_fail", "serial_discard"}

Checks == {"none", "skipped", "red", "green"}
Result == [cost : Nat, check : Checks, value : Nat]
Config == [rounds : Nat, stop_file : BOOLEAN, delay : Nat, command : STRING,
           dirty_action : STRING, prompt : STRING, queue : {"good", "bad"}]

ASSUME OuterLoopAssumption ==
    /\ Recipes \subseteq AllRecipes
    /\ {Lag, HookTime, MaxFaults, MaxRound} \subseteq Nat
    /\ Lag > 0
    /\ \A r \in Recipes : Outcomes[r] \subseteq Result /\ Configs[r] \subseteq Config

VARIABLES
    recipe, conf,
    phase,      \* of serve: down, top, round, checked, hooks, gap
    life,       \* serves started so far; the newest is the one that may live
    num, done,  \* its round number, and the rounds it has completed
    rest,       \* ticks since the round process ended
    pidfile,    \* serve.pid: the serve it names, or 0
    squat,      \* the dead serve whose pid another process has, or 0
    log, old,   \* the events, and how many are in last month's file
    since,      \* ticks since the newest round_end, until a round starts
    ran_by,     \* the serve that ran each round
    results,    \* what each round leaves: [cost, check, value]
    files, edited,
    pc,         \* of the script: off, latch, poll, exam, write, swap, done
    latched, acted, already, seen, seed, todo,
    idle,       \* ticks since the script's last step
    starts,
    \* history
    writes,     \* the writes made: [what, n, where, own, by]
    attentive,  \* the script has been polling since this round's end
    in_reach    \* and spend_ceiling can have judged the round in its window

serve == <<phase, life, num, done, rest, pidfile, squat, ran_by, results>>
record == <<log, old, since>>
script == <<latched, acted, already, seen, seed, todo, starts>>
vars == <<recipe, conf, serve, record, files, edited, pc, script, idle,
          writes, attentive, in_reach>>

(* One serve and one script start for free. *)
Faults == (IF life > 1 THEN life - 1 ELSE 0) + (IF starts > 1 THEN starts - 1 ELSE 0)
          + (IF old > 0 THEN 1 ELSE 0)
MayStart(count) == count = 0 \/ Faults < MaxFaults

ServeUp == IF phase = "down" THEN 0 ELSE life

View ==
    [rec |-> pidfile, serve |-> ServeUp, squat |-> squat, log |-> log,
     old |-> old, since |-> since, files |-> files, conf |-> conf,
     edited |-> edited, latched |-> latched, acted |-> acted,
     already |-> already, seen |-> seen, seed |-> seed]

Event(ev, n, o) == [ev |-> ev, n |-> n, cost |-> o.cost, check |-> o.check,
                    value |-> o.value]
Bare == [cost |-> 0, check |-> "none", value |-> 0]

Latches == recipe \notin {"ralph", "longhorizon", "between_rounds"}
Busy == pc \in {"poll", "exam", "write", "swap"}

Init ==
    /\ recipe \in Recipes
    /\ conf \in Configs[recipe]
    /\ phase = "down" /\ life = 0 /\ num = 0 /\ done = 0 /\ rest = 0
    /\ pidfile = 0 /\ squat = 0
    /\ results = <<>> /\ ran_by = <<>>
    /\ log = <<>> /\ old = 0 /\ since = DELAY_S + 1
    /\ files = [stop |-> FALSE, extra |-> 0, source |-> 0, snapshot |-> 0,
                prompt |-> "boot", queue |-> conf.queue, score |-> 0]
    /\ edited = FALSE
    /\ pc = "off" /\ latched = 0 /\ acted = {} /\ already = {}
    /\ seen = 0 /\ seed = 0 /\ todo = Nothing /\ starts = 0 /\ idle = 0
    /\ writes = {} /\ attentive = FALSE /\ in_reach = FALSE

----------------------------------------------------------------------------
(* Serve, as the scripts see it. *)

(* Also a restart by systemd; the pid record is written at boot. *)
ServeStart ==
    /\ phase = "down" /\ MayStart(life)
    /\ phase' = "top" /\ life' = life + 1 /\ pidfile' = life + 1
    /\ done' = 0 /\ rest' = DELAY_S
    /\ UNCHANGED <<recipe, conf, num, squat, ran_by, results, record, files, edited, pc,
                   script, idle, writes, attentive, in_reach>>

(* A clean exit removes serve.pid. *)
ServeExits(ev) ==
    /\ phase' = "down" /\ pidfile' = 0
    /\ log' = Append(log, Event(ev, num, Bare))
    /\ UNCHANGED <<life, num, done, rest, squat, ran_by, results, old, since, files>>

(* The top of the loop, after the delay or when the stop file cuts it short. *)
ServeTop ==
    /\ \/ phase = "top"
       \/ phase = "gap" /\ (rest >= conf.delay \/ (conf.stop_file /\ files.stop))
    /\ IF (conf.stop_file /\ files.stop) \/ done >= conf.rounds
       THEN ServeExits("finished")
       ELSE /\ num < MaxRound
            /\ results' = Append(results, Bare)
            /\ ran_by' = Append(ran_by, life)
            /\ phase' = "round" /\ num' = num + 1
            /\ log' = Append(log, Event("round_start", num + 1, Bare))
            /\ files' = [files EXCEPT !.source = num + 1]
            /\ since' = DELAY_S + 1
            /\ UNCHANGED <<life, done, rest, pidfile, squat, old>>
    /\ UNCHANGED <<recipe, conf, edited, pc, script, idle, writes, attentive, in_reach>>

(* The goal check runs before round_end. *)
GoalCheck ==
    /\ phase = "round" /\ num < MaxRound
    /\ phase' = "checked"
    /\ \E o \in Outcomes[recipe] :
          /\ results' = [results EXCEPT ![num].check = o.check, ![num].value = o.value]
          /\ log' = IF o.check = "none" THEN log
                    ELSE Append(log, Event("goal_check", num, o))
    /\ UNCHANGED <<recipe, conf, life, num, done, rest, pidfile, squat, ran_by,
                   old, since, files, edited, pc, script, idle, writes, attentive, in_reach>>

(* The ended rounds the script has not acted on.                             *)
Pending == Numbers(log, "round_end") \ acted

RoundEnd ==
    /\ phase = "checked"
    /\ phase' = "hooks" /\ since' = 0
    /\ log' = Append(log, Event("round_end", num, Bare))
    /\ attentive' = (Busy /\ (Latches => latched = life))
    /\ in_reach' = (recipe = "spend_ceiling"
                      => Cardinality(Pending \cup {num}) * Lag <= WRITE_BEFORE_S)
    /\ UNCHANGED <<recipe, conf, life, num, done, rest, pidfile, squat, ran_by, results,
                   old, files, edited, pc, script, idle, writes>>

(* The plugin's post-round hook records the usage; the round process ends.   *)
HooksEnd ==
    /\ phase = "hooks"
    /\ phase' = "gap" /\ done' = done + 1 /\ rest' = 0
    /\ \E o \in Outcomes[recipe] :
          /\ results' = [results EXCEPT ![num].cost = o.cost]
          /\ log' = IF o.cost = 0 THEN log
                    ELSE Append(log, Event("usage", num, o))
    /\ in_reach' = (in_reach /\ (recipe = "spend_ceiling" => since < SETTLE_S))
    /\ UNCHANGED <<recipe, conf, life, num, pidfile, squat, ran_by, old, since,
                   files, edited, pc, script, idle, writes, attentive>>

ServeGivesUp ==
    /\ phase = "gap" /\ rest = 0
    /\ ServeExits("give_up")
    /\ UNCHANGED <<recipe, conf, edited, pc, script, idle, writes, attentive, in_reach>>

(* serve.pid stays behind. *)
ServeCrash ==
    /\ phase # "down"
    /\ phase' = "down"
    /\ UNCHANGED <<recipe, conf, life, num, done, rest, pidfile, squat, ran_by, results,
                   record, files, edited, pc, script, idle, writes, attentive, in_reach>>

PidReused ==
    /\ pidfile # 0 /\ phase = "down" /\ squat # pidfile
    /\ squat' = pidfile
    /\ UNCHANGED <<recipe, conf, phase, life, num, done, rest, pidfile, ran_by, results,
                   record, files, edited, pc, script, idle, writes, attentive, in_reach>>

MonthTurns ==
    /\ recipe \in {"longhorizon", "between_rounds"}
    /\ old = 0 /\ log # <<>> /\ Faults < MaxFaults
    /\ old' = Len(log)
    /\ UNCHANGED <<recipe, conf, serve, log, since, files, edited, pc, script,
                   idle, writes, attentive, in_reach>>

EditsConfig ==
    /\ recipe \in {"repeat_fail", "rsi_exam"} /\ pc = "poll" /\ ~edited
    /\ edited' = TRUE
    /\ UNCHANGED <<recipe, conf, serve, record, files, pc, script, idle, writes,
                   attentive, in_reach>>

(* Someone leaves a prompt in the queue. *)
Queues ==
    /\ recipe = "between_rounds" /\ files.queue = "none"
    /\ files' = [files EXCEPT !.queue = conf.queue]
    /\ UNCHANGED <<recipe, conf, serve, record, edited, pc, script, idle, writes,
                   attentive, in_reach>>

----------------------------------------------------------------------------
(* The script. *)

Refuses ==
    \/ recipe = "spend_ceiling" /\ SC!Refuses(View)
    \/ recipe = "tool_allow" /\ TA!Refuses(View)
    \/ recipe = "repeat_fail" /\ RF!Refuses(View)
    \/ recipe = "rsi_exam" /\ RE!Refuses(View)
    \/ recipe = "serial_discard" /\ SD!Refuses(View)

(* What a script reads once, before its loop. *)
SeedAtStart ==
    CASE recipe = "rsi_exam" -> files.score
      [] recipe \in {"ace", "rsi_agent"} -> files.extra
      [] recipe = "karpathy" -> files.snapshot
      [] recipe = "between_rounds" -> old
      [] OTHER -> 0

Alive ==
    \/ recipe = "spend_ceiling" /\ SC!Alive(View)
    \/ recipe = "tool_allow" /\ TA!Alive(View)
    \/ recipe = "repeat_fail" /\ RF!Alive(View)
    \/ recipe = "rsi_exam" /\ RE!Alive(View)
    \/ recipe = "serial_discard" /\ SD!Alive(View)
    \/ recipe = "karpathy" /\ KA!Alive(View)
    \/ recipe = "ace" /\ CW!Alive(View)
    \/ recipe = "rsi_agent" /\ CW!RsiAlive(View)

Finished ==
    \/ recipe = "spend_ceiling" /\ SC!Finished(View)
    \/ recipe = "tool_allow" /\ TA!Finished(View)
    \/ recipe = "repeat_fail" /\ RF!Finished(View)
    \/ recipe = "rsi_exam" /\ RE!Finished(View)
    \/ recipe = "serial_discard" /\ SD!Finished(View)
    \/ recipe = "karpathy" /\ KA!Finished(View)
    \/ recipe = "ace" /\ CW!Finished(View)
    \/ recipe = "rsi_agent" /\ CW!RsiFinished(View)
    \/ recipe = "ralph" /\ PW!RalphFinished(View)
    \/ recipe = "longhorizon" /\ ~PW!LongAlive(View)
    \/ recipe = "between_rounds" /\ PW!GiveUpKind(PW!FollowRounds(View))

Pass ==
    CASE recipe = "spend_ceiling" -> SC!Pass(View)
      [] recipe = "tool_allow" -> TA!Pass(View)
      [] recipe = "repeat_fail" -> RF!Pass(View)
      [] recipe = "rsi_exam" -> RE!Pass(View)
      [] recipe = "serial_discard" -> SD!Pass(View)
      [] recipe = "karpathy" -> KA!Pass(View)
      [] recipe = "ace" -> CW!AcePass(View)
      [] recipe = "rsi_agent" -> CW!RsiPass(View)
      [] recipe = "ralph" -> PW!RalphPass(View)
      [] recipe = "longhorizon" -> [acted |-> {}, todo |-> PW!LongPass(View)]
      [] recipe = "between_rounds" -> [acted |-> {}, todo |-> PW!BetweenPass(View)]

(* How far into its file a script has read. *)
Seen ==
    CASE recipe = "longhorizon" /\ PW!LongFresh(View) -> Cardinality(PW!LatestChecks(View))
      [] recipe = "between_rounds" -> Len(PW!MonthFile(View))
      [] OTHER -> seen

Start ==
    /\ pc = "off" /\ MayStart(starts)
    /\ starts' = starts + 1 /\ idle' = 0
    /\ pc' = IF Refuses THEN "done" ELSE IF Latches THEN "latch" ELSE "poll"
    /\ latched' = 0 /\ acted' = {} /\ already' = {} /\ seen' = 0
    /\ seed' = SeedAtStart /\ todo' = Nothing
    /\ edited' = FALSE
    /\ UNCHANGED <<recipe, conf, serve, record, files, writes, attentive, in_reach>>

Latch ==
    /\ pc = "latch"
    /\ Alive
    /\ latched' = pidfile /\ pc' = "poll" /\ idle' = 0
    /\ UNCHANGED <<recipe, conf, serve, record, files, edited, acted, already,
                   seen, seed, todo, starts, writes, attentive, in_reach>>

Finish ==
    /\ pc = "poll" /\ Finished
    /\ pc' = "done" /\ idle' = 0 /\ attentive' = FALSE
    /\ UNCHANGED <<recipe, conf, serve, record, files, edited, script, writes,
                   in_reach>>

Poll ==
    /\ pc = "poll" /\ ~Finished
    /\ LET r == Pass
       IN  /\ acted' = r.acted /\ todo' = r.todo
           /\ pc' = IF r.todo = Nothing THEN "poll"
                    ELSE IF r.todo.what = "score" THEN "exam" ELSE "write"
    /\ seen' = Seen /\ idle' = 0
    /\ UNCHANGED <<recipe, conf, serve, record, files, edited, latched, already,
                   seed, starts, writes, attentive, in_reach>>

(* The exam has run: the events and the identity are read again. *)
Examined ==
    /\ pc = "exam"
    /\ pc' = IF RE!GateAfterExam(View) THEN "write" ELSE "poll"
    /\ idle' = 0
    /\ UNCHANGED <<recipe, conf, serve, record, files, edited, script, writes,
                   attentive, in_reach>>

(* What the recipe looks at again just before its write. *)
MayWrite ==
    /\ recipe = "spend_ceiling" => SC!MayWrite(View)
    /\ recipe = "tool_allow" => TA!MayWrite(View)
    /\ recipe = "repeat_fail" => RF!MayWrite(View)
    /\ recipe = "between_rounds" => conf.queue = "good"

Written ==
    CASE recipe = "spend_ceiling" -> SC!CreateStop(View)
      [] recipe = "tool_allow" -> TA!WritePrompt(View)
      [] recipe = "repeat_fail" -> RF!MaybeCreate(View)
      [] recipe = "rsi_exam" -> RE!WriteScore(View)
      [] recipe = "serial_discard" -> SD!ApplyGap(View)
      [] recipe = "karpathy" /\ todo.what = "discard" -> KA!RestoreSource(View)
      [] recipe = "karpathy" /\ todo.what = "keep" -> KA!KeepSource(View)
      [] recipe \in {"ace", "rsi_agent"} -> CW!AppendToSeed(View)
      [] recipe = "ralph" -> PW!CreateStop(View)
      [] recipe = "longhorizon" /\ todo.what = "append" -> PW!AppendOnce(View)
      [] recipe = "longhorizon" /\ todo.what = "retry" -> PW!ReplaceInstruction(View)
      [] recipe = "between_rounds" -> PW!ApplyQueuedPrompt(View)

(* Where serve is when a write for round n lands. *)
Where(n) ==
    IF phase = "down" \/ (Latches /\ life # latched) THEN "gone"
    ELSE IF num = n /\ phase \in {"hooks", "gap"} THEN "gap"
    ELSE IF phase = "top" THEN "boot"
    ELSE "round"

DoWrite ==
    /\ pc = "write"
    /\ IF MayWrite
       THEN /\ files' = Written
            /\ already' = already \cup {IF todo.what = "score" THEN "exam" ELSE todo.what}
            /\ writes' = writes \cup {[what |-> todo.what, n |-> todo.n,
                                       where |-> Where(todo.n), own |-> ran_by[todo.n] = latched,
                                       by |-> starts]}
            /\ pc' = IF todo.what = "discard" THEN "swap" ELSE "poll"
            /\ UNCHANGED <<acted, attentive>>
       ELSE /\ UNCHANGED <<files, already, writes>>
            /\ acted' = IF recipe \in {"spend_ceiling", "tool_allow"}
                        THEN acted \ {todo.n} ELSE acted
            /\ pc' = IF recipe = "between_rounds" THEN "done" ELSE "poll"
            /\ attentive' = (attentive /\ recipe # "between_rounds")
    /\ idle' = 0
    /\ UNCHANGED <<recipe, conf, serve, record, edited, latched, seen, seed, todo,
                   starts, in_reach>>

(* karpathy's second replacement. *)
Swap ==
    /\ pc = "swap"
    /\ files' = KA!SwapPrompt(View)
    /\ writes' = writes \cup {[what |-> "swap", n |-> todo.n,
                               where |-> Where(todo.n), own |-> ran_by[todo.n] = latched,
                                       by |-> starts]}
    /\ pc' = "poll" /\ idle' = 0
    /\ UNCHANGED <<recipe, conf, serve, record, edited, script, attentive, in_reach>>

(* The script is killed, or its own deadline passes. *)
ScriptDies ==
    /\ pc \in {"latch", "poll", "exam", "write", "swap", "done"}
    /\ MayStart(starts)
    /\ pc' = "off" /\ idle' = 0 /\ attentive' = FALSE
    /\ UNCHANGED <<recipe, conf, serve, record, files, edited, script, writes,
                   in_reach>>

(* The script is not slower than Lag. *)
Tick ==
    /\ Busy => idle < Lag
    /\ phase = "hooks" => since < HookTime
    /\ since' = IF since > DELAY_S THEN since ELSE since + 1
    /\ rest' = IF phase = "gap" /\ rest < DELAY_S THEN rest + 1 ELSE rest
    /\ idle' = IF Busy THEN idle + 1 ELSE 0
    /\ <<since, rest, idle>>' # <<since, rest, idle>>
    /\ UNCHANGED <<recipe, conf, phase, life, num, done, pidfile, squat, ran_by, results,
                   log, old, files, edited, pc, script, writes, attentive, in_reach>>

Next ==
    \/ ServeStart \/ ServeTop \/ GoalCheck \/ RoundEnd \/ HooksEnd
    \/ ServeGivesUp \/ ServeCrash \/ PidReused \/ MonthTurns \/ EditsConfig \/ Queues
    \/ Start \/ Latch \/ Finish \/ Poll \/ Examined \/ DoWrite \/ Swap \/ ScriptDies
    \/ Tick

Spec == Init /\ [][Next]_vars
----------------------------------------------------------------------------
(* A script with a window (WRITE_BEFORE_S) never writes into a round when the  *)
(* round it decided on was run by the serve it watches: as the write lands    *)
(* that serve is still in the gap, or gone.  It holds because a script is     *)
(* quicker than the margin that is left, and for the two scripts that refuse  *)
(* another restart_delay_s whatever the configuration says.  (A serve started *)
(* in another's gap has no gap of its own: its first round may be hit.)       *)
WritesInGap ==
    recipe \in Guarded /\ (recipe \in {"spend_ceiling", "tool_allow"}
                              \/ conf.delay = DELAY_S)
        => \A w \in writes : w.own => w.where # "round"

Total(n) ==
    LET sum[i \in 0..n] == IF i = 0 THEN 0 ELSE sum[i - 1] + results[i].cost
    IN  sum[n]

Ended(n) == n \in Numbers(log, "round_end")

(* Every write has the cause its recipe names, judged on what the rounds      *)
(* really left and not on what the script read: the costs, the checks, the    *)
(* round that had to end, the file and the queue the recipe asks for.         *)
Earned(w) ==
    LET r == results[w.n]
    IN  \/ /\ w.what = "stop" /\ Ended(w.n)
           /\ \/ recipe = "spend_ceiling" /\ Total(w.n) >= CEILING
              \/ recipe = "ralph" /\ r.check = "green"
              \/ /\ recipe = "repeat_fail" /\ w.n = 2
                 /\ results[1].check = "red" /\ results[2].check = "red"
                 /\ results[1].value = results[2].value
        \/ /\ w.what = "append" /\ w.n = 1 /\ Ended(1)
           /\ \/ recipe = "tool_allow" /\ conf.command = "tools" /\ conf.rounds = 1
              \/ recipe = "rsi_agent" /\ conf.queue = "good"
              \/ recipe = "ace" /\ r.check \in {"red", "green"} /\ r.value # 0
        \/ /\ w.what = "score" /\ w.n = 2 /\ Ended(2)
           /\ recipe = "rsi_exam" /\ conf.rounds = 2 /\ ~conf.stop_file
        \/ /\ w.what = "no_merge" /\ Ended(w.n)
           /\ recipe = "serial_discard" /\ r.check = "red"
        \/ /\ recipe = "karpathy" /\ Ended(w.n)
           /\ \/ w.what \in {"discard", "swap"} /\ w.n = 1 /\ r.value = 1
              \/ w.what = "keep" /\ w.n = 2 /\ r.value = 2
        \/ /\ recipe = "longhorizon"
           /\ \/ w.what = "append" /\ r.check = "green"
              \/ w.what = "retry" /\ r.check \in {"red", "skipped"}
        \/ /\ w.what = "swap" /\ Ended(w.n)
           /\ recipe = "between_rounds" /\ conf.queue = "good"

WritesAreEarned == \A w \in writes : Earned(w)

(* The scripts whose evidence of a write is on disk (the stop file, the       *)
(* sentence in the prompt) write once, however often they are restarted.      *)
OnceAcrossRestarts ==
    recipe \in {"spend_ceiling", "tool_allow", "repeat_fail", "ralph"}
        => Cardinality(writes) <= 1

(* A stop that the recipe owes its user after round num. *)
StopDue ==
    \/ recipe = "spend_ceiling" /\ Total(num) >= CEILING
    \/ /\ recipe = "repeat_fail" /\ conf.delay = DELAY_S /\ num = 2 /\ ~edited
       /\ results[1].check = "red" /\ results[1] = results[2]
    \/ recipe = "ralph" /\ conf.stop_file /\ conf.delay = DELAY_S
       /\ results[num].check = "green"

(* A script that watched since the round ended has its stop file in place     *)
(* before serve starts another round: the ceiling, the repeated failure and   *)
(* the satisfied goal each end the loop, unless the log holds a give-up.      *)
(* spend_ceiling looks at one round in a poll and waits SETTLE_S for the      *)
(* usage: with a longer backlog, or a slower hook, this round is missed.      *)
StopIsTimely ==
    [][ (phase = "gap" /\ phase' = "round" /\ attentive /\ in_reach
            /\ "give_up" \notin Kinds(log))
                => ~StopDue ]_vars

=============================================================================
