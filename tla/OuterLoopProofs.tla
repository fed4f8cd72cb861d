-------------------------- MODULE OuterLoopProofs --------------------------
(***************************************************************************)
(* Proofs about the scripts beside serve, for any recipes, configurations,  *)
(* outcomes and number of rounds: a write is made once over any restarts of *)
(* serve and of the script, lands in the gap of its round while the window  *)
(* and the lag of a poll fit in the delay, and follows from what the rounds *)
(* really left.  A stop that is owed comes before the next round, within    *)
(* the margins stated with it.                                              *)
(***************************************************************************)
EXTENDS OuterLoop, SequenceTheorems, FiniteSetTheorems, TLAPS

Phases == {"down", "top", "round", "checked", "hooks", "gap"}
Places == {"off", "latch", "poll", "exam", "write", "swap", "done"}
EvKinds == {"round_start", "goal_check", "round_end", "usage", "finished", "give_up"}
Happening == [ev : EvKinds, n : Nat, cost : Nat, check : Checks, value : Nat]
Files == [stop : BOOLEAN, extra : Nat, source : Nat, snapshot : Nat,
          prompt : {"boot", "retry", "queued"}, queue : {"none", "good", "bad"}, score : Nat]

ServeTypes ==
    /\ recipe \in Recipes /\ conf \in Configs[recipe]
    /\ phase \in Phases /\ life \in Nat /\ num \in Nat
    /\ since \in Nat /\ rest \in Nat
    /\ log \in Seq(Happening) /\ old \in Nat
    /\ results \in Seq(Result) /\ Len(results) = num
    /\ ran_by \in Seq(Nat) /\ Len(ran_by) = num
    /\ phase \in {"round", "checked", "hooks", "gap"} => num > 0

ScriptTypes ==
    /\ pc \in Places /\ latched \in Nat /\ seed \in Nat /\ seen \in Nat
    /\ files \in Files /\ edited \in BOOLEAN
    /\ idle \in Nat

(* A configuration a recipe is run with has the fields it reads.           *)
LEMMA ConfigTypes ==
  ASSUME recipe \in Recipes, conf \in Configs[recipe]
  PROVE  conf \in Config
BY OuterLoopAssumption

(* A sequence with one more element: its set, its length, what it keeps.   *)
LEMMA AppendTypes ==
  ASSUME NEW S, NEW s \in Seq(S), NEW e \in S
  PROVE  /\ Append(s, e) \in Seq(S) /\ Len(Append(s, e)) = Len(s) + 1
         /\ Len(s) \in Nat
         /\ DOMAIN Append(s, e) = 1..(Len(s) + 1) /\ DOMAIN s = 1..Len(s)
         /\ \A i \in 1..Len(s) : Append(s, e)[i] = s[i]
         /\ Append(s, e)[Len(s) + 1] = e
OBVIOUS

(* An event about a round, of one of the kinds the scripts read.           *)
LEMMA EventTypes ==
  ASSUME NEW ev \in EvKinds, NEW n \in Nat, NEW o \in Result
  PROVE  Event(ev, n, o) \in Happening
BY DEF Event, Happening, Result

(* The log stays a sequence of events when serve emits one.                *)
LEMMA RecordTypes ==
  ASSUME NEW s \in Seq(Happening), NEW ev \in EvKinds, NEW n \in Nat, NEW o \in Result
  PROVE  Append(s, Event(ev, n, o)) \in Seq(Happening)
<1>1. PICK e : e = Event(ev, n, o)
  OBVIOUS
<1>2. e \in Happening
  BY <1>1, EventTypes
<1>3. Append(s, e) \in Seq(Happening)
  <2>1. PICK S : S = Happening
    OBVIOUS
  <2> QED
    BY <1>2, <2>1, AppendTypes
<1> QED
  BY <1>1, <1>3, Zenon

(* What a round that has not ended leaves.                                 *)
LEMMA BareType == Bare \in Result
BY DEF Bare, Result, Checks

(* What a round may leave is a cost, a check and a value.                  *)
LEMMA OutcomeTypes ==
  ASSUME recipe \in Recipes, NEW o \in Outcomes[recipe]
  PROVE  o \in Result
BY OuterLoopAssumption

(* Only the cost changes when the usage is recorded.                       *)
LEMMA CostUpdate ==
  ASSUME NEW r \in Result, NEW c \in Nat
  PROVE  [r EXCEPT !.cost = c] = [cost |-> c, check |-> r.check, value |-> r.value]
BY DEF Result

(* Only the check and its value change when the goal is checked.           *)
LEMMA CheckUpdate ==
  ASSUME NEW r \in Result, NEW c \in Checks, NEW v \in Nat
  PROVE  [r EXCEPT !.check = c, !.value = v] = [cost |-> r.cost, check |-> c, value |-> v]
<1>1. PICK q : q = [r EXCEPT !.check = c]
  OBVIOUS
<1>2. q = [cost |-> r.cost, check |-> c, value |-> r.value]
  BY <1>1 DEF Result
<1>3. q \in Result
  BY <1>2 DEF Result
<1>4. [q EXCEPT !.value = v] = [cost |-> q.cost, check |-> q.check, value |-> v]
  BY <1>3 DEF Result
<1> QED
  BY <1>1, <1>2, <1>4

(* A result put together from two others.                                  *)
LEMMA ResultParts ==
  ASSUME NEW r \in Result, NEW o \in Result
  PROVE  /\ o.cost \in Nat /\ o.check \in Checks /\ o.value \in Nat
         /\ [cost |-> o.cost, check |-> r.check, value |-> r.value] \in Result
         /\ [cost |-> r.cost, check |-> o.check, value |-> o.value] \in Result
BY DEF Result

(* A sequence with one element replaced.                                   *)
LEMMA PutTypes ==
  ASSUME NEW S, NEW s \in Seq(S), NEW r \in S, NEW n \in 1..Len(s)
  PROVE  /\ [s EXCEPT ![n] = r] \in Seq(S) /\ Len([s EXCEPT ![n] = r]) = Len(s)
         /\ \A i \in 1..Len(s) : [s EXCEPT ![n] = r][i] = IF i = n THEN r ELSE s[i]
OBVIOUS

(* What the steps of serve do to the log and the results.                  *)
RoundBegins ==
    /\ results' = Append(results, Bare) /\ ran_by' = Append(ran_by, life)
    /\ phase \in {"top", "gap"} /\ phase' = "round" /\ num' = num + 1
    /\ log' = Append(log, Event("round_start", num + 1, Bare))
    /\ files' = [files EXCEPT !.source = num + 1]
    /\ since' = DELAY_S + 1
    /\ phase = "gap" => rest >= conf.delay /\ ~(conf.stop_file /\ files.stop)
    /\ UNCHANGED <<life, rest, pidfile, old>>

ServeEnds(ev) ==
    /\ phase # "down" /\ phase' = "down" /\ pidfile' = 0
    /\ log' = Append(log, Event(ev, num, Bare))
    /\ UNCHANGED <<life, num, rest, ran_by, results, old, since, files>>

RoundChecked ==
    /\ phase = "round" /\ phase' = "checked"
    /\ \E o \in Result :
          /\ results' = [results EXCEPT ![num] =
                [cost |-> results[num].cost, check |-> o.check, value |-> o.value]]
          /\ log' = IF o.check = "none" THEN log
                    ELSE Append(log, Event("goal_check", num, o))
    /\ UNCHANGED <<life, num, rest, pidfile, ran_by, old, since, files>>

UsageRecorded ==
    /\ phase = "hooks" /\ phase' = "gap" /\ rest' = 0
    /\ \E o \in Result :
          /\ results' = [results EXCEPT ![num] =
                [cost |-> o.cost, check |-> results[num].check, value |-> results[num].value]]
          /\ log' = IF o.cost = 0 THEN log
                    ELSE Append(log, Event("usage", num, o))
    /\ UNCHANGED <<life, num, pidfile, ran_by, old, since, files>>

scriptSide == <<edited, pc, script, idle, writes>>

(* The top of the loop begins a round or ends serve.                       *)
LEMMA ServeTopEffect ==
  ASSUME ServeTop
  PROVE  (RoundBegins \/ ServeEnds("finished")) /\ UNCHANGED <<recipe, conf, scriptSide, attentive>>
<1>1. CASE ServeExits("finished")
  BY <1>1, Zenon DEF ServeTop, ServeExits, ServeEnds, scriptSide
<1>2. CASE ~ServeExits("finished")
  BY <1>2, Zenon DEF ServeTop, RoundBegins, scriptSide
<1> QED
  BY <1>1, <1>2

(* The goal check leaves the cost of the round alone.                      *)
LEMMA GoalCheckEffect ==
  ASSUME ServeTypes, GoalCheck
  PROVE  RoundChecked /\ UNCHANGED <<recipe, conf, scriptSide, attentive>>
<1>1. PICK o \in Outcomes[recipe] :
          /\ results' = [results EXCEPT ![num].check = o.check, ![num].value = o.value]
          /\ log' = IF o.check = "none" THEN log
                    ELSE Append(log, Event("goal_check", num, o))
  BY DEF GoalCheck
<1>2. o \in Result
  BY OutcomeTypes DEF ServeTypes
<1>3. num \in 1..Len(results) /\ results[num] \in Result
  BY DEF GoalCheck, ServeTypes
<1>4. results' = [results EXCEPT ![num] = [results[num] EXCEPT !.check = o.check, !.value = o.value]]
  BY <1>1, <1>3 DEF ServeTypes
<1>5. results' = [results EXCEPT ![num] =
                [cost |-> results[num].cost, check |-> o.check, value |-> o.value]]
  <2>1. PICK r \in Result : r = results[num]
    BY <1>3
  <2>2. PICK c \in Checks, v \in Nat : c = o.check /\ v = o.value
    BY <1>2, ResultParts
  <2>3. [r EXCEPT !.check = c, !.value = v] = [cost |-> r.cost, check |-> c, value |-> v]
    BY CheckUpdate
  <2> QED
    BY <1>4, <2>1, <2>2, <2>3, Zenon
<1> QED
  BY <1>1, <1>2, <1>5, Zenon DEF GoalCheck, RoundChecked, scriptSide

(* The hooks leave the check of the round alone.                           *)
LEMMA HooksEndEffect ==
  ASSUME ServeTypes, HooksEnd
  PROVE  UsageRecorded /\ UNCHANGED <<recipe, conf, scriptSide, attentive>>
<1>1. PICK o \in Outcomes[recipe] :
          /\ results' = [results EXCEPT ![num].cost = o.cost]
          /\ log' = IF o.cost = 0 THEN log
                    ELSE Append(log, Event("usage", num, o))
  BY DEF HooksEnd
<1>2. o \in Result
  BY OutcomeTypes DEF ServeTypes
<1>3. num \in 1..Len(results) /\ results[num] \in Result
  BY DEF HooksEnd, ServeTypes
<1>4. results' = [results EXCEPT ![num] = [results[num] EXCEPT !.cost = o.cost]]
  BY <1>1, <1>3 DEF ServeTypes
<1>5. results' = [results EXCEPT ![num] =
                [cost |-> o.cost, check |-> results[num].check, value |-> results[num].value]]
  BY <1>2, <1>3, <1>4, ResultParts, CostUpdate, CheckUpdate
<1> QED
  BY <1>1, <1>2, <1>5, Zenon DEF HooksEnd, UsageRecorded, scriptSide

(* Giving up is one of the two ends serve records.                         *)
LEMMA GivesUpEffect ==
  ASSUME ServeGivesUp
  PROVE  ServeEnds("give_up") /\ UNCHANGED <<recipe, conf, scriptSide, attentive>>
BY Zenon DEF ServeGivesUp, ServeExits, ServeEnds, scriptSide

(* Every step of the script leaves serve and its record alone.             *)
ScriptStep ==
    EditsConfig \/ Queues \/ Start \/ Latch \/ Finish \/ Poll \/ Examined
    \/ DoWrite \/ Swap \/ ScriptDies

(* A step of the script changes neither serve nor the events.              *)
LEMMA ScriptStepEffect ==
  ASSUME ScriptStep
  PROVE  UNCHANGED <<recipe, conf, phase, life, num, rest, pidfile, ran_by, results,
                     log, old, since>>
BY Zenon DEF ScriptStep, EditsConfig, Queues, Start, Latch, Finish, Poll, Examined, DoWrite,
             Swap, ScriptDies, serve, record

(* What serve keeps, and the events, stay in their sets.                   *)
LEMMA ServeTypeStep == ServeTypes /\ [Next]_vars => ServeTypes'
<1> SUFFICES ASSUME ServeTypes, [Next]_vars PROVE ServeTypes'
  OBVIOUS
<1> USE DEF Phases
<1>1. CASE UNCHANGED vars
  BY <1>1 DEF vars, serve, record, ServeTypes
<1>2. CASE ServeStart
  BY <1>2, GapAssumption DEF ServeStart, record, ServeTypes
<1>3. CASE ServeTop
  <2>1. CASE ServeEnds("finished")
    <3>1. log' \in Seq(Happening)
      <4>1. num \in Nat /\ log \in Seq(Happening)
        BY DEF ServeTypes
      <4> QED
        BY <2>1, <4>1, BareType, RecordTypes, Zenon DEF ServeEnds, EvKinds
    <3> QED
      BY <1>3, <2>1, <3>1, ServeTopEffect DEF ServeEnds, ServeTypes
  <2>2. CASE RoundBegins
    <3>1. log' \in Seq(Happening)
      <4>1. num + 1 \in Nat /\ log \in Seq(Happening)
        BY DEF ServeTypes
      <4> QED
        BY <2>2, <4>1, BareType, RecordTypes, Zenon DEF RoundBegins, EvKinds
    <3>2. results' \in Seq(Result) /\ Len(results') = num'
      BY <2>2, BareType, AppendTypes DEF ServeTypes, RoundBegins
    <3>3. ran_by' \in Seq(Nat) /\ Len(ran_by') = num'
      BY <2>2, AppendTypes DEF ServeTypes, RoundBegins
    <3>4. UNCHANGED <<recipe, conf>>
      BY <1>3, ServeTopEffect
    <3> QED
      BY <2>2, <3>1, <3>2, <3>3, <3>4, GapAssumption DEF ServeTypes, RoundBegins
  <2> QED
    BY <1>3, <2>1, <2>2, ServeTopEffect
<1>4. CASE GoalCheck
  <2>1. RoundChecked /\ UNCHANGED <<recipe, conf>>
    BY <1>4, GoalCheckEffect
  <2>2. PICK o \in Result :
          /\ results' = [results EXCEPT ![num] =
                [cost |-> results[num].cost, check |-> o.check, value |-> o.value]]
          /\ log' = IF o.check = "none" THEN log
                    ELSE Append(log, Event("goal_check", num, o))
    BY <2>1 DEF RoundChecked
  <2>3. log' \in Seq(Happening)
    <3>1. num \in Nat /\ log \in Seq(Happening)
      BY DEF ServeTypes
    <3> QED
      BY <2>2, <3>1, RecordTypes, Zenon DEF EvKinds
  <2>4. num \in 1..Len(results) /\ results[num] \in Result
    BY <2>1 DEF RoundChecked, ServeTypes
  <2>5. PICK r : r = [cost |-> results[num].cost, check |-> o.check, value |-> o.value]
    OBVIOUS
  <2>6. r \in Result
    BY <2>4, <2>5 DEF Result
  <2>7. results' \in Seq(Result) /\ Len(results') = num
    BY <2>2, <2>4, <2>5, <2>6, PutTypes DEF ServeTypes
  <2> QED
    <3>1. phase = "round" /\ phase' = "checked" /\ UNCHANGED <<recipe, conf, life, num, rest, old, since, ran_by>>
      BY <2>1, Zenon DEF RoundChecked
    <3> QED
      BY <2>3, <2>7, <3>1 DEF ServeTypes
<1>5. CASE RoundEnd
  BY <1>5, BareType, RecordTypes DEF RoundEnd, ServeTypes, EvKinds
<1>6. CASE HooksEnd
  <2>1. UsageRecorded /\ UNCHANGED <<recipe, conf>>
    BY <1>6, HooksEndEffect
  <2>2. PICK o \in Result :
          /\ results' = [results EXCEPT ![num] =
                [cost |-> o.cost, check |-> results[num].check, value |-> results[num].value]]
          /\ log' = IF o.cost = 0 THEN log
                    ELSE Append(log, Event("usage", num, o))
    BY <2>1 DEF UsageRecorded
  <2>3. log' \in Seq(Happening)
    <3>1. num \in Nat /\ log \in Seq(Happening)
      BY DEF ServeTypes
    <3> QED
      BY <2>2, <3>1, RecordTypes, Zenon DEF EvKinds
  <2>4. num \in 1..Len(results) /\ results[num] \in Result
    BY <2>1 DEF UsageRecorded, ServeTypes
  <2>5. PICK r : r = [cost |-> o.cost, check |-> results[num].check, value |-> results[num].value]
    OBVIOUS
  <2>6. r \in Result
    BY <2>4, <2>5 DEF Result
  <2>7. results' \in Seq(Result) /\ Len(results') = num
    BY <2>2, <2>4, <2>5, <2>6, PutTypes DEF ServeTypes
  <2> QED
    <3>1. phase = "hooks" /\ phase' = "gap" /\ rest' = 0 /\ UNCHANGED <<recipe, conf, life, num, old, since, ran_by>>
      BY <2>1, Zenon DEF UsageRecorded
    <3> QED
      BY <2>3, <2>7, <3>1 DEF ServeTypes
<1>7. CASE ServeGivesUp
  BY <1>7, GivesUpEffect, BareType, RecordTypes DEF ServeEnds, ServeTypes, EvKinds
<1>8. CASE ServeCrash \/ PidReused
  BY <1>8 DEF ServeCrash, PidReused, record, ServeTypes
<1>9. CASE MonthTurns
  BY <1>9 DEF MonthTurns, serve, ServeTypes
<1>10. CASE ScriptStep
  BY <1>10, ScriptStepEffect DEF ServeTypes
<1>11. CASE Tick
  BY <1>11 DEF Tick, ServeTypes
<1> QED
  BY <1>1, <1>2, <1>3, <1>4, <1>5, <1>6, <1>7, <1>8, <1>9, <1>10, <1>11 DEF Next, ScriptStep

----------------------------------------------------------------------------
(* The log. *)

(* What an event says, whatever it is made of.                             *)
LEMMA EventFields ==
  ASSUME NEW ev, NEW n, NEW o
  PROVE  /\ Event(ev, n, o).ev = ev /\ Event(ev, n, o).n = n
         /\ Event(ev, n, o).cost = o.cost
         /\ Event(ev, n, o).check = o.check /\ Event(ev, n, o).value = o.value
BY DEF Event

(* A log and the same log with one more event. *)
Longer(s, t, ev, n, o) ==
    /\ Len(s) \in Nat /\ DOMAIN s = 1..Len(s) /\ DOMAIN t = 1..(Len(s) + 1)
    /\ \A i \in 1..Len(s) : t[i] = s[i]
    /\ t[Len(s) + 1].ev = ev /\ t[Len(s) + 1].n = n /\ t[Len(s) + 1].cost = o.cost
    /\ t[Len(s) + 1].check = o.check /\ t[Len(s) + 1].value = o.value

(* An emitted event is the log's last, with the fields it was given.       *)
LEMMA Recorded ==
  ASSUME NEW s \in Seq(Happening), NEW ev \in EvKinds, NEW n \in Nat, NEW o \in Result
  PROVE  Longer(s, Append(s, Event(ev, n, o)), ev, n, o)
<1>1. PICK e \in Happening : e = Event(ev, n, o)
  BY EventTypes
<1>2. PICK S : S = Happening
  OBVIOUS
<1>3. PICK t : t = Append(s, e)
  OBVIOUS
<1>4. /\ Len(s) \in Nat
      /\ DOMAIN t = 1..(Len(s) + 1) /\ DOMAIN s = 1..Len(s)
      /\ \A i \in 1..Len(s) : t[i] = s[i]
      /\ t[Len(s) + 1] = e
  BY <1>2, <1>3, AppendTypes
<1>5. e.ev = ev /\ e.n = n /\ e.cost = o.cost /\ e.check = o.check /\ e.value = o.value
  BY <1>1, EventFields
<1>6. Longer(s, t, ev, n, o)
  BY <1>4, <1>5 DEF Longer
<1> QED
  BY <1>1, <1>3, <1>6, Zenon

(* A round is numbered by an event of the kind asked for.                  *)
LEMMA NumbersIn ==
  ASSUME NEW s, NEW k, NEW n
  PROVE  n \in Numbers(s, k) <=> \E i \in DOMAIN s : s[i].ev = k /\ s[i].n = n
BY Zenon DEF Numbers

(* The rounds and the kinds of a log with one more event.                  *)
LEMMA NumbersGrow ==
  ASSUME NEW s, NEW t, NEW ev, NEW n, NEW o, Longer(s, t, ev, n, o)
  PROVE  /\ Numbers(t, ev) = Numbers(s, ev) \cup {n}
         /\ \A k : k # ev => Numbers(t, k) = Numbers(s, k)
         /\ Kinds(t) = Kinds(s) \cup {ev}
<1>1. ASSUME NEW k, NEW m PROVE m \in Numbers(t, k) <=> m \in Numbers(s, k) \/ (ev = k /\ m = n)
  <2>1. \A i : i \in DOMAIN t <=> i \in DOMAIN s \/ i = Len(s) + 1
    BY DEF Longer
  <2>2. \A i \in DOMAIN s : t[i] = s[i]
    BY DEF Longer
  <2>3. t[Len(s) + 1].ev = ev /\ t[Len(s) + 1].n = n
    BY DEF Longer
  <2> QED
    BY <2>1, <2>2, <2>3, NumbersIn
<1>2. \A m : m \in Kinds(t) <=> m \in Kinds(s) \/ m = ev
  <2>1. \A i : i \in DOMAIN t <=> i \in DOMAIN s \/ i = Len(s) + 1
    BY DEF Longer
  <2>2. \A i \in DOMAIN s : t[i] = s[i]
    BY DEF Longer
  <2>3. t[Len(s) + 1].ev = ev
    BY DEF Longer
  <2> QED
    BY <2>1, <2>2, <2>3, Zenon DEF Kinds
<1>3. Numbers(t, ev) = Numbers(s, ev) \cup {n}
  BY <1>1
<1>4. \A k : k # ev => Numbers(t, k) = Numbers(s, k)
  <2>1. ASSUME NEW k, k # ev PROVE Numbers(t, k) = Numbers(s, k)
    <3>1. \A m : m \in Numbers(t, k) <=> m \in Numbers(s, k)
      BY <1>1, <2>1
    <3> QED
      BY <3>1
  <2> QED
    BY <2>1
<1>5. Kinds(t) = Kinds(s) \cup {ev}
  BY <1>2
<1> QED
  BY <1>3, <1>4, <1>5

(* The identity of the serve that ran a round. *)
Identity ==
    /\ pidfile \in {0, life}
    /\ phase # "down" => pidfile = life /\ life > 0
    /\ \A k \in 1..num : ran_by[k] <= life
    /\ phase = "top" => \A k \in 1..num : ran_by[k] < life

(* Round numbers in the log. *)
Numbered ==
    /\ Numbers(log, "round_start") = 1..num
    /\ Numbers(log, "round_end") \subseteq 1..num
    /\ phase \in {"round", "checked"} => num \notin Numbers(log, "round_end")
    /\ phase \in {"hooks", "gap"} => num \in Numbers(log, "round_end")

(* An empty log numbers no round.                                          *)
LEMMA EmptyNumbers == \A k : Numbers(<<>>, k) = {}
BY DEF Numbers

(* serve.pid names the living serve, or nobody once it ended well.         *)
LEMMA IdentityStep == ServeTypes /\ Identity /\ [Next]_vars => Identity'
<1> SUFFICES ASSUME ServeTypes, Identity, [Next]_vars PROVE Identity'
  OBVIOUS
<1> USE DEF Phases
<1>1. CASE UNCHANGED vars
  BY <1>1 DEF vars, serve, Identity
<1>2. CASE ServeStart
  BY <1>2 DEF ServeStart, ServeTypes, Identity
<1>3. CASE RoundBegins
  <2>1. /\ Len(ran_by) = num /\ num \in Nat /\ life \in Nat
        /\ \A i \in 1..num : Append(ran_by, life)[i] = ran_by[i]
        /\ Append(ran_by, life)[num + 1] = life
    BY AppendTypes DEF ServeTypes
  <2>2. PICK r : r = Append(ran_by, life)
    OBVIOUS
  <2>3. phase \in {"top", "gap"} /\ phase' = "round" /\ num' = num + 1 /\ ran_by' = r
        /\ UNCHANGED <<life, pidfile>>
    BY <1>3, <2>2, Zenon DEF RoundBegins
  <2> QED
    BY <2>1, <2>2, <2>3 DEF Identity
<1>4. CASE ServeEnds("finished") \/ ServeEnds("give_up")
  <2>1. phase' = "down" /\ pidfile' = 0 /\ UNCHANGED <<life, num, ran_by>>
    BY <1>4, Zenon DEF ServeEnds
  <2> QED
    BY <2>1 DEF Identity
<1>5. CASE RoundChecked \/ RoundEnd \/ UsageRecorded
  <2>1. phase \in {"round", "checked", "hooks"} /\ phase' # "top" /\ UNCHANGED <<life, num, ran_by, pidfile>>
    BY <1>5 DEF RoundChecked, RoundEnd, UsageRecorded
  <2> QED
    BY <2>1 DEF Identity
<1>6. CASE ServeCrash \/ PidReused \/ Tick
  BY <1>6 DEF ServeCrash, PidReused, Tick, Identity
<1>7. CASE MonthTurns
  BY <1>7 DEF MonthTurns, serve, Identity
<1>8. CASE ScriptStep
  BY <1>8, ScriptStepEffect DEF Identity
<1> QED
  BY <1>1, <1>2, <1>3, <1>4, <1>5, <1>6, <1>7, <1>8, ServeTopEffect, GoalCheckEffect,
     HooksEndEffect, GivesUpEffect DEF Next, ScriptStep

(* round_start once per round, round_end once the round has ended.         *)
LEMMA NumberedStep == ServeTypes /\ Numbered /\ [Next]_vars => Numbered'
<1> SUFFICES ASSUME ServeTypes, Numbered, [Next]_vars PROVE Numbered'
  OBVIOUS
<1> USE DEF Phases
<1>a. PICK t : t = log'
  OBVIOUS
<1>0. log \in Seq(Happening) /\ num \in Nat /\ Bare \in Result
  BY BareType DEF ServeTypes
<1>1. CASE UNCHANGED vars
  BY <1>1 DEF vars, serve, record, Numbered
<1>2. CASE ServeStart \/ ServeCrash \/ PidReused \/ Tick
  BY <1>2 DEF ServeStart, record, ServeCrash, PidReused, Tick, Numbered
<1>3. CASE RoundBegins
  <2>1. phase' = "round" /\ num' = num + 1 /\ log' = Append(log, Event("round_start", num + 1, Bare))
    BY <1>3 DEF RoundBegins
  <2>2. "round_start" \in EvKinds /\ num + 1 \in Nat
    BY <1>0 DEF EvKinds
  <2>3. Longer(log, t, "round_start", num + 1, Bare)
    BY <1>a, <1>0, <2>1, <2>2, Recorded, Zenon
  <2>4. /\ Numbers(t, "round_start") = Numbers(log, "round_start") \cup {num + 1}
        /\ Numbers(t, "round_end") = Numbers(log, "round_end")
    BY <2>3, NumbersGrow
  <2>5. 1..num \cup {num + 1} = 1..(num + 1) /\ num + 1 \notin 1..num /\ 1..num \subseteq 1..(num + 1)
    BY <1>0
  <2> QED
    BY <1>a, <1>0, <2>1, <2>4, <2>5 DEF Numbered
<1>4. ASSUME NEW ev \in {"finished", "give_up"}, ServeEnds(ev) PROVE Numbered'
  <2>1. phase' = "down" /\ num' = num /\ log' = Append(log, Event(ev, num, Bare))
    BY <1>4 DEF ServeEnds
  <2>2. Longer(log, t, ev, num, Bare)
    BY <1>a, <1>0, <2>1, Recorded, Zenon DEF EvKinds
  <2>3. /\ Numbers(t, "round_start") = Numbers(log, "round_start")
        /\ Numbers(t, "round_end") = Numbers(log, "round_end")
    <3>1. CASE t = log
      BY <3>1
    <3>2. CASE t # log
      BY <2>2, <3>2, NumbersGrow
    <3> QED
      BY <3>1, <3>2
  <2> QED
    BY <1>a, <2>1, <2>3 DEF Numbered
<1>5. CASE RoundChecked
  <2>1. PICK o \in Result :
          log' = IF o.check = "none" THEN log
                    ELSE Append(log, Event("goal_check", num, o))
    BY <1>5 DEF RoundChecked
  <2>2. t = log \/ Longer(log, t, "goal_check", num, o)
    BY <1>a, <1>0, <2>1, Recorded, Zenon DEF EvKinds
  <2>3. /\ Numbers(t, "round_start") = Numbers(log, "round_start")
        /\ Numbers(t, "round_end") = Numbers(log, "round_end")
    <3>1. CASE t = log
      BY <3>1
    <3>2. CASE t # log
      BY <2>2, <3>2, NumbersGrow
    <3> QED
      BY <3>1, <3>2
  <2>4. phase = "round" /\ phase' = "checked" /\ num' = num
    BY <1>5 DEF RoundChecked
  <2> QED
    BY <1>a, <2>3, <2>4 DEF Numbered
<1>6. CASE RoundEnd
  <2>1. phase = "checked" /\ phase' = "hooks" /\ num' = num /\ log' = Append(log, Event("round_end", num, Bare))
    BY <1>6 DEF RoundEnd
  <2>2. Longer(log, t, "round_end", num, Bare)
    BY <1>a, <1>0, <2>1, Recorded, Zenon DEF EvKinds
  <2>3. /\ Numbers(t, "round_start") = Numbers(log, "round_start")
        /\ Numbers(t, "round_end") = Numbers(log, "round_end") \cup {num}
    BY <2>2, NumbersGrow
  <2>4. num > 0
    BY <2>1 DEF ServeTypes
  <2> QED
    BY <1>a, <1>0, <2>1, <2>3, <2>4 DEF Numbered
<1>7. CASE UsageRecorded
  <2>1. PICK o \in Result :
          log' = IF o.cost = 0 THEN log
                    ELSE Append(log, Event("usage", num, o))
    BY <1>7 DEF UsageRecorded
  <2>2. t = log \/ Longer(log, t, "usage", num, o)
    BY <1>a, <1>0, <2>1, Recorded, Zenon DEF EvKinds
  <2>3. /\ Numbers(t, "round_start") = Numbers(log, "round_start")
        /\ Numbers(t, "round_end") = Numbers(log, "round_end")
    <3>1. CASE t = log
      BY <3>1
    <3>2. CASE t # log
      BY <2>2, <3>2, NumbersGrow
    <3> QED
      BY <3>1, <3>2
  <2>4. phase = "hooks" /\ phase' = "gap" /\ num' = num
    BY <1>7 DEF UsageRecorded
  <2> QED
    BY <1>a, <2>3, <2>4 DEF Numbered
<1>8. CASE MonthTurns
  BY <1>8 DEF MonthTurns, serve, Numbered
<1>9. CASE ScriptStep
  BY <1>9, ScriptStepEffect DEF Numbered
<1> QED
  BY <1>1, <1>2, <1>3, <1>4, <1>5, <1>6, <1>7, <1>8, <1>9, ServeTopEffect, GoalCheckEffect,
     HooksEndEffect, GivesUpEffect DEF Next, ScriptStep

(* A poll reads the state as it is.                                        *)
LEMMA ViewFields ==
  /\ View.rec = pidfile /\ View.serve = ServeUp /\ View.log = log /\ View.old = old
  /\ View.since = since /\ View.files = files /\ View.conf = conf
  /\ View.edited = edited /\ View.latched = latched /\ View.acted = acted
  /\ View.already = already /\ View.seen = seen /\ View.seed = seed
BY DEF View

(* Every set of numbers that is not empty has a least one.                 *)
LEMMA SmallestNumber ==
  ASSUME NEW S \in SUBSET Nat, S # {}
  PROVE  \E x \in S : \A y \in S : x <= y
<1>1. PICK R : R = OpToRel(<, Nat)
  OBVIOUS
<1>2. IsWellFoundedOn(R, Nat)
  BY <1>1, NatLessThanWellFounded
<1>3. \A x, y \in Nat : x < y => <<x, y>> \in R
  BY <1>1 DEF OpToRel
<1>4. PICK x \in S : \A y \in S : ~ (<<y, x>> \in R)
  BY <1>2, WFMin, S \subseteq Nat
<1>5. ASSUME NEW y \in S PROVE x <= y
  <2>1. x \in Nat /\ y \in Nat /\ ~(y < x)
    BY <1>3, <1>4
  <2> QED
    BY <2>1
<1> QED
  BY <1>5

(* sorted(pending)[0] is pending, and nothing pending comes before it.     *)
LEMMA EarliestIn ==
  ASSUME NEW S \in SUBSET Nat, S # {}
  PROVE  Earliest(S) \in S /\ \A y \in S : Earliest(S) <= y
BY SmallestNumber DEF Earliest

(* The last place of a set of places is one of them.                       *)
LEMMA LatestIn ==
  ASSUME NEW N \in Nat, NEW S \in SUBSET (1..N), S # {}
  PROVE  Latest(S) \in S /\ \A y \in S : y <= Latest(S)
<1>1. PICK T : T = {N - k : k \in S}
  OBVIOUS
<1>2. T \in SUBSET Nat /\ T # {}
  <2>1. ASSUME NEW y \in T PROVE y \in Nat
    BY <1>1
  <2>2. PICK k \in S : TRUE
    OBVIOUS
  <2>3. N - k \in T
    BY <1>1
  <2> QED
    BY <2>1, <2>3
<1>3. PICK x \in T : \A y \in T : x <= y
  BY <1>2, SmallestNumber
<1>4. PICK m \in S : x = N - m
  BY <1>1, <1>3
<1>5. \A y \in S : y <= m
  <2>1. ASSUME NEW y \in S PROVE y <= m
    <3>1. N - y \in T
      BY <1>1
    <3> QED
      BY <1>3, <1>4, <3>1
  <2> QED
    BY <2>1
<1> QED
  BY <1>5 DEF Latest

(* A poll, for any recipe. *)
Polled(r) ==
    /\ pc = "poll" /\ ~Finished
    /\ acted' = r.acted /\ todo' = r.todo
    /\ pc' = IF r.todo = Nothing THEN "poll"
                    ELSE IF r.todo.what = "score" THEN "exam" ELSE "write"
    /\ idle' = 0
    /\ UNCHANGED <<recipe, conf, phase, life, num, rest, pidfile, ran_by, results, log,
                   old, since, files, edited, latched, already, seed, starts, writes,
                   attentive, in_reach>>

(* What a poll leaves alone, whatever the recipe.                          *)
LEMMA PollEffect == ASSUME Poll PROVE Polled(Pass)
BY Zenon DEF Poll, Polled, serve, record

(* What a guarded recipe has read when it decides to write after round n.   *)
GapSees(n) ==
    /\ phase # "down" /\ pidfile = life /\ latched = life
    /\ n \in Numbers(log, "round_end") /\ n + 1 \notin Numbers(log, "round_start")
    /\ "give_up" \notin Kinds(log)
    /\ since >= WRITE_AFTER_S /\ since <= WRITE_BEFORE_S

(* spend_ceiling *)

(* The script's instance of GapLog reads the log as the composition does.  *)
LEMMA SpendNames ==
  ASSUME NEW s, NEW k
  PROVE  /\ SC!Numbers(s, k) = Numbers(s, k) /\ SC!Kinds(s) = Kinds(s)
         /\ SC!IndexRounds(s) = Numbers(s, "round_end")
         /\ SC!Nothing = Nothing
BY Zenon DEF SC!Numbers, Numbers, SC!Kinds, Kinds, SC!IndexRounds, SC!Nothing, Nothing

(* The words of the module, as spend_ceiling's instance of it writes them. *)
LEMMA SpendNames2 ==
  ASSUME NEW s
  PROVE  SC!Earliest(s) = Earliest(s) /\ \A w, n : SC!Write(w, n) = Write(w, n)
BY Zenon DEF SC!Earliest, Earliest, SC!Write, Write

(* A spend_ceiling that goes on sees its serve alive.                      *)
LEMMA SpendAlive ==
  ASSUME Identity, ~SC!Finished(View)
  PROVE  phase # "down" /\ pidfile = life /\ latched = life /\ SC!Alive(View)
BY ViewFields DEF SC!Finished, SC!Alive, SC!SameProcess, ServeUp, Identity

(* One pass of spend_ceiling: it waits, or settles its earliest round.     *)
LEMMA SpendPass ==
  ASSUME recipe = "spend_ceiling", Poll, ServeTypes, Numbered
  PROVE  \/ /\ Pending = {} \/ SC!Waits(Earliest(Pending), View)
            /\ acted' = acted /\ todo' = Nothing /\ pc' = "poll"
         \/ \E n \in Pending :
              /\ n = Earliest(Pending) /\ ~SC!Waits(n, View)
              /\ \A k \in Pending : n <= k
              /\ acted' = acted \cup {n}
              /\ \/ ~SC!StopDecision(n, View) /\ todo' = Nothing /\ pc' = "poll"
                 \/ SC!StopDecision(n, View) /\ todo' = Write("stop", n) /\ pc' = "write"
<1>1. Polled(SC!Pass(View))
  <2>1. Pass = SC!Pass(View)
    BY DEF Pass
  <2> QED
    BY <2>1, PollEffect, Zenon
<1>2. PICK v : v = View
  OBVIOUS
<1>3. PICK pending : pending = Pending
  OBVIOUS
<1>4. PICK n : n = Earliest(pending)
  OBVIOUS
<1>5. SC!Pass(v) = IF pending = {} \/ SC!Waits(n, v) THEN [acted |-> acted, todo |-> Nothing]
                   ELSE [acted |-> acted \cup {n},
                         todo |-> IF SC!StopDecision(n, v) THEN Write("stop", n) ELSE Nothing]
  <2>1. v.log = log /\ v.acted = acted
    BY <1>2, ViewFields
  <2>2. SC!IndexRounds(v.log) \ v.acted = pending
    BY <1>3, <2>1, SpendNames DEF Pending
  <2>3. /\ SC!Nothing = Nothing /\ SC!Write("stop", n) = Write("stop", n)
        /\ SC!Earliest(pending) = n
    BY <1>4, SpendNames, SpendNames2
  <2> QED
    BY <2>1, <2>2, <2>3 DEF SC!Pass
<1>6. pending # {} => n \in pending /\ \A k \in pending : n <= k
  <2>1. pending \in SUBSET Nat
    BY <1>3 DEF Pending, Numbered, ServeTypes
  <2> QED
    BY <1>4, <2>1, EarliestIn
<1>7. PICK r : r = SC!Pass(v)
  OBVIOUS
<1>8. /\ acted' = r.acted /\ todo' = r.todo
      /\ pc' = IF r.todo = Nothing THEN "poll"
                    ELSE IF r.todo.what = "score" THEN "exam" ELSE "write"
  BY <1>1, <1>2, <1>7, Zenon DEF Polled
<1>9. Write("stop", n).what = "stop" /\ Nothing.what = "none"
  BY DEF Write, Nothing
<1>10. CASE pending = {} \/ SC!Waits(n, v)
  <2>1. r.acted = acted /\ r.todo = Nothing
    BY <1>5, <1>7, <1>10
  <2> QED
    BY <1>2, <1>3, <1>4, <1>8, <1>10, <2>1
<1>11. CASE ~(pending = {} \/ SC!Waits(n, v))
  <2>1. r.acted = acted \cup {n} /\ r.todo = IF SC!StopDecision(n, v) THEN Write("stop", n) ELSE Nothing
    BY <1>5, <1>7, <1>11
  <2>2. CASE SC!StopDecision(n, v)
    <3>1. r.todo = Write("stop", n) /\ r.todo # Nothing /\ r.todo.what = "stop"
      BY <1>9, <2>1, <2>2
    <3> QED
      BY <1>2, <1>3, <1>4, <1>6, <1>8, <1>11, <2>1, <2>2, <3>1
  <2>3. CASE ~SC!StopDecision(n, v)
    BY <1>2, <1>3, <1>4, <1>6, <1>8, <1>11, <2>1, <2>3
  <2> QED
    BY <2>2, <2>3
<1> QED
  BY <1>10, <1>11

(* spend_ceiling decides in the window after the newest round.             *)
LEMMA SpendDecision ==
  ASSUME ServeTypes, Identity, recipe = "spend_ceiling", ~SC!Finished(View),
         NEW n \in Pending, SC!StopDecision(n, View)
  PROVE  GapSees(n) /\ ~files.stop
<1>1. PICK v : v = View
  OBVIOUS
<1>2. v.log = log /\ v.since = since /\ v.files = files
  BY <1>1, ViewFields
<1>3. n + 1 \notin Numbers(log, "round_start") /\ "give_up" \notin Kinds(log)
  BY <1>1, <1>2, SpendNames DEF SC!StopDecision, SC!RoundStarted, SC!GiveupPresent, SC!GIVEUP
<1>4. since >= WRITE_AFTER_S /\ ~(since > WRITE_BEFORE_S) /\ ~files.stop
  BY <1>1, <1>2 DEF SC!StopDecision, SC!InWindow
<1>5. since <= WRITE_BEFORE_S
  BY <1>4, GapAssumption DEF ServeTypes
<1> QED
  BY <1>3, <1>4, <1>5, SpendAlive DEF GapSees, Pending

(* The words of the module, as tool_allow's instance of it writes them.    *)
LEMMA ToolNames ==
  /\ \A s, k : TA!Numbers(s, k) = Numbers(s, k)
  /\ \A s : TA!Kinds(s) = Kinds(s)
  /\ TA!Nothing = Nothing
  /\ \A w, n : TA!Write(w, n) = Write(w, n)
  /\ TA!GIVEUP = {"give_up"}
<1>1. \A s, k : TA!Numbers(s, k) = Numbers(s, k)
  BY Zenon DEF TA!Numbers, Numbers
<1>2. \A s : TA!Kinds(s) = Kinds(s)
  BY Zenon DEF TA!Kinds, Kinds
<1>3. TA!Nothing = Nothing
  BY Zenon DEF TA!Nothing, Nothing
<1>4. \A w, n : TA!Write(w, n) = Write(w, n)
  BY Zenon DEF TA!Write, Write
<1>5. TA!GIVEUP = {"give_up"}
  BY Zenon DEF TA!GIVEUP
<1> QED
  BY <1>1, <1>2, <1>3, <1>4, <1>5

(* A tool_allow that goes on sees its serve alive.                         *)
LEMMA ToolAlive ==
  ASSUME Identity, ~TA!Finished(View)
  PROVE  phase # "down" /\ pidfile = life /\ latched = life
BY ViewFields DEF TA!Finished, TA!Alive, TA!SameProcess, ServeUp, Identity

(* tool_allow decides in the window after round 1, on a prompt unwritten.  *)
LEMMA ToolPoll ==
  ASSUME recipe = "tool_allow", Poll, ServeTypes, Identity
  PROVE  \/ todo' = Nothing /\ pc' = "poll"
         \/ GapSees(1) /\ ~(files.extra > 0) /\ todo' = Write("append", 1) /\ pc' = "write"
<1>1. Polled(TA!Pass(View))
  <2>1. Pass = TA!Pass(View)
    BY DEF Pass
  <2> QED
    BY <2>1, PollEffect, Zenon
<1>2. ~TA!Finished(View)
  BY DEF Poll, Finished
<1>3. PICK v : v = View
  OBVIOUS
<1>4. v.log = log /\ v.since = since /\ v.files = files
  BY <1>3, ViewFields
<1>5. PICK r : r = TA!Pass(v)
  OBVIOUS
<1>6. /\ todo' = r.todo
      /\ pc' = IF r.todo = Nothing THEN "poll"
                    ELSE IF r.todo.what = "score" THEN "exam" ELSE "write"
  BY <1>1, <1>3, <1>5, Zenon DEF Polled
<1>7. r.todo = Nothing \/ (TA!GapDecision(v) /\ 1 \in TA!IndexRounds(v.log) /\ r.todo = Write("append", 1))
  <2>1. TA!Nothing = Nothing /\ TA!Write("append", 1) = Write("append", 1)
    BY ToolNames
  <2> QED
    BY <1>5, <2>1 DEF TA!Pass
<1>8. CASE r.todo = Nothing
  BY <1>6, <1>8
<1>9. CASE r.todo # Nothing
  <2>1. Write("append", 1).what = "append"
    BY DEF Write
  <2>2. 1 \in Numbers(log, "round_end")
    BY <1>4, <1>7, <1>9, ToolNames DEF TA!IndexRounds
  <2>3. 2 \notin Numbers(log, "round_start") /\ "give_up" \notin Kinds(log)
    BY <1>4, <1>7, <1>9, ToolNames DEF TA!GapDecision, TA!Late, TA!RoundStarted, TA!GiveupPresent
  <2>4. since >= WRITE_AFTER_S /\ ~(since > WRITE_BEFORE_S) /\ ~(files.extra > 0)
    BY <1>4, <1>7, <1>9 DEF TA!GapDecision, TA!Already
  <2>5. since <= WRITE_BEFORE_S
    BY <2>4, GapAssumption DEF ServeTypes
  <2>6. GapSees(1)
    <3>1. 1 + 1 = 2
      OBVIOUS
    <3> QED
      BY <1>2, <2>2, <2>3, <2>4, <2>5, <3>1, ToolAlive DEF GapSees
  <2> QED
    BY <1>6, <1>7, <1>9, <2>1, <2>4, <2>6
<1> QED
  BY <1>8, <1>9

(* The words of the module, as repeat_fail's instance of it writes them.   *)
LEMMA FailNames ==
  /\ \A s, k : RF!Numbers(s, k) = Numbers(s, k)
  /\ \A s : RF!Kinds(s) = Kinds(s)
  /\ RF!Nothing = Nothing
  /\ \A w, n : RF!Write(w, n) = Write(w, n)
  /\ RF!GIVEUP = {"give_up"}
  /\ \A s, ev, n : RF!Of(s, ev, n) = Of(s, ev, n)
  /\ \A S : RF!Latest(S) = Latest(S)
<1>1. \A s, k : RF!Numbers(s, k) = Numbers(s, k)
  BY Zenon DEF RF!Numbers, Numbers
<1>2. \A s : RF!Kinds(s) = Kinds(s)
  BY Zenon DEF RF!Kinds, Kinds
<1>3. RF!Nothing = Nothing
  BY Zenon DEF RF!Nothing, Nothing
<1>4. \A w, n : RF!Write(w, n) = Write(w, n)
  BY Zenon DEF RF!Write, Write
<1>5. RF!GIVEUP = {"give_up"}
  BY Zenon DEF RF!GIVEUP
<1>6. \A s, ev, n : RF!Of(s, ev, n) = Of(s, ev, n)
  BY Zenon DEF RF!Of, Of
<1>7. \A S : RF!Latest(S) = Latest(S)
  BY Zenon DEF RF!Latest, Latest
<1> QED
  BY <1>1, <1>2, <1>3, <1>4, <1>5, <1>6, <1>7

(* A repeat_fail that goes on sees its serve alive.                        *)
LEMMA FailAlive ==
  ASSUME Identity, ~RF!Finished(View)
  PROVE  phase # "down" /\ pidfile = life /\ latched = life /\ RF!Alive(View)
BY ViewFields DEF RF!Finished, RF!Alive, RF!SameProcess, ServeUp, Identity

FailNew == {n \in Numbers(log, "round_end") \ acted : ~RF!Waits(n, View)}

(* One pass of repeat_fail: every ended round is settled, round 2 may stop. *)
LEMMA FailPass ==
  ASSUME recipe = "repeat_fail", Poll
  PROVE  /\ acted' = acted \cup FailNew
         /\ IF 2 \in FailNew /\ RF!StopDecision(View) /\ ~edited
            THEN todo' = Write("stop", 2) /\ pc' = "write"
            ELSE todo' = Nothing /\ pc' = "poll"
<1>1. Polled(RF!Pass(View))
  <2>1. Pass = RF!Pass(View)
    BY DEF Pass
  <2> QED
    BY <2>1, PollEffect, Zenon
<1>2. PICK v : v = View
  OBVIOUS
<1>3. v.log = log /\ v.acted = acted /\ v.edited = edited
  BY <1>2, ViewFields
<1>4. PICK new : new = FailNew
  OBVIOUS
<1>5. {n \in RF!IndexRounds(v.log) \ v.acted : ~RF!Waits(n, v)} = new
  BY <1>2, <1>3, <1>4, FailNames, Zenon DEF FailNew, RF!IndexRounds
<1>6. RF!Pass(v) = [acted |-> acted \cup new,
                    todo |-> IF 2 \in new /\ RF!StopDecision(v) /\ ~edited
                             THEN Write("stop", 2) ELSE Nothing]
  <2>1. RF!Nothing = Nothing /\ RF!Write("stop", 2) = Write("stop", 2)
    BY FailNames
  <2> QED
    BY <1>3, <1>5, <2>1 DEF RF!Pass
<1>7. PICK r : r = RF!Pass(v)
  OBVIOUS
<1>8. /\ acted' = r.acted /\ todo' = r.todo
      /\ pc' = IF r.todo = Nothing THEN "poll"
                    ELSE IF r.todo.what = "score" THEN "exam" ELSE "write"
  BY <1>1, <1>2, <1>7, Zenon DEF Polled
<1>9. r.acted = acted \cup new /\ r.todo = IF 2 \in new /\ RF!StopDecision(v) /\ ~edited
                             THEN Write("stop", 2) ELSE Nothing
  BY <1>6, <1>7
<1>10. Write("stop", 2).what = "stop" /\ Nothing.what = "none"
  BY DEF Write, Nothing
<1> QED
  BY <1>2, <1>4, <1>8, <1>9, <1>10

(* repeat_fail decides in the window after round 2, without a stop file.   *)
LEMMA FailDecision ==
  ASSUME ServeTypes, Identity, recipe = "repeat_fail", ~RF!Finished(View),
         2 \in FailNew, RF!StopDecision(View)
  PROVE  GapSees(2) /\ ~files.stop
<1>1. PICK v : v = View
  OBVIOUS
<1>2. v.log = log /\ v.since = since /\ v.files = files
  BY <1>1, ViewFields
<1>3. 2 + 1 \notin Numbers(log, "round_start") /\ "give_up" \notin Kinds(log)
  BY <1>1, <1>2, FailNames DEF RF!StopDecision, RF!Late, RF!RoundStarted, RF!GiveupPresent
<1>4. since >= WRITE_AFTER_S /\ ~(since > WRITE_BEFORE_S) /\ ~files.stop
  BY <1>1, <1>2 DEF RF!StopDecision
<1>5. since <= WRITE_BEFORE_S
  BY <1>4, GapAssumption DEF ServeTypes
<1> QED
  BY <1>3, <1>4, <1>5, FailAlive DEF GapSees, FailNew

(* The words of the module, as serial_discard's instance writes them.      *)
LEMMA DiscardNames ==
  /\ \A s, k : SD!Numbers(s, k) = Numbers(s, k)
  /\ \A s : SD!Kinds(s) = Kinds(s)
  /\ SD!Nothing = Nothing
  /\ \A w, n : SD!Write(w, n) = Write(w, n)
  /\ SD!GIVEUP = {"give_up"}
  /\ \A s, ev, n : SD!Of(s, ev, n) = Of(s, ev, n)
  /\ \A S : SD!Latest(S) = Latest(S)
<1>1. \A s, k : SD!Numbers(s, k) = Numbers(s, k)
  BY Zenon DEF SD!Numbers, Numbers
<1>2. \A s : SD!Kinds(s) = Kinds(s)
  BY Zenon DEF SD!Kinds, Kinds
<1>3. SD!Nothing = Nothing
  BY Zenon DEF SD!Nothing, Nothing
<1>4. \A w, n : SD!Write(w, n) = Write(w, n)
  BY Zenon DEF SD!Write, Write
<1>5. SD!GIVEUP = {"give_up"}
  BY Zenon DEF SD!GIVEUP
<1>6. \A s, ev, n : SD!Of(s, ev, n) = Of(s, ev, n)
  BY Zenon DEF SD!Of, Of
<1>7. \A S : SD!Latest(S) = Latest(S)
  BY Zenon DEF SD!Latest, Latest
<1> QED
  BY <1>1, <1>2, <1>3, <1>4, <1>5, <1>6, <1>7

(* A serial_discard that goes on sees its serve alive.                     *)
LEMMA DiscardAlive ==
  ASSUME Identity, ~SD!Finished(View)
  PROVE  phase # "down" /\ pidfile = life /\ latched = life
BY ViewFields DEF SD!Finished, SD!Alive, SD!SameProcess, ServeUp, Identity

(* serial_discard decides in the window after a round it read as red.      *)
LEMMA DiscardPoll ==
  ASSUME recipe = "serial_discard", Poll, ServeTypes, Identity
  PROVE  \/ todo' = Nothing /\ pc' = "poll"
         \/ \E n \in 1..2 : /\ GapSees(n) /\ SD!CheckState(log, n) = "red"
                            /\ todo' = Write("no_merge", n) /\ pc' = "write"
<1>1. Polled(SD!Pass(View))
  <2>1. Pass = SD!Pass(View)
    BY DEF Pass
  <2> QED
    BY <2>1, PollEffect, Zenon
<1>2. ~SD!Finished(View)
  BY DEF Poll, Finished
<1>3. PICK v : v = View
  OBVIOUS
<1>4. v.log = log /\ v.since = since
  BY <1>3, ViewFields
<1>5. PICK r : r = SD!Pass(v)
  OBVIOUS
<1>6. /\ todo' = r.todo
      /\ pc' = IF r.todo = Nothing THEN "poll"
                    ELSE IF r.todo.what = "score" THEN "exam" ELSE "write"
  BY <1>1, <1>3, <1>5, Zenon DEF Polled
<1>7. r.todo = Nothing \/ \E n \in SD!IndexRounds(v.log) : SD!GapDecision(n, v) /\ r.todo = Write("no_merge", n)
  <2>1. SD!Nothing = Nothing /\ \A n : SD!Write("no_merge", n) = Write("no_merge", n)
    BY DiscardNames
  <2>2. PICK new : new = {n \in SD!IndexRounds(v.log) \ v.acted : ~SD!Waits(n, v)}
    OBVIOUS
  <2>3. PICK red : red = {n \in new : SD!GapDecision(n, v)}
    OBVIOUS
  <2>4. r = [acted |-> v.acted \cup new,
             todo |-> IF red = {} THEN Nothing ELSE Write("no_merge", CHOOSE n \in red : TRUE)]
    BY <1>5, <2>1, <2>2, <2>3, Zenon DEF SD!Pass
  <2>5. CASE red = {}
    BY <2>4, <2>5
  <2>6. CASE red # {}
    <3>1. PICK n : n = CHOOSE k \in red : TRUE
      OBVIOUS
    <3>2. n \in red
      BY <2>6, <3>1
    <3>3. r.todo = Write("no_merge", n)
      BY <2>4, <2>6, <3>1
    <3> QED
      BY <2>2, <2>3, <3>2, <3>3
  <2> QED
    BY <2>5, <2>6
<1>8. CASE r.todo = Nothing
  BY <1>6, <1>8
<1>9. CASE r.todo # Nothing
  <2>1. PICK n \in SD!IndexRounds(v.log) : SD!GapDecision(n, v) /\ r.todo = Write("no_merge", n)
    BY <1>7, <1>9
  <2>2. n \in Numbers(log, "round_end")
    BY <1>4, <2>1, DiscardNames DEF SD!IndexRounds
  <2>3. n + 1 \notin Numbers(log, "round_start") /\ "give_up" \notin Kinds(log)
    BY <1>4, <2>1, DiscardNames DEF SD!GapDecision, SD!Late, SD!RoundStarted, SD!GiveupPresent
  <2>4. /\ since >= WRITE_AFTER_S /\ ~(since > WRITE_BEFORE_S) /\ n \in 1..2
        /\ SD!CheckState(log, n) = "red"
    BY <1>4, <2>1 DEF SD!GapDecision
  <2>5. since <= WRITE_BEFORE_S
    BY <2>4, GapAssumption DEF ServeTypes
  <2>6. GapSees(n)
    BY <1>2, <2>2, <2>3, <2>4, <2>5, DiscardAlive DEF GapSees
  <2>7. Write("no_merge", n).what = "no_merge"
    BY DEF Write
  <2> QED
    BY <1>6, <1>9, <2>1, <2>4, <2>6, <2>7
<1> QED
  BY <1>8, <1>9

(* The words of the module, as the plain watchers' instance writes them.   *)
LEMMA WatcherNames ==
  /\ \A s, k : PW!Numbers(s, k) = Numbers(s, k)
  /\ \A s : PW!Kinds(s) = Kinds(s)
  /\ PW!Nothing = Nothing
  /\ \A w, n : PW!Write(w, n) = Write(w, n)
  /\ PW!GIVEUP = {"give_up"}
  /\ \A s, ev, n : PW!Of(s, ev, n) = Of(s, ev, n)
  /\ \A S : PW!Latest(S) = Latest(S)
<1>1. \A s, k : PW!Numbers(s, k) = Numbers(s, k)
  BY Zenon DEF PW!Numbers, Numbers
<1>2. \A s : PW!Kinds(s) = Kinds(s)
  BY Zenon DEF PW!Kinds, Kinds
<1>3. PW!Nothing = Nothing
  BY Zenon DEF PW!Nothing, Nothing
<1>4. \A w, n : PW!Write(w, n) = Write(w, n)
  BY Zenon DEF PW!Write, Write
<1>5. PW!GIVEUP = {"give_up"}
  BY Zenon DEF PW!GIVEUP
<1>6. \A s, ev, n : PW!Of(s, ev, n) = Of(s, ev, n)
  BY Zenon DEF PW!Of, Of
<1>7. \A S : PW!Latest(S) = Latest(S)
  BY Zenon DEF PW!Latest, Latest
<1> QED
  BY <1>1, <1>2, <1>3, <1>4, <1>5, <1>6, <1>7

RalphNew == {n \in Numbers(log, "round_end") \ acted : ~PW!RalphWaits(n, View)}
RalphDue == {n \in RalphNew : PW!ActionFor(n, View)}

(* One pass of ralph: a due round, if there is one, leads to the stop file. *)
LEMMA RalphPass ==
  ASSUME recipe = "ralph", Poll
  PROVE  /\ acted' = acted \cup {n \in RalphNew : ~PW!DeadNoop(n, View)}
         /\ IF RalphDue = {} THEN todo' = Nothing /\ pc' = "poll"
            ELSE \E n \in RalphDue : todo' = Write("stop", n) /\ pc' = "write"
<1>1. Polled(PW!RalphPass(View))
  <2>1. Pass = PW!RalphPass(View)
    BY DEF Pass
  <2> QED
    BY <2>1, PollEffect, Zenon
<1>2. PICK v : v = View
  OBVIOUS
<1>3. v.log = log /\ v.acted = acted /\ v.files = files /\ v.since = since /\ v.already = already
  BY <1>2, ViewFields
<1>4. PICK r : r = PW!RalphPass(v)
  OBVIOUS
<1>5. /\ acted' = r.acted /\ todo' = r.todo
      /\ pc' = IF r.todo = Nothing THEN "poll"
                    ELSE IF r.todo.what = "score" THEN "exam" ELSE "write"
  BY <1>1, <1>2, <1>4, Zenon DEF Polled
<1>6. PICK new : new = RalphNew
  OBVIOUS
<1>7. PICK due : due = RalphDue
  OBVIOUS
<1>8. {n \in PW!IndexRounds(v.log) \ v.acted : ~PW!RalphWaits(n, v)} = new
  BY <1>2, <1>3, <1>6, WatcherNames, Zenon DEF RalphNew, PW!IndexRounds
<1>9. {n \in new : PW!ActionFor(n, v)} = due
  BY <1>2, <1>6, <1>7, Zenon DEF RalphDue
<1>10. PICK n : n = CHOOSE k \in due : TRUE
  OBVIOUS
<1>11. r = [acted |-> acted \cup {k \in new : ~PW!DeadNoop(k, v)},
            todo |-> IF due = {} THEN Nothing ELSE Write("stop", n)]
  <2>1. PW!Nothing = Nothing /\ PW!Write("stop", n) = Write("stop", n)
    BY WatcherNames
  <2> QED
    BY <1>3, <1>4, <1>8, <1>9, <1>10, <2>1 DEF PW!RalphPass
<1>12. r.acted = acted \cup {k \in new : ~PW!DeadNoop(k, v)}
       /\ r.todo = IF due = {} THEN Nothing ELSE Write("stop", n)
  BY <1>11
<1>13. Write("stop", n).what = "stop" /\ Nothing.what = "none"
  BY DEF Write, Nothing
<1>14. due # {} => n \in due
  BY <1>10
<1>15. acted' = acted \cup {k \in new : ~PW!DeadNoop(k, View)}
  BY <1>2, <1>5, <1>12
<1>16. CASE due = {}
  <2>1. todo' = Nothing /\ pc' = "poll"
    BY <1>5, <1>12, <1>16
  <2> QED
    BY <1>6, <1>7, <1>15, <1>16, <2>1
<1>17. CASE due # {}
  <2>1. todo' = Write("stop", n) /\ pc' = "write"
    BY <1>5, <1>12, <1>13, <1>17
  <2> QED
    BY <1>6, <1>7, <1>14, <1>15, <1>17, <2>1
<1> QED
  BY <1>16, <1>17

(* ralph's due round has ended, was checked, and every check was green.    *)
LEMMA RalphDecision ==
  ASSUME NEW n \in RalphDue
  PROVE  /\ n \in Numbers(log, "round_end") /\ ~files.stop
         /\ \A i \in Of(log, "goal_check", n) : log[i].check = "green"
         /\ Of(log, "goal_check", n) # {}
<1>1. PICK v : v = View
  OBVIOUS
<1>2. v.log = log /\ v.files = files
  BY <1>1, ViewFields
<1>3. n \in Numbers(log, "round_end") /\ ~PW!RalphWaits(n, v) /\ PW!ActionFor(n, v)
  BY <1>1 DEF RalphDue, RalphNew
<1>4. PICK c : c = Of(log, "goal_check", n)
  OBVIOUS
<1>5. PW!Checks(log, n) = c
  BY <1>4, WatcherNames, Zenon DEF PW!Checks
<1>6. c # {}
  BY <1>2, <1>3, <1>5 DEF PW!RalphWaits
<1>7. ~files.stop /\ \A i \in c : log[i].check = "green"
  BY <1>2, <1>3, <1>5 DEF PW!ActionFor, PW!AllSatisfied
<1> QED
  BY <1>3, <1>4, <1>6, <1>7

(* The words of the module, as karpathy's instance of it writes them.      *)
LEMMA KarpathyNames ==
  /\ \A s, k : KA!Numbers(s, k) = Numbers(s, k)
  /\ KA!Nothing = Nothing
  /\ \A w, n : KA!Write(w, n) = Write(w, n)
  /\ \A s, ev, n : KA!Of(s, ev, n) = Of(s, ev, n)
  /\ \A S : KA!Latest(S) = Latest(S)
<1>1. \A s, k : KA!Numbers(s, k) = Numbers(s, k)
  BY Zenon DEF KA!Numbers, Numbers
<1>2. KA!Nothing = Nothing
  BY Zenon DEF KA!Nothing, Nothing
<1>3. \A w, n : KA!Write(w, n) = Write(w, n)
  BY Zenon DEF KA!Write, Write
<1>4. \A s, ev, n : KA!Of(s, ev, n) = Of(s, ev, n)
  BY Zenon DEF KA!Of, Of
<1>5. \A S : KA!Latest(S) = Latest(S)
  BY Zenon DEF KA!Latest, Latest
<1> QED
  BY <1>1, <1>2, <1>3, <1>4, <1>5

(* karpathy discards round 1 or keeps round 2, by the value it read.       *)
LEMMA KarpathyPoll ==
  ASSUME recipe = "karpathy", Poll
  PROVE  \/ todo' = Nothing /\ pc' = "poll"
         \/ /\ todo' = Write("discard", 1) /\ pc' = "write"
            /\ 1 \in Numbers(log, "round_end") /\ KA!RoundValue(log, 1) = 1
         \/ /\ todo' = Write("keep", 2) /\ pc' = "write"
            /\ 2 \in Numbers(log, "round_end") /\ KA!RoundValue(log, 2) = 2
<1>1. Polled(KA!Pass(View))
  <2>1. Pass = KA!Pass(View)
    BY DEF Pass
  <2> QED
    BY <2>1, PollEffect, Zenon
<1>2. PICK v : v = View
  OBVIOUS
<1>3. v.log = log /\ v.acted = acted /\ v.files = files /\ v.since = since /\ v.already = already
  BY <1>2, ViewFields
<1>4. PICK r : r = KA!Pass(v)
  OBVIOUS
<1>5. /\ acted' = r.acted /\ todo' = r.todo
      /\ pc' = IF r.todo = Nothing THEN "poll"
                    ELSE IF r.todo.what = "score" THEN "exam" ELSE "write"
  BY <1>1, <1>2, <1>4, Zenon DEF Polled
<1>6. \/ r.todo = Nothing
      \/ \E n \in Numbers(log, "round_end") : r.todo = KA!ApplyRound(n, v)
  <2>1. KA!Nothing = Nothing
    BY KarpathyNames
  <2>2. PICK due : due = {n \in KA!IndexRounds(v.log) \ v.acted : ~KA!Late(n, v) /\ KA!InsideDelay(v)}
    OBVIOUS
  <2>3. due \subseteq Numbers(log, "round_end")
    BY <1>3, <2>2, KarpathyNames DEF KA!IndexRounds
  <2>4. r.todo = IF due = {} THEN Nothing ELSE KA!ApplyRound(CHOOSE n \in due : TRUE, v)
    BY <1>4, <2>1, <2>2 DEF KA!Pass
  <2>5. CASE due = {}
    BY <2>4, <2>5
  <2>6. CASE due # {}
    <3>1. PICK n : n = CHOOSE k \in due : TRUE
      OBVIOUS
    <3>2. n \in due
      BY <2>6, <3>1
    <3>3. r.todo = KA!ApplyRound(n, v)
      BY <2>4, <2>6, <3>1
    <3> QED
      BY <2>3, <3>2, <3>3
  <2> QED
    BY <2>5, <2>6
<1>7. CASE r.todo = Nothing
  BY <1>5, <1>7
<1>8. CASE r.todo # Nothing
  <2>1. PICK n \in Numbers(log, "round_end") : r.todo = KA!ApplyRound(n, v)
    BY <1>6, <1>8
  <2>2. \/ n = 1 /\ KA!RoundValue(log, 1) = 1 /\ r.todo = KA!Write("discard", 1)
        \/ n = 2 /\ KA!RoundValue(log, 2) = 2 /\ r.todo = KA!Write("keep", 2)
        \/ r.todo = KA!Nothing
    BY <1>3, <2>1 DEF KA!ApplyRound, KA!BOOT_WORSE, KA!BOOT_BETTER
  <2>3. KA!Write("discard", 1) = Write("discard", 1) /\ KA!Write("keep", 2) = Write("keep", 2)
        /\ KA!Nothing = Nothing
    BY KarpathyNames
  <2>4. Write("discard", 1).what = "discard" /\ Write("keep", 2).what = "keep"
    BY DEF Write
  <2> QED
    BY <1>5, <1>8, <2>1, <2>2, <2>3, <2>4
<1> QED
  BY <1>7, <1>8

(* The words of the module, as the course writers' instance writes them.   *)
LEMMA CourseNames ==
  /\ \A s, k : CW!Numbers(s, k) = Numbers(s, k)
  /\ CW!Nothing = Nothing
  /\ \A w, n : CW!Write(w, n) = Write(w, n)
  /\ \A s, ev, n : CW!Of(s, ev, n) = Of(s, ev, n)
  /\ \A S : CW!Latest(S) = Latest(S)
<1>1. \A s, k : CW!Numbers(s, k) = Numbers(s, k)
  BY Zenon DEF CW!Numbers, Numbers
<1>2. CW!Nothing = Nothing
  BY Zenon DEF CW!Nothing, Nothing
<1>3. \A w, n : CW!Write(w, n) = Write(w, n)
  BY Zenon DEF CW!Write, Write
<1>4. \A s, ev, n : CW!Of(s, ev, n) = Of(s, ev, n)
  BY Zenon DEF CW!Of, Of
<1>5. \A S : CW!Latest(S) = Latest(S)
  BY Zenon DEF CW!Latest, Latest
<1> QED
  BY <1>1, <1>2, <1>3, <1>4, <1>5

(* ace appends after round 1, when the check it read makes a bullet.       *)
LEMMA AcePoll ==
  ASSUME recipe = "ace", Poll
  PROVE  \/ todo' = Nothing /\ pc' = "poll"
         \/ /\ todo' = Write("append", 1) /\ pc' = "write"
            /\ 1 \in Numbers(log, "round_end") /\ CW!BulletFromCheck(log, 1)
<1>1. Polled(CW!AcePass(View))
  <2>1. Pass = CW!AcePass(View)
    BY DEF Pass
  <2> QED
    BY <2>1, PollEffect, Zenon
<1>2. PICK v : v = View
  OBVIOUS
<1>3. v.log = log /\ v.acted = acted /\ v.files = files /\ v.since = since /\ v.already = already
  BY <1>2, ViewFields
<1>4. PICK r : r = CW!AcePass(v)
  OBVIOUS
<1>5. /\ acted' = r.acted /\ todo' = r.todo
      /\ pc' = IF r.todo = Nothing THEN "poll"
                    ELSE IF r.todo.what = "score" THEN "exam" ELSE "write"
  BY <1>1, <1>2, <1>4, Zenon DEF Polled
<1>6. \/ r.todo = Nothing
      \/ r.todo = Write("append", 1) /\ 1 \in Numbers(log, "round_end") /\ CW!BulletFromCheck(log, 1)
  <2>1. CW!Nothing = Nothing /\ CW!Write("append", 1) = Write("append", 1)
    BY CourseNames
  <2>2. PICK due : due = {n \in CW!Ends(v.log) \ v.acted :
                            ~CW!Late(n, v) /\ CW!InsideDelay(v) /\ CW!AceApplyRound(n, v)}
    OBVIOUS
  <2>3. due \subseteq Numbers(log, "round_end")
    BY <1>3, <2>2, CourseNames DEF CW!Ends
  <2>4. \A n \in due : n = 1 /\ CW!BulletFromCheck(log, 1)
    BY <1>3, <2>2 DEF CW!AceApplyRound
  <2>5. r.todo = IF due = {} THEN Nothing ELSE Write("append", 1)
    BY <1>4, <2>1, <2>2 DEF CW!AcePass
  <2> QED
    BY <2>3, <2>4, <2>5
<1>7. Write("append", 1).what = "append"
  BY DEF Write
<1>8. CASE r.todo = Nothing
  BY <1>5, <1>8
<1>9. CASE r.todo # Nothing
  BY <1>5, <1>6, <1>7, <1>9
<1> QED
  BY <1>8, <1>9

(* rsi_agent appends after round 1.                                        *)
LEMMA RsiPoll ==
  ASSUME recipe = "rsi_agent", Poll
  PROVE  \/ todo' = Nothing /\ pc' = "poll"
         \/ /\ todo' = Write("append", 1) /\ pc' = "write"
            /\ 1 \in Numbers(log, "round_end") /\ conf.queue = "good"
<1>1. Polled(CW!RsiPass(View))
  <2>1. Pass = CW!RsiPass(View)
    BY DEF Pass
  <2> QED
    BY <2>1, PollEffect, Zenon
<1>2. PICK v : v = View
  OBVIOUS
<1>3. v.log = log /\ v.acted = acted /\ v.conf = conf
  BY <1>2, ViewFields
<1>4. PICK r : r = CW!RsiPass(v)
  OBVIOUS
<1>5. /\ acted' = r.acted /\ todo' = r.todo
      /\ pc' = IF r.todo = Nothing THEN "poll"
                    ELSE IF r.todo.what = "score" THEN "exam" ELSE "write"
  BY <1>1, <1>2, <1>4, Zenon DEF Polled
<1>6. \/ r.todo = Nothing
      \/ /\ r.todo = Write("append", 1) /\ 1 \in Numbers(log, "round_end")
         /\ conf.queue = "good"
  <2>1. CW!Nothing = Nothing /\ CW!Write("append", 1) = Write("append", 1)
    BY CourseNames
  <2>2. PICK due : due = {n \in CW!RsiEnds(v.log) \ v.acted :
                            ~CW!Late(n, v) /\ CW!InsideDelay(v) /\ CW!RsiApplyRound(n, v)}
    OBVIOUS
  <2>3. due \subseteq Numbers(log, "round_end")
    BY <1>3, <2>2, CourseNames DEF CW!RsiEnds
  <2>4. \A n \in due : n = 1 /\ conf.queue = "good"
    BY <1>3, <2>2 DEF CW!RsiApplyRound
  <2>5. r.todo = IF due = {} THEN Nothing ELSE Write("append", 1)
    BY <1>4, <2>1, <2>2 DEF CW!RsiPass
  <2> QED
    BY <2>3, <2>4, <2>5
<1>7. Write("append", 1).what = "append"
  BY DEF Write
<1>8. CASE r.todo = Nothing
  BY <1>5, <1>8
<1>9. CASE r.todo # Nothing
  BY <1>5, <1>6, <1>7, <1>9
<1> QED
  BY <1>8, <1>9

(* The words of the module, as rsi_exam's instance of it writes them.      *)
LEMMA ExamNames ==
  /\ \A s, k : RE!Numbers(s, k) = Numbers(s, k)
  /\ RE!Nothing = Nothing
  /\ \A w, n : RE!Write(w, n) = Write(w, n)
<1>1. \A s, k : RE!Numbers(s, k) = Numbers(s, k)
  BY Zenon DEF RE!Numbers, Numbers
<1>2. RE!Nothing = Nothing
  BY Zenon DEF RE!Nothing, Nothing
<1>3. \A w, n : RE!Write(w, n) = Write(w, n)
  BY Zenon DEF RE!Write, Write
<1> QED
  BY <1>1, <1>2, <1>3

(* rsi_exam starts its exam after round 2.                                 *)
LEMMA ExamPoll ==
  ASSUME recipe = "rsi_exam", Poll
  PROVE  \/ todo' = Nothing /\ pc' = "poll"
         \/ todo' = Write("score", 2) /\ pc' = "exam" /\ 2 \in Numbers(log, "round_end")
<1>1. Polled(RE!Pass(View))
  <2>1. Pass = RE!Pass(View)
    BY DEF Pass
  <2> QED
    BY <2>1, PollEffect, Zenon
<1>2. PICK v : v = View
  OBVIOUS
<1>3. v.log = log /\ v.acted = acted /\ v.files = files /\ v.since = since /\ v.already = already
  BY <1>2, ViewFields
<1>4. PICK r : r = RE!Pass(v)
  OBVIOUS
<1>5. /\ acted' = r.acted /\ todo' = r.todo
      /\ pc' = IF r.todo = Nothing THEN "poll"
                    ELSE IF r.todo.what = "score" THEN "exam" ELSE "write"
  BY <1>1, <1>2, <1>4, Zenon DEF Polled
<1>6. \/ r.todo = Nothing
      \/ r.todo = Write("score", 2) /\ 2 \in Numbers(log, "round_end")
  <2>1. RE!Nothing = Nothing /\ RE!Write("score", 2) = Write("score", 2)
    BY ExamNames
  <2>2. RE!IndexRounds(v.log) = Numbers(log, "round_end")
    BY <1>3, ExamNames DEF RE!IndexRounds
  <2> QED
    BY <1>4, <2>1, <2>2 DEF RE!Pass
<1>7. Write("score", 2).what = "score"
  BY DEF Write
<1>8. CASE r.todo = Nothing
  BY <1>5, <1>8
<1>9. CASE r.todo # Nothing
  BY <1>5, <1>6, <1>7, <1>9
<1> QED
  BY <1>8, <1>9

(* longhorizon acts on a check it read: it appends only after a green one. *)
LEMMA LongPoll ==
  ASSUME recipe = "longhorizon", Poll, log \in Seq(Happening), seen \in Nat
  PROVE  \/ todo' = Nothing /\ pc' = "poll"
         \/ \E i \in DOMAIN log :
              /\ log[i].ev = "goal_check" /\ pc' = "write"
              /\ \/ log[i].check # "green" /\ todo' = Write("retry", log[i].n)
                 \/ log[i].check = "green" /\ todo' = Write("append", log[i].n)
<1>1. Polled([acted |-> {}, todo |-> PW!LongPass(View)])
  <2>1. Pass = [acted |-> {}, todo |-> PW!LongPass(View)]
    BY DEF Pass
  <2> QED
    BY <2>1, PollEffect, Zenon
<1>2. PICK v : v = View
  OBVIOUS
<1>3. v.log = log /\ v.acted = acted /\ v.files = files /\ v.since = since /\ v.already = already
  BY <1>2, ViewFields
<1>4. PICK r : r = [acted |-> {}, todo |-> PW!LongPass(v)]
  OBVIOUS
<1>5. /\ acted' = r.acted /\ todo' = r.todo
      /\ pc' = IF r.todo = Nothing THEN "poll"
                    ELSE IF r.todo.what = "score" THEN "exam" ELSE "write"
  BY <1>1, <1>2, <1>4, Zenon DEF Polled
<1>6. r.todo = PW!LongPass(v) /\ v.seen = seen
  BY <1>2, <1>4, ViewFields
<1>7. CASE ~PW!LongFresh(v)
  <2>1. r.todo = Nothing
    BY <1>6, <1>7, WatcherNames DEF PW!LongPass
  <2> QED
    BY <1>5, <2>1
<1>8. CASE PW!LongFresh(v)
  <2>1. PICK c : c = PW!LatestChecks(v)
    OBVIOUS
  <2>2. c \in SUBSET (1..Len(log)) /\ \A i \in c : log[i].ev = "goal_check"
    BY <1>3, <2>1 DEF PW!LatestChecks
  <2>3. c # {}
    <3>1. ~(0 > seen)
      OBVIOUS
    <3>2. Cardinality(PW!LatestChecks(v)) > v.seen
      BY <1>8, Zenon DEF PW!LongFresh, PW!Cardinality, Cardinality
    <3>3. Cardinality(c) > seen
      BY <1>6, <2>1, <3>2
    <3>4. c = {} => Cardinality(c) = 0
      BY FS_EmptySet
    <3> QED
      BY <3>1, <3>3, <3>4
  <2>4. PICK i : i = Latest(c)
    OBVIOUS
  <2>5. i \in c
    <3>1. PICK N \in Nat : N = Len(log)
      OBVIOUS
    <3>2. c \in SUBSET (1..N)
      BY <2>2, <3>1
    <3>3. Latest(c) \in c
      BY <2>3, <3>1, <3>2, LatestIn
    <3> QED
      BY <2>4, <3>3
  <2>6. PICK ev : ev = PW!LastOf(v.log, PW!LatestChecks(v), PW!Nothing)
    OBVIOUS
  <2>7. ev = log[i]
    BY <1>3, <2>1, <2>3, <2>4, <2>6, WatcherNames DEF PW!LastOf
  <2>8. \/ ev.check # "green" /\ r.todo = PW!Write("retry", ev.n)
        \/ r.todo = PW!Nothing
        \/ ev.check = "green" /\ r.todo = PW!Write("append", ev.n)
    BY <1>6, <1>8, <2>6 DEF PW!LongPass
  <2>9. PICK n : n = log[i].n
    OBVIOUS
  <2>10. \/ log[i].check # "green" /\ r.todo = Write("retry", n)
         \/ r.todo = Nothing
         \/ log[i].check = "green" /\ r.todo = Write("append", n)
    BY <2>7, <2>8, <2>9, WatcherNames
  <2>11. Write("retry", n).what = "retry" /\ Write("append", n).what = "append"
    BY DEF Write
  <2>12. r.todo = Nothing => todo' = Nothing /\ pc' = "poll"
    BY <1>5
  <2>13. r.todo # Nothing => pc' = "write"
    BY <1>5, <2>10, <2>11
  <2> QED
    BY <1>5, <2>2, <2>5, <2>9, <2>10, <2>12, <2>13
<1> QED
  BY <1>7, <1>8

(* The rounds in a part of a log are rounds of the log.                    *)
LEMMA NumbersOfPart ==
  ASSUME NEW s, NEW a \in Nat, NEW b \in Nat, a > 0,
         \A i \in a..b : i \in DOMAIN s
  PROVE  /\ \A k : Numbers(SubSeq(s, a, b), k) \subseteq Numbers(s, k)
         /\ Len(SubSeq(s, a, b)) \in Nat
         /\ DOMAIN SubSeq(s, a, b) = 1..Len(SubSeq(s, a, b))
<1>1. PICK S : S = {s[i] : i \in a..b}
  OBVIOUS
<1>2. \A i \in a..b : s[i] \in S
  BY <1>1
<1>3. PICK t : t = SubSeq(s, a, b)
  OBVIOUS
<1>4. /\ t \in Seq(S) /\ Len(t) = IF a <= b THEN b - a + 1 ELSE 0
      /\ \A i \in 1..(b - a + 1) : t[i] = s[a + i - 1]
  BY <1>2, <1>3, SubSeqProperties
<1>5. Len(t) \in Nat /\ DOMAIN t = 1..Len(t)
  BY <1>4
<1>6. ASSUME NEW k, NEW n \in Numbers(t, k) PROVE n \in Numbers(s, k)
  <2>1. PICK i \in DOMAIN t : t[i].ev = k /\ t[i].n = n
    BY NumbersIn
  <2>2. i \in 1..(b - a + 1) /\ a + i - 1 \in a..b
    BY <1>4, <1>5
  <2>3. PICK j \in DOMAIN s : t[i] = s[j]
    BY <1>4, <2>2
  <2> QED
    BY <2>1, <2>3, NumbersIn
<1> QED
  BY <1>3, <1>5, <1>6

(* The rounds between_rounds reads are rounds that ended.                  *)
FollowedEnds == Numbers(PW!FollowRounds(View), "round_end")

(* between_rounds swaps the prompt in after one of them, or does nothing.  *)
LEMMA BetweenPoll ==
  ASSUME recipe = "between_rounds", Poll
  PROVE  \/ todo' = Nothing /\ pc' = "poll"
         \/ /\ FollowedEnds # {} /\ pc' = "write"
            /\ todo' = Write("swap", Latest(FollowedEnds))
<1>1. Polled([acted |-> {}, todo |-> PW!BetweenPass(View)])
  <2>1. Pass = [acted |-> {}, todo |-> PW!BetweenPass(View)]
    BY DEF Pass
  <2> QED
    BY <2>1, PollEffect, Zenon
<1>2. PICK v : v = View
  OBVIOUS
<1>3. PICK r : r = [acted |-> {}, todo |-> PW!BetweenPass(v)]
  OBVIOUS
<1>4. /\ todo' = r.todo
      /\ pc' = IF r.todo = Nothing THEN "poll"
                    ELSE IF r.todo.what = "score" THEN "exam" ELSE "write"
  BY <1>1, <1>2, <1>3, Zenon DEF Polled
<1>5. PICK n, ends : ends = FollowedEnds /\ n = Latest(ends)
  OBVIOUS
<1>6. r.todo = Nothing \/ (ends # {} /\ r.todo = Write("swap", n))
  <2>1. r.todo = PW!BetweenPass(v)
    BY <1>3
  <2>2. PW!Numbers(PW!FollowRounds(v), "round_end") = ends
    BY <1>2, <1>5, WatcherNames DEF FollowedEnds
  <2>3. PW!Nothing = Nothing /\ PW!Write("swap", n) = Write("swap", n) /\ PW!Latest(ends) = n
    BY <1>5, WatcherNames
  <2> QED
    BY <2>1, <2>2, <2>3 DEF PW!BetweenPass
<1>7. Write("swap", n).what = "swap"
  BY DEF Write
<1>8. CASE r.todo = Nothing
  BY <1>4, <1>8
<1>9. CASE r.todo # Nothing
  <2>1. ends # {} /\ todo' = Write("swap", n) /\ pc' = "write"
    BY <1>4, <1>6, <1>7, <1>9
  <2> QED
    BY <1>5, <2>1
<1> QED
  BY <1>8, <1>9

(* They are in the log, so the newest of them is.                          *)
LEMMA FollowedEnded ==
  ASSUME ServeTypes, Numbered, seen \in Nat, old <= Len(log), FollowedEnds # {}
  PROVE  Latest(FollowedEnds) \in Numbers(log, "round_end")
<1>1. PICK v : v = View
  OBVIOUS
<1>2. v.log = log /\ v.old = old /\ v.seen = seen
  BY <1>1, ViewFields
<1>3. /\ old \in Nat /\ seen \in Nat /\ old <= Len(log)
      /\ Len(log) \in Nat /\ DOMAIN log = 1..Len(log)
  <2>1. PICK S : S = Happening
    OBVIOUS
  <2>2. log \in Seq(S) /\ old \in Nat
    BY <2>1 DEF ServeTypes
  <2> QED
    BY <2>2
<1>4. PICK m : m = PW!MonthFile(v)
  OBVIOUS
<1>5. m = SubSeq(log, old + 1, Len(log)) \/ m = SubSeq(log, 1, old)
  BY <1>2, <1>4 DEF PW!MonthFile
<1>6. /\ Numbers(m, "round_end") \subseteq Numbers(log, "round_end")
      /\ Len(m) \in Nat /\ DOMAIN m = 1..Len(m)
  <2>1. CASE m = SubSeq(log, old + 1, Len(log))
    <3>1. old + 1 \in Nat /\ old + 1 > 0 /\ \A i \in (old + 1)..Len(log) : i \in DOMAIN log
      BY <1>3
    <3>2. PICK a : a = old + 1
      OBVIOUS
    <3>3. /\ a \in Nat /\ a > 0 /\ Len(log) \in Nat /\ m = SubSeq(log, a, Len(log))
          /\ \A i \in a..Len(log) : i \in DOMAIN log
      BY <1>3, <2>1, <3>1, <3>2, Zenon
    <3> QED
      BY <3>3, NumbersOfPart, Zenon
  <2>2. CASE m = SubSeq(log, 1, old)
    <3>1. 1 > 0 /\ \A i \in 1..old : i \in DOMAIN log
      BY <1>3
    <3>2. PICK a : a = 1
      OBVIOUS
    <3>3. /\ a \in Nat /\ a > 0 /\ old \in Nat /\ m = SubSeq(log, a, old)
          /\ \A i \in a..old : i \in DOMAIN log
      BY <1>3, <2>2, <3>1, <3>2
    <3> QED
      BY <3>3, NumbersOfPart, Zenon
  <2> QED
    BY <1>5, <2>1, <2>2
<1>7. PW!FollowRounds(v) = SubSeq(m, seen + 1, Len(m))
  BY <1>2, <1>4 DEF PW!FollowRounds
<1>8. Numbers(SubSeq(m, seen + 1, Len(m)), "round_end") \subseteq Numbers(m, "round_end")
  <2>1. \A i \in (seen + 1)..Len(m) : i \in DOMAIN m
    BY <1>3, <1>6
  <2> QED
    BY <1>3, <1>6, <2>1, NumbersOfPart
<1>9. PICK ends : ends = FollowedEnds
  OBVIOUS
<1>10. ends \subseteq Numbers(log, "round_end") /\ ends # {}
  BY <1>1, <1>6, <1>7, <1>8, <1>9 DEF FollowedEnds
<1>11. Latest(ends) \in ends
  <2>1. PICK N \in Nat : N = num
    BY DEF ServeTypes
  <2>2. ends \in SUBSET (1..N)
    BY <1>10, <2>1 DEF Numbered
  <2> QED
    BY <1>10, <2>2, LatestIn
<1> QED
  BY <1>9, <1>10, <1>11

----------------------------------------------------------------------------
(* The files. *)

(* What each recipe can be about to write. *)
Fits ==
    \/ recipe \in {"spend_ceiling", "repeat_fail", "ralph"} /\ todo.what = "stop"
    \/ recipe \in {"tool_allow", "ace", "rsi_agent"} /\ todo.what = "append"
    \/ recipe = "rsi_exam" /\ todo.what = "score"
    \/ recipe = "serial_discard" /\ todo.what = "no_merge"
    \/ recipe = "karpathy" /\ todo.what \in {"discard", "keep"}
    \/ recipe = "longhorizon" /\ todo.what \in {"append", "retry"}
    \/ recipe = "between_rounds" /\ todo.what = "swap"

TodoFits ==
    /\ pc \in {"exam", "write", "swap"} => Fits
    /\ pc = "exam" => recipe = "rsi_exam"
    /\ pc = "swap" => recipe = "karpathy" /\ todo.what = "discard"

(* The three scripts with a stop file change nothing else.                 *)
LEMMA WrittenStop ==
  ASSUME recipe \in {"spend_ceiling", "repeat_fail", "ralph"}
  PROVE  Written = [files EXCEPT !.stop = TRUE]
<1>1. PICK v : v = View
  OBVIOUS
<1>2. v.files = files
  BY <1>1, ViewFields
<1>3. SC!CreateStop(v) = [files EXCEPT !.stop = TRUE]
  BY <1>2 DEF SC!CreateStop
<1>4. RF!MaybeCreate(v) = [files EXCEPT !.stop = TRUE]
  BY <1>2 DEF RF!MaybeCreate
<1>5. PW!CreateStop(v) = [files EXCEPT !.stop = TRUE]
  BY <1>2 DEF PW!CreateStop
<1>6. Written = CASE recipe = "spend_ceiling" -> SC!CreateStop(v)
                  [] recipe = "repeat_fail" -> RF!MaybeCreate(v)
                  [] recipe = "ralph" -> PW!CreateStop(v)
  BY <1>1 DEF Written
<1> QED
  BY <1>3, <1>4, <1>5, <1>6

(* tool_allow adds its sentence to the prompt.                             *)
LEMMA WrittenTool ==
  ASSUME recipe = "tool_allow"
  PROVE  Written = [files EXCEPT !.extra = files.extra + 1]
<1>1. Written = TA!WritePrompt(View)
  BY DEF Written
<1> QED
  BY <1>1, ViewFields DEF TA!WritePrompt

(* Whatever a recipe writes, the files stay what they are.                 *)
LEMMA WrittenType ==
  ASSUME files \in Files, seed \in Nat, Fits
  PROVE  Written \in Files
<1>1. PICK v : v = View
  OBVIOUS
<1>2. v.files = files /\ v.seed = seed
  BY <1>1, ViewFields
<1>3. CASE recipe \in {"spend_ceiling", "repeat_fail", "ralph"}
  BY <1>3, WrittenStop DEF Files
<1>4. CASE recipe = "tool_allow"
  BY <1>4, WrittenTool DEF Files
<1>5. CASE recipe = "rsi_exam"
  <2>1. Written = RE!WriteScore(v)
    BY <1>1, <1>5 DEF Written
  <2> QED
    BY <1>2, <2>1 DEF RE!WriteScore, Files
<1>6. CASE recipe = "serial_discard"
  <2>1. Written = SD!ApplyGap(v)
    BY <1>1, <1>6 DEF Written
  <2> QED
    BY <1>2, <2>1 DEF SD!ApplyGap
<1>7. CASE recipe = "karpathy"
  <2>1. \/ Written = KA!RestoreSource(v)
        \/ Written = KA!KeepSource(v)
    BY <1>1, <1>7 DEF Written, Fits
  <2>2. KA!RestoreSource(v) \in Files
    BY <1>2 DEF KA!RestoreSource, Files
  <2>3. KA!KeepSource(v) \in Files
    BY <1>2 DEF KA!KeepSource, Files
  <2> QED
    BY <2>1, <2>2, <2>3
<1>8. CASE recipe \in {"ace", "rsi_agent"}
  <2>1. Written = CW!AppendToSeed(v)
    BY <1>1, <1>8 DEF Written
  <2> QED
    BY <1>2, <2>1 DEF CW!AppendToSeed, Files
<1>9. CASE recipe = "longhorizon"
  <2>1. \/ Written = PW!AppendOnce(v)
        \/ Written = PW!ReplaceInstruction(v)
    BY <1>1, <1>9 DEF Written, Fits
  <2>2. PW!AppendOnce(v) \in Files
    BY <1>2 DEF PW!AppendOnce, Files
  <2>3. PW!ReplaceInstruction(v) \in Files
    BY <1>2 DEF PW!ReplaceInstruction, Files
  <2> QED
    BY <2>1, <2>2, <2>3
<1>10. CASE recipe = "between_rounds"
  <2>1. Written = PW!ApplyQueuedPrompt(v)
    BY <1>1, <1>10 DEF Written
  <2>2. PICK q : q = [files EXCEPT !.prompt = "queued"]
    OBVIOUS
  <2>3. q \in Files
    BY <2>2 DEF Files
  <2>4. [q EXCEPT !.queue = "none"] \in Files
    BY <2>3 DEF Files
  <2> QED
    BY <1>2, <2>1, <2>2, <2>4 DEF PW!ApplyQueuedPrompt
<1> QED
  BY <1>3, <1>4, <1>5, <1>6, <1>7, <1>8, <1>9, <1>10 DEF Fits

(* What a write is, and the round it is for.                               *)
LEMMA WriteParts ==
  ASSUME NEW w, NEW n
  PROVE  Write(w, n).what = w /\ Write(w, n).n = n
BY DEF Write

(* A poll leads only to a write of its own recipe.                         *)
LEMMA PollFits ==
  ASSUME ServeTypes, Identity, Numbered, seen \in Nat, Poll
  PROVE  \/ pc' = "poll"
         \/ Fits' /\ pc' \in {"exam", "write"} /\ (pc' = "exam" => recipe = "rsi_exam")
<1>1. recipe \in AllRecipes
  BY OuterLoopAssumption DEF ServeTypes
<1>2. recipe' = recipe
  BY PollEffect DEF Polled
<1>3. PICK t : t = todo'
  OBVIOUS
<1>4. CASE recipe = "spend_ceiling"
  <2>1. pc' = "poll" \/ \E n : t = Write("stop", n) /\ pc' = "write"
    BY <1>3, <1>4, SpendPass
  <2> QED
    BY <1>2, <1>3, <1>4, <2>1, WriteParts DEF Fits
<1>5. CASE recipe = "tool_allow"
  <2>1. pc' = "poll" \/ \E n : t = Write("append", n) /\ pc' = "write"
    BY <1>3, <1>5, ToolPoll
  <2> QED
    BY <1>2, <1>3, <1>5, <2>1, WriteParts DEF Fits
<1>6. CASE recipe = "repeat_fail"
  <2>1. pc' = "poll" \/ \E n : t = Write("stop", n) /\ pc' = "write"
    BY <1>3, <1>6, FailPass
  <2> QED
    BY <1>2, <1>3, <1>6, <2>1, WriteParts DEF Fits
<1>7. CASE recipe = "rsi_exam"
  <2>1. pc' = "poll" \/ \E n : t = Write("score", n) /\ pc' = "exam"
    BY <1>3, <1>7, ExamPoll
  <2> QED
    BY <1>2, <1>3, <1>7, <2>1, WriteParts DEF Fits
<1>8. CASE recipe = "serial_discard"
  <2>1. pc' = "poll" \/ \E n : t = Write("no_merge", n) /\ pc' = "write"
    BY <1>3, <1>8, DiscardPoll
  <2> QED
    BY <1>2, <1>3, <1>8, <2>1, WriteParts DEF Fits
<1>9. CASE recipe = "karpathy"
  <2>1. pc' = "poll" \/ \E n : (t = Write("discard", n) \/ t = Write("keep", n)) /\ pc' = "write"
    BY <1>3, <1>9, KarpathyPoll
  <2> QED
    BY <1>2, <1>3, <1>9, <2>1, WriteParts DEF Fits
<1>10. CASE recipe = "ace"
  <2>1. pc' = "poll" \/ \E n : t = Write("append", n) /\ pc' = "write"
    BY <1>3, <1>10, AcePoll
  <2> QED
    BY <1>2, <1>3, <1>10, <2>1, WriteParts DEF Fits
<1>11. CASE recipe = "rsi_agent"
  <2>1. pc' = "poll" \/ \E n : t = Write("append", n) /\ pc' = "write"
    BY <1>3, <1>11, RsiPoll
  <2> QED
    BY <1>2, <1>3, <1>11, <2>1, WriteParts DEF Fits
<1>12. CASE recipe = "ralph"
  <2>1. pc' = "poll" \/ \E n : t = Write("stop", n) /\ pc' = "write"
    BY <1>3, <1>12, RalphPass
  <2> QED
    BY <1>2, <1>3, <1>12, <2>1, WriteParts DEF Fits
<1>13. CASE recipe = "longhorizon"
  <2>1. pc' = "poll" \/ \E n : (t = Write("retry", n) \/ t = Write("append", n)) /\ pc' = "write"
    BY <1>3, <1>13, LongPoll DEF ServeTypes
  <2> QED
    BY <1>2, <1>3, <1>13, <2>1, WriteParts DEF Fits
<1>14. CASE recipe = "between_rounds"
  <2>1. pc' = "poll" \/ \E n : t = Write("swap", n) /\ pc' = "write"
    BY <1>3, <1>14, BetweenPoll
  <2> QED
    BY <1>2, <1>3, <1>14, <2>1, WriteParts DEF Fits
<1> QED
  BY <1>1, <1>4, <1>5, <1>6, <1>7, <1>8, <1>9, <1>10, <1>11, <1>12, <1>13, <1>14 DEF AllRecipes

(* How far a script has read is a number.                                  *)
LEMMA SeenType ==
  ASSUME log \in Seq(Happening), old \in Nat, seen \in Nat
  PROVE  Seen \in Nat
<1>1. PICK v : v = View
  OBVIOUS
<1>2. v.log = log /\ v.old = old
  BY <1>1, ViewFields
<1>3. Len(log) \in Nat /\ DOMAIN log = 1..Len(log)
  <2>1. PICK S : S = Happening
    OBVIOUS
  <2> QED
    BY <2>1
<1>4. Cardinality(PW!LatestChecks(v)) \in Nat
  <2>1. PICK c : c = PW!LatestChecks(v)
    OBVIOUS
  <2>2. c \in SUBSET (1..Len(log))
    BY <1>2, <1>3, <2>1 DEF PW!LatestChecks
  <2>3. IsFiniteSet(1..Len(log))
    BY <1>3, FS_Interval
  <2>4. IsFiniteSet(c)
    BY <2>2, <2>3, FS_Subset
  <2> QED
    BY <2>1, <2>4, FS_CardinalityType
<1>5. Len(PW!MonthFile(v)) \in Nat
  <2>1. PICK S : S = Happening
    OBVIOUS
  <2>2. PICK f : f = PW!MonthFile(v)
    OBVIOUS
  <2>3. f = SubSeq(log, old + 1, Len(log)) \/ f = SubSeq(log, 1, old)
    BY <1>2, <2>2, Zenon DEF PW!MonthFile
  <2>4. Len(f) \in Nat
    BY <1>3, <2>1, <2>3
  <2> QED
    BY <2>2, <2>4
<1>6. \/ Seen = Cardinality(PW!LatestChecks(v))
      \/ Seen = Len(PW!MonthFile(v)) \/ Seen = seen
  BY <1>1 DEF Seen
<1> QED
  BY <1>4, <1>5, <1>6

(* What a script reads before its loop is a number.                        *)
LEMMA SeedType ==
  ASSUME files \in Files, old \in Nat
  PROVE  SeedAtStart \in Nat
<1>1. \/ SeedAtStart = files.score \/ SeedAtStart = files.extra
      \/ SeedAtStart = files.snapshot \/ SeedAtStart = old \/ SeedAtStart = 0
  BY DEF SeedAtStart
<1> QED
  BY <1>1 DEF Files

ServeStep ==
    ServeStart \/ ServeTop \/ GoalCheck \/ RoundEnd \/ HooksEnd \/ ServeGivesUp
    \/ ServeCrash \/ PidReused \/ MonthTurns

(* Serve never touches the script, and of the files only the source.       *)
LEMMA ServeStepEffect ==
  ASSUME ServeTypes, ServeStep
  PROVE  /\ UNCHANGED <<recipe, conf, edited, pc, latched, acted, already, seen, seed, todo,
                        starts, idle, writes>>
         /\ files' = files \/ RoundBegins
<1>1. CASE ServeStart
  BY <1>1, Zenon DEF ServeStart, script
<1>2. CASE ServeTop
  <2>1. UNCHANGED <<recipe, conf, scriptSide>> /\ (RoundBegins \/ ServeEnds("finished"))
    BY <1>2, ServeTopEffect, Zenon
  <2> QED
    BY <2>1, Zenon DEF scriptSide, script, ServeEnds
<1>3. CASE GoalCheck
  BY <1>3, GoalCheckEffect, Zenon DEF scriptSide, script, RoundChecked
<1>4. CASE RoundEnd
  BY <1>4, Zenon DEF RoundEnd, script
<1>5. CASE HooksEnd
  BY <1>5, HooksEndEffect, Zenon DEF scriptSide, script, UsageRecorded
<1>6. CASE ServeGivesUp
  BY <1>6, GivesUpEffect, Zenon DEF scriptSide, script, ServeEnds
<1>7. CASE ServeCrash
  BY <1>7, Zenon DEF ServeCrash, script
<1>8. CASE PidReused
  BY <1>8, Zenon DEF PidReused, script
<1>9. CASE MonthTurns
  BY <1>9, Zenon DEF MonthTurns, script
<1> QED
  BY <1>1, <1>2, <1>3, <1>4, <1>5, <1>6, <1>7, <1>8, <1>9 DEF ServeStep

(* A write as it is recorded. *)
NewWrite(what) == [what |-> what, n |-> todo.n, where |-> Where(todo.n),
                   own |-> ran_by[todo.n] = latched, by |-> starts]

Lands ==
    /\ MayWrite /\ files' = Written /\ writes' = writes \cup {NewWrite(todo.what)}
    /\ pc' = IF todo.what = "discard" THEN "swap" ELSE "poll"
    /\ UNCHANGED <<acted, attentive>>

HoldsBack ==
    /\ ~MayWrite /\ UNCHANGED <<files, already, writes>>
    /\ pc' = IF recipe = "between_rounds" THEN "done" ELSE "poll"
    /\ acted' = IF recipe \in {"spend_ceiling", "tool_allow"}
                        THEN acted \ {todo.n} ELSE acted
    /\ attentive' = (attentive /\ recipe # "between_rounds")

(* A write lands, or is held back by what was looked at again.             *)
LEMMA DoWriteEffect ==
  ASSUME DoWrite
  PROVE  /\ pc = "write" /\ idle' = 0 /\ (Lands \/ HoldsBack)
         /\ UNCHANGED <<edited, latched, seen, seed, todo, starts>>
<1>1. pc = "write" /\ idle' = 0 /\ UNCHANGED <<edited, latched, seen, seed, todo, starts>>
  BY Zenon DEF DoWrite
<1>2. CASE MayWrite
  BY <1>2, Zenon DEF DoWrite, Lands, NewWrite
<1>3. CASE ~MayWrite
  BY <1>3, Zenon DEF DoWrite, HoldsBack
<1> QED
  BY <1>1, <1>2, <1>3

(* karpathy's second replacement touches the prompt alone.                 *)
LEMMA SwapEffect ==
  ASSUME Swap
  PROVE  /\ pc = "swap" /\ pc' = "poll" /\ idle' = 0
         /\ files' = [files EXCEPT !.prompt = "queued"]
         /\ writes' = writes \cup {NewWrite("swap")}
         /\ UNCHANGED <<edited, latched, acted, already, seen, seed, todo, starts, attentive>>
<1>1. KA!SwapPrompt(View) = [files EXCEPT !.prompt = "queued"]
  BY ViewFields DEF KA!SwapPrompt
<1>2. /\ pc = "swap" /\ pc' = "poll" /\ idle' = 0
      /\ files' = KA!SwapPrompt(View)
      /\ writes' = writes \cup {NewWrite("swap")}
      /\ UNCHANGED <<edited, latched, acted, already, seen, seed, todo, starts, attentive>>
  BY Zenon DEF Swap, NewWrite, script
<1> QED
  BY <1>1, <1>2

FileInv == ServeTypes /\ Identity /\ Numbered /\ ScriptTypes /\ TodoFits

(* The script's variables and the files stay in their sets.                *)
LEMMA ScriptTypeStep == FileInv /\ [Next]_vars => ScriptTypes' /\ TodoFits'
<1> SUFFICES ASSUME FileInv, [Next]_vars PROVE ScriptTypes' /\ TodoFits'
  OBVIOUS
<1>0. /\ ServeTypes /\ Identity /\ Numbered /\ ScriptTypes /\ TodoFits
      /\ pc \in Places /\ latched \in Nat /\ seed \in Nat /\ seen \in Nat
      /\ files \in Files /\ edited \in BOOLEAN /\ idle \in Nat
      /\ pidfile \in Nat /\ num \in Nat /\ old \in Nat /\ log \in Seq(Happening)
      /\ conf \in Config
  <2>1. ServeTypes /\ Identity /\ Numbered /\ ScriptTypes /\ TodoFits
    BY Zenon DEF FileInv
  <2>2. /\ pc \in Places /\ latched \in Nat /\ seed \in Nat /\ seen \in Nat
        /\ files \in Files /\ edited \in BOOLEAN /\ idle \in Nat
    BY <2>1, Zenon DEF ScriptTypes
  <2>3. /\ recipe \in Recipes /\ conf \in Configs[recipe]
        /\ num \in Nat /\ life \in Nat /\ old \in Nat /\ log \in Seq(Happening)
    BY <2>1, Zenon DEF ServeTypes
  <2>4. pidfile \in Nat
    <3>1. pidfile \in {0, life}
      BY <2>1, Zenon DEF Identity
    <3> QED
      BY <2>3, <3>1
  <2>5. conf \in Config
    BY <2>3, ConfigTypes, Zenon
  <2> QED
    BY <2>1, <2>2, <2>3, <2>4, <2>5, Zenon
<1>a. ASSUME UNCHANGED <<recipe, pc, latched, seed, seen, edited, idle, todo>>, files' \in Files
      PROVE  ScriptTypes' /\ TodoFits'
  BY <1>0, <1>a DEF ScriptTypes, TodoFits, Fits
<1>b. ASSUME pc' \in {"off", "latch", "poll", "done"}, files' \in Files, latched' \in Nat,
             seed' \in Nat, seen' \in Nat, edited' \in BOOLEAN, idle' = 0
      PROVE  ScriptTypes' /\ TodoFits'
  BY <1>b DEF ScriptTypes, TodoFits, Places
<1>1. CASE UNCHANGED vars
  BY <1>0, <1>1, <1>a DEF vars, script
<1>2. CASE ServeStep
  <2>1. ASSUME RoundBegins PROVE files' \in Files
    <3>1. files' = [files EXCEPT !.source = num + 1]
      BY <2>1, Zenon DEF RoundBegins
    <3>2. PICK k \in Nat : k = num + 1
      BY <1>0
    <3>3. files \in Files
      BY <1>0
    <3>4. [files EXCEPT !.source = k] \in Files
      BY <3>3 DEF Files
    <3> QED
      BY <3>1, <3>2, <3>4
  <2>2. files' \in Files
    BY <1>0, <1>2, <2>1, ServeStepEffect
  <2> QED
    BY <1>0, <1>2, <1>a, <2>2, ServeStepEffect
<1>3. CASE EditsConfig
  <2>1. pc = "poll" /\ pc' = pc /\ edited' = TRUE
        /\ UNCHANGED <<recipe, latched, seed, seen, idle, files>>
    BY <1>3, Zenon DEF EditsConfig, script
  <2> QED
    BY <1>0, <2>1 DEF ScriptTypes, TodoFits
<1>4. CASE Queues
  <2>1. files' = [files EXCEPT !.queue = conf.queue]
        /\ UNCHANGED <<recipe, pc, latched, seed, seen, edited, idle, todo>>
    BY <1>4, Zenon DEF Queues, script
  <2>2. conf.queue \in {"good", "bad"}
    BY <1>0 DEF Config
  <2>3. files' \in Files
    BY <1>0, <2>1, <2>2 DEF Files
  <2> QED
    BY <1>a, <2>1, <2>3
<1>5. CASE Start
  <2>1. /\ pc' \in {"done", "latch", "poll"} /\ latched' = 0 /\ seed' = SeedAtStart
        /\ seen' = 0 /\ idle' = 0 /\ edited' = FALSE /\ files' = files
    BY <1>5 DEF Start
  <2> QED
    BY <1>0, <1>b, <2>1, SeedType
<1>6. CASE Latch
  <2>1. /\ pc' = "poll" /\ latched' = pidfile /\ idle' = 0
        /\ UNCHANGED <<files, edited, seed, seen>>
    BY <1>6, Zenon DEF Latch
  <2> QED
    BY <1>0, <1>b, <2>1
<1>7. CASE Finish \/ ScriptDies
  <2>1. /\ pc' \in {"off", "done"} /\ idle' = 0
        /\ UNCHANGED <<files, edited, seed, seen, latched>>
    BY <1>7 DEF Finish, ScriptDies, script
  <2> QED
    BY <1>0, <1>b, <2>1
<1>8. CASE Poll
  <2>1. \/ pc' = "poll"
        \/ Fits' /\ pc' \in {"exam", "write"} /\ (pc' = "exam" => recipe = "rsi_exam")
    BY <1>0, <1>8, PollFits
  <2>2. idle' = 0 /\ UNCHANGED <<recipe, files, edited, seed, latched>>
    BY <1>8, PollEffect, Zenon DEF Polled
  <2>3. seen' \in Nat
    BY <1>0, <1>8, SeenType DEF Poll
  <2> QED
    BY <1>0, <2>1, <2>2, <2>3 DEF ScriptTypes, TodoFits, Places
<1>9. CASE Examined
  <2>1. /\ pc = "exam" /\ pc' \in {"write", "poll"} /\ idle' = 0
        /\ UNCHANGED <<recipe, files, edited, seed, seen, latched, todo>>
    BY <1>9 DEF Examined, script
  <2>2. Fits => Fits'
    BY <2>1 DEF Fits
  <2> QED
    BY <1>0, <2>1, <2>2 DEF ScriptTypes, TodoFits, Places
<1>10. CASE DoWrite
  <2>1. /\ pc = "write" /\ idle' = 0 /\ (Lands \/ HoldsBack)
        /\ UNCHANGED <<recipe, edited, latched, seen, seed, todo>>
    BY <1>10, DoWriteEffect, ScriptStepEffect DEF ScriptStep
  <2>2. Fits
    BY <1>0, <2>1 DEF TodoFits
  <2>3. files' \in Files
    BY <1>0, <2>1, <2>2, WrittenType DEF Lands, HoldsBack
  <2>4. CASE pc' \in {"poll", "done"}
    BY <1>0, <1>b, <2>1, <2>3, <2>4
  <2>5. CASE pc' \notin {"poll", "done"}
    <3>1. pc' = "swap" /\ todo.what = "discard"
      BY <2>1, <2>5 DEF Lands, HoldsBack
    <3>2. recipe = "karpathy"
      BY <2>2, <3>1 DEF Fits
    <3>3. Fits'
      BY <2>1, <2>2 DEF Fits
    <3> QED
      BY <1>0, <2>1, <2>3, <3>1, <3>2, <3>3 DEF ScriptTypes, TodoFits, Places
  <2> QED
    BY <2>4, <2>5
<1>11. CASE Swap
  <2>1. files' \in Files
    BY <1>0, <1>11, SwapEffect DEF Files
  <2> QED
    BY <1>0, <1>11, <1>b, <2>1, SwapEffect
<1>12. CASE Tick
  <2>1. idle' \in Nat /\ UNCHANGED <<recipe, pc, latched, seed, seen, edited, todo, files>>
    BY <1>0, <1>12 DEF Tick, script
  <2> QED
    BY <1>0, <2>1 DEF ScriptTypes, TodoFits, Fits
<1> QED
  BY <1>1, <1>2, <1>3, <1>4, <1>5, <1>6, <1>7, <1>8, <1>9, <1>10, <1>11, <1>12
     DEF Next, ServeStep

----------------------------------------------------------------------------
(* One write. *)

Marking == {"spend_ceiling", "tool_allow", "repeat_fail", "ralph"}
Marked == IF recipe = "tool_allow" THEN files.extra > 0 ELSE files.stop

MarkedOnce ==
    recipe \in Marking =>
        /\ pc = "write" => ~Marked
        /\ writes = {} \/ (Marked /\ \E w : writes = {w})

(* A recipe that leaves a mark decides on a write only without one.        *)
LEMMA PollUnmarked ==
  ASSUME FileInv, Poll, recipe \in Marking
  PROVE  pc' = "poll" \/ ~Marked
<1>0. ServeTypes /\ Identity /\ Numbered
  BY DEF FileInv
<1>a. ~Finished
  BY DEF Poll
<1>1. CASE recipe = "spend_ceiling"
  <2>1. ~SC!Finished(View)
    BY <1>a, <1>1 DEF Finished
  <2>2. pc' = "poll" \/ \E n \in Pending : SC!StopDecision(n, View)
    BY <1>0, <1>1, SpendPass
  <2>3. pc' = "poll" \/ ~files.stop
    BY <1>0, <1>1, <2>1, <2>2, SpendDecision
  <2> QED
    BY <1>1, <2>3 DEF Marked
<1>2. CASE recipe = "tool_allow"
  BY <1>0, <1>2, ToolPoll DEF Marked
<1>3. CASE recipe = "repeat_fail"
  <2>1. ~RF!Finished(View)
    BY <1>a, <1>3 DEF Finished
  <2>2. pc' = "poll" \/ (2 \in FailNew /\ RF!StopDecision(View))
    <3>1. CASE 2 \in FailNew /\ RF!StopDecision(View) /\ ~edited
      BY <3>1
    <3>2. CASE ~(2 \in FailNew /\ RF!StopDecision(View) /\ ~edited)
      <4>1. IF 2 \in FailNew /\ RF!StopDecision(View) /\ ~edited
            THEN todo' = Write("stop", 2) /\ pc' = "write"
            ELSE todo' = Nothing /\ pc' = "poll"
        BY <1>3, FailPass
      <4> QED
        BY <3>2, <4>1, Zenon
    <3> QED
      BY <3>1, <3>2
  <2>3. pc' = "poll" \/ ~files.stop
    BY <1>0, <1>3, <2>1, <2>2, FailDecision
  <2> QED
    BY <1>3, <2>3 DEF Marked
<1>4. CASE recipe = "ralph"
  <2>1. pc' = "poll" \/ \E n : n \in RalphDue
    BY <1>4, RalphPass
  <2>2. pc' = "poll" \/ ~files.stop
    BY <2>1, RalphDecision
  <2> QED
    BY <1>4, <2>2 DEF Marked
<1> QED
  BY <1>1, <1>2, <1>3, <1>4 DEF Marking

(* Its first write leaves the mark, and no step removes it.                *)
LEMMA MarkedOnceStep == FileInv /\ MarkedOnce /\ [Next]_vars => MarkedOnce'
<1> SUFFICES ASSUME FileInv, MarkedOnce, [Next]_vars, recipe' \in Marking PROVE MarkedOnce'
  BY DEF MarkedOnce
<1>0. ServeTypes /\ files \in Files /\ TodoFits
  BY DEF FileInv, ScriptTypes
<1>a. recipe' = recipe
  <2>1. CASE ServeStep
    BY <1>0, <2>1, ServeStepEffect
  <2>2. CASE ScriptStep
    BY <2>2, ScriptStepEffect
  <2> QED
    BY <2>1, <2>2 DEF Next, ServeStep, ScriptStep, Tick, vars
<1>b. recipe \in Marking
  BY <1>a
<1>c. /\ pc = "write" => ~Marked
      /\ writes = {} \/ (Marked /\ \E w : writes = {w})
  BY <1>b DEF MarkedOnce
<1>d. ASSUME pc' = "write" => pc = "write", writes' = writes, Marked' <=> Marked PROVE MarkedOnce'
  BY <1>c, <1>d DEF MarkedOnce
<1>e. ASSUME files' = files PROVE Marked' <=> Marked
  BY <1>a, <1>e DEF Marked
<1>1. CASE UNCHANGED vars
  BY <1>1, <1>d, <1>e DEF vars
<1>2. CASE ServeStep
  <2>1. ASSUME RoundBegins PROVE Marked' <=> Marked
    <3>1. files' = [files EXCEPT !.source = num + 1]
      BY <2>1, Zenon DEF RoundBegins
    <3>2. files'.stop = files.stop /\ files'.extra = files.extra
      BY <1>0, <3>1 DEF Files
    <3> QED
      BY <1>a, <3>2 DEF Marked
  <2> QED
    BY <1>0, <1>2, <1>d, <1>e, <2>1, ServeStepEffect
<1>3. CASE EditsConfig \/ Start \/ Latch \/ Finish \/ ScriptDies \/ Tick
  <2>1. (pc' = "write" => pc = "write") /\ writes' = writes /\ files' = files
    BY <1>3 DEF EditsConfig, Start, Latch, Finish, ScriptDies, Tick
  <2> QED
    BY <1>d, <1>e, <2>1
<1>4. CASE Queues
  BY <1>4, <1>b DEF Queues, Marking
<1>5. CASE Poll
  <2>1. pc' = "poll" \/ ~Marked
    BY <1>5, <1>b, PollUnmarked
  <2>2. writes' = writes /\ files' = files
    BY <1>5, PollEffect, Zenon DEF Polled
  <2> QED
    BY <1>c, <1>e, <2>1, <2>2 DEF MarkedOnce
<1>6. CASE Examined
  BY <1>6, <1>0, <1>b DEF Examined, TodoFits, Marking
<1>7. CASE DoWrite
  <2>1. pc = "write" /\ (Lands \/ HoldsBack)
    BY <1>7, DoWriteEffect
  <2>2. CASE HoldsBack
    <3>1. pc' # "write" /\ writes' = writes /\ files' = files
      BY <2>2 DEF HoldsBack
    <3> QED
      BY <1>d, <1>e, <3>1
  <2>3. CASE Lands
    <3>1. writes = {}
      BY <1>c, <2>1
    <3>2. writes' = {NewWrite(todo.what)} /\ pc' # "write" /\ files' = Written
      BY <2>3, <3>1 DEF Lands
    <3>3. Marked'
      <4>1. CASE recipe = "tool_allow"
        <5>1. files'.extra = files.extra + 1 /\ files.extra \in Nat
          BY <1>0, <3>2, <4>1, WrittenTool DEF Files
        <5> QED
          BY <1>a, <4>1, <5>1 DEF Marked
      <4>2. CASE recipe # "tool_allow"
        <5>1. files'.stop
          BY <1>0, <1>b, <3>2, <4>2, WrittenStop DEF Files, Marking
        <5> QED
          BY <1>a, <4>2, <5>1 DEF Marked
      <4> QED
        BY <4>1, <4>2
    <3> QED
      BY <3>2, <3>3 DEF MarkedOnce
  <2> QED
    BY <2>1, <2>2, <2>3
<1>8. CASE Swap
  BY <1>8, <1>0, <1>b DEF Swap, TodoFits, Marking
<1> QED
  BY <1>1, <1>2, <1>3, <1>4, <1>5, <1>6, <1>7, <1>8 DEF Next, ServeStep

(* No write, or a single one.                                              *)
LEMMA MarkedOnceShows == MarkedOnce => OnceAcrossRestarts
<1>1. ASSUME writes = {} PROVE Cardinality(writes) <= 1
  BY <1>1, FS_EmptySet
<1>2. ASSUME NEW w, writes = {w} PROVE Cardinality(writes) <= 1
  BY <1>2, FS_Singleton
<1> QED
  BY <1>1, <1>2 DEF MarkedOnce, OnceAcrossRestarts, Marking

----------------------------------------------------------------------------
(* The gap. *)

Refused == recipe \in {"spend_ceiling", "tool_allow"} /\ conf.delay # DELAY_S
Windowed == recipe \in Guarded /\ conf.delay = DELAY_S

(* The round about to be written after is the newest one, its serve is in the *)
(* gap, and the window closed no longer ago than the script has been idle.    *)
Aimed(n) ==
    /\ n \in 1..num
    /\ (ran_by[n] = latched /\ life = latched /\ phase # "down")
          => num = n /\ phase \in {"hooks", "gap"} /\ since <= WRITE_BEFORE_S + idle

GapInv ==
    /\ latched <= life
    /\ pc \in {"poll", "exam", "write", "swap"} => idle <= Lag
    /\ phase = "gap" => rest <= since
    /\ Refused => pc \in {"off", "done"} /\ writes = {}
    /\ Windowed /\ pc = "write" => Aimed(todo.n)

(* Another restart_delay_s is refused by the two that check the file.      *)
LEMMA RefusedAtStart ==
  ASSUME Refused
  PROVE  Refuses
<1>1. PICK v : v = View
  OBVIOUS
<1>2. v.conf = conf
  BY <1>1, ViewFields
<1>3. CASE recipe = "spend_ceiling"
  <2>1. SC!Refuses(v)
    BY <1>2 DEF SC!Refuses, SC!TomlErrors, Refused
  <2> QED
    BY <1>1, <1>3, <2>1 DEF Refuses
<1>4. CASE recipe = "tool_allow"
  <2>1. TA!Refuses(v)
    BY <1>2 DEF TA!Refuses, TA!TomlErrors, Refused
  <2> QED
    BY <1>1, <1>4, <2>1 DEF Refuses
<1> QED
  BY <1>3, <1>4 DEF Refused

(* A guarded recipe decides only on what GapSees describes.                *)
LEMMA PollSees ==
  ASSUME FileInv, Poll, recipe \in Guarded
  PROVE  pc' = "poll" \/ GapSees(todo'.n)
<1>0. ServeTypes /\ Identity /\ Numbered
  BY DEF FileInv
<1>a. ~Finished
  BY DEF Poll
<1>b. PICK t : t = todo'
  OBVIOUS
<1>1. CASE recipe = "spend_ceiling"
  <2>1. ~SC!Finished(View)
    BY <1>a, <1>1 DEF Finished
  <2>2. pc' = "poll" \/ \E n \in Pending : SC!StopDecision(n, View) /\ t = Write("stop", n)
    BY <1>0, <1>1, <1>b, SpendPass
  <2>3. pc' = "poll" \/ \E n : GapSees(n) /\ t = Write("stop", n)
    BY <1>0, <1>1, <2>1, <2>2, SpendDecision
  <2> QED
    BY <1>b, <2>3, WriteParts
<1>2. CASE recipe = "tool_allow"
  <2>1. pc' = "poll" \/ \E n : GapSees(n) /\ t = Write("append", n)
    BY <1>0, <1>2, <1>b, ToolPoll
  <2> QED
    BY <1>b, <2>1, WriteParts
<1>3. CASE recipe = "repeat_fail"
  <2>1. ~RF!Finished(View)
    BY <1>a, <1>3 DEF Finished
  <2>2. pc' = "poll" \/ (2 \in FailNew /\ RF!StopDecision(View) /\ \E n : n = 2 /\ t = Write("stop", n))
    BY <1>3, <1>b, FailPass
  <2>3. pc' = "poll" \/ \E n : GapSees(n) /\ t = Write("stop", n)
    BY <1>0, <1>3, <2>1, <2>2, FailDecision
  <2> QED
    BY <1>b, <2>3, WriteParts
<1>4. CASE recipe = "serial_discard"
  <2>1. pc' = "poll" \/ \E n : GapSees(n) /\ t = Write("no_merge", n)
    BY <1>0, <1>4, <1>b, DiscardPoll
  <2> QED
    BY <1>b, <2>1, WriteParts
<1> QED
  BY <1>1, <1>2, <1>3, <1>4 DEF Guarded

(* What a guarded recipe has seen puts it in the gap of the newest round.     *)
LEMMA SeenIsAimed ==
  ASSUME ServeTypes, Identity, Numbered, NEW n, GapSees(n)
  PROVE  /\ n \in 1..num /\ since <= WRITE_BEFORE_S
         /\ ran_by[n] = latched => num = n /\ phase \in {"hooks", "gap"}
<1>1. n \in 1..num /\ n + 1 \notin 1..num
  BY DEF GapSees, Numbered
<1>2. num \in Nat /\ phase \in Phases
  BY DEF ServeTypes
<1>3. n = num
  BY <1>1, <1>2
<1>4. phase \notin {"round", "checked", "down"}
  BY <1>3 DEF GapSees, Numbered
<1>5. phase = "top" => ran_by[n] # latched
  <2>1. phase = "top" => ran_by[n] < life
    BY <1>1 DEF Identity
  <2>2. latched = life /\ life \in Nat
    BY DEF GapSees, ServeTypes
  <2> QED
    BY <2>1, <2>2
<1> QED
  BY <1>1, <1>2, <1>3, <1>4, <1>5 DEF Phases, GapSees

(* A write stays aimed at the gap: the delay is longer than the window and  *)
(* the script's next step.                                                  *)
LEMMA GapInvStep ==
  ASSUME WRITE_BEFORE_S + Lag < DELAY_S
  PROVE  FileInv /\ GapInv /\ [Next]_vars => GapInv'
<1> SUFFICES ASSUME FileInv, GapInv, [Next]_vars PROVE GapInv'
  OBVIOUS
<1>0. /\ ServeTypes /\ Identity /\ Numbered /\ TodoFits /\ phase \in Phases
      /\ pc \in Places /\ latched \in Nat /\ idle \in Nat /\ life \in Nat /\ num \in Nat
      /\ since \in Nat /\ rest \in Nat /\ pidfile <= life /\ pidfile \in Nat
      /\ WRITE_BEFORE_S \in Nat /\ DELAY_S \in Nat /\ Lag \in Nat
  BY GapAssumption, OuterLoopAssumption DEF FileInv, ScriptTypes, ServeTypes, Identity
<1>a. /\ latched <= life
      /\ pc \in {"poll", "exam", "write", "swap"} => idle <= Lag
      /\ phase = "gap" => rest <= since
      /\ Refused => pc \in {"off", "done"} /\ writes = {}
      /\ Windowed /\ pc = "write" => Aimed(todo.n)
  BY DEF GapInv
<1>b. ASSUME UNCHANGED <<recipe, conf>> PROVE (Refused' <=> Refused) /\ (Windowed' <=> Windowed)
  BY <1>b DEF Refused, Windowed
<1>1. CASE UNCHANGED vars
  BY <1>1, <1>a DEF vars, serve, record, script, GapInv, Refused, Windowed, Aimed
<1>2. CASE ServeStep
  <2>1. UNCHANGED <<recipe, conf, pc, latched, todo, idle, writes>>
    BY <1>0, <1>2, ServeStepEffect
  <2>2. life <= life' /\ life' \in Nat
    <3>1. CASE ServeStart
      BY <1>0, <3>1 DEF ServeStart
    <3>2. CASE ~ServeStart
      <4>1. life' = life
        BY <1>0, <1>2, <3>2, ServeTopEffect, GoalCheckEffect, HooksEndEffect, GivesUpEffect
           DEF ServeStep, RoundBegins, ServeEnds, RoundChecked, UsageRecorded, RoundEnd,
               ServeCrash, PidReused, MonthTurns, serve
      <4> QED
        BY <1>0, <4>1
    <3> QED
      BY <3>1, <3>2
  <2>3. phase' = "gap" => rest' <= since'
    <3>1. CASE HooksEnd
      BY <1>0, <3>1, HooksEndEffect DEF UsageRecorded
    <3>2. CASE ~HooksEnd
      <4>1. phase' = "gap" => phase = "gap" /\ UNCHANGED <<rest, since>>
        BY <1>0, <1>2, <3>2, ServeTopEffect, GoalCheckEffect, GivesUpEffect
           DEF ServeStep, ServeStart, RoundBegins, ServeEnds, RoundChecked, RoundEnd,
               ServeCrash, PidReused, MonthTurns, serve, record
      <4> QED
        BY <1>a, <4>1
    <3> QED
      BY <3>1, <3>2
  <2>4. ASSUME Windowed, pc = "write" PROVE Aimed(todo.n)'
    <3>1. PICK n : n = todo.n
      OBVIOUS
    <3>2. /\ n \in 1..num
          /\ (ran_by[n] = latched /\ life = latched /\ phase # "down")
               => num = n /\ phase \in {"hooks", "gap"} /\ since <= WRITE_BEFORE_S + idle
      BY <1>a, <2>4, <3>1 DEF Aimed
    <3>3. idle <= Lag /\ conf.delay = DELAY_S
      BY <1>a, <2>4 DEF Windowed
    <3>4. CASE ServeStart
      BY <1>0, <1>a, <2>1, <3>1, <3>2, <3>4 DEF ServeStart, Aimed
    <3>5. CASE RoundBegins
      <4>1. /\ phase \in {"top", "gap"} /\ num' = num + 1 /\ life' = life
            /\ phase = "gap" => rest >= conf.delay
            /\ ran_by' = Append(ran_by, life)
        BY <3>5 DEF RoundBegins
      <4>2. ran_by'[n] = ran_by[n]
        <5>1. Len(ran_by) = num /\ ran_by \in Seq(Nat) /\ life \in Nat
          BY <1>0 DEF ServeTypes
        <5>2. \A i \in 1..Len(ran_by) : Append(ran_by, life)[i] = ran_by[i]
          BY <5>1, AppendTypes
        <5> QED
          BY <3>2, <4>1, <5>1, <5>2
      <4>3. ~(ran_by[n] = latched /\ life = latched)
        <5>1. CASE phase = "top"
          <6>1. ran_by[n] < life
            BY <1>0, <3>2, <5>1 DEF Identity
          <6> QED
            BY <1>0, <6>1
        <5>2. CASE phase = "gap"
          BY <1>0, <1>a, <3>2, <3>3, <4>1, <5>2
        <5> QED
          BY <4>1, <5>1, <5>2
      <4> QED
        BY <1>0, <2>1, <3>1, <3>2, <4>1, <4>2, <4>3 DEF Aimed
    <3>6. CASE RoundEnd
      BY <2>1, <3>1, <3>2, <3>6 DEF RoundEnd, Aimed
    <3>7. CASE RoundChecked
      <4>1. phase = "round" /\ UNCHANGED <<life, num, ran_by>>
        BY <3>7 DEF RoundChecked
      <4> QED
        BY <2>1, <3>1, <3>2, <4>1 DEF Aimed
    <3>8. CASE UsageRecorded
      <4>1. phase' = "gap" /\ phase = "hooks" /\ UNCHANGED <<life, num, ran_by, since>>
        BY <3>8 DEF UsageRecorded
      <4> QED
        BY <2>1, <3>1, <3>2, <4>1 DEF Aimed
    <3>9. CASE ServeEnds("finished") \/ ServeEnds("give_up") \/ ServeCrash
      <4>1. phase' = "down" /\ UNCHANGED <<life, num, ran_by>>
        BY <3>9 DEF ServeEnds, ServeCrash
      <4> QED
        BY <2>1, <3>1, <3>2, <4>1 DEF Aimed
    <3>10. CASE PidReused \/ MonthTurns
      BY <2>1, <3>1, <3>2, <3>10 DEF PidReused, MonthTurns, serve, record, Aimed
    <3> QED
      BY <1>0, <1>2, <3>4, <3>5, <3>6, <3>7, <3>8, <3>9, <3>10, ServeTopEffect, GoalCheckEffect,
         HooksEndEffect, GivesUpEffect DEF ServeStep
  <2> QED
    BY <1>0, <1>a, <1>b, <2>1, <2>2, <2>3, <2>4 DEF GapInv
<1>c. ASSUME UNCHANGED <<recipe, conf, phase, life, num, rest, since, ran_by>>, latched' <= life,
             idle' = 0 \/ (idle' = idle /\ (Busy' => Busy)),
             Refused => pc' \in {"off", "done"} /\ writes' = {},
             Windowed /\ pc' = "write" => Aimed(todo.n)'
      PROVE  GapInv'
  BY <1>0, <1>a, <1>b, <1>c DEF GapInv, Busy
<1>3. CASE EditsConfig \/ Queues
  <2>1. UNCHANGED <<pc, latched, todo, idle, writes>>
    BY <1>3, Zenon DEF EditsConfig, Queues, script
  <2>2. UNCHANGED <<recipe, conf, phase, life, num, rest, since, ran_by>>
    BY <1>3, ScriptStepEffect DEF ScriptStep
  <2> QED
    BY <1>a, <2>1, <2>2 DEF GapInv, Refused, Windowed, Aimed
<1>4. CASE Start
  <2>1. /\ pc = "off" /\ latched' = 0 /\ idle' = 0 /\ writes' = writes
        /\ pc' = IF Refuses THEN "done" ELSE IF Latches THEN "latch" ELSE "poll"
    BY <1>4 DEF Start
  <2>2. UNCHANGED <<recipe, conf, phase, life, num, rest, since, ran_by>>
    BY <1>4, ScriptStepEffect DEF ScriptStep
  <2> QED
    BY <1>0, <1>a, <1>c, <2>1, <2>2, RefusedAtStart
<1>5. CASE Latch
  <2>1. pc = "latch" /\ pc' = "poll" /\ latched' = pidfile /\ idle' = 0
    BY <1>5 DEF Latch
  <2>2. UNCHANGED <<recipe, conf, phase, life, num, rest, since, ran_by>>
    BY <1>5, ScriptStepEffect DEF ScriptStep
  <2> QED
    BY <1>0, <1>a, <1>c, <2>1, <2>2
<1>6. CASE Finish \/ ScriptDies
  <2>1. pc' \in {"done", "off"} /\ idle' = 0 /\ UNCHANGED <<latched, writes>>
    BY <1>6 DEF Finish, ScriptDies, script
  <2>2. UNCHANGED <<recipe, conf, phase, life, num, rest, since, ran_by>>
    BY <1>6, ScriptStepEffect DEF ScriptStep
  <2> QED
    BY <1>0, <1>a, <1>c, <2>1, <2>2
<1>7. CASE Poll
  <2>1. pc = "poll" /\ idle' = 0 /\ UNCHANGED <<latched, writes>>
    BY <1>7, PollEffect, Zenon DEF Polled
  <2>2. UNCHANGED <<recipe, conf, phase, life, num, rest, since, ran_by>>
    BY <1>7, ScriptStepEffect DEF ScriptStep
  <2>3. ASSUME Windowed, pc' = "write" PROVE Aimed(todo.n)'
    <3>1. PICK n : n = todo'.n
      OBVIOUS
    <3>2. GapSees(n)
      BY <1>7, <2>3, <3>1, PollSees DEF Windowed
    <3>3. /\ n \in 1..num /\ since <= WRITE_BEFORE_S
          /\ ran_by[n] = latched => num = n /\ phase \in {"hooks", "gap"}
      BY <1>0, <3>2, SeenIsAimed
    <3> QED
      BY <1>0, <2>1, <2>2, <3>1, <3>3 DEF Aimed
  <2> QED
    BY <1>0, <1>a, <1>c, <2>1, <2>2, <2>3
<1>8. CASE Examined
  <2>1. pc = "exam" /\ idle' = 0 /\ UNCHANGED <<latched, writes>>
    BY <1>8 DEF Examined, script
  <2>2. UNCHANGED <<recipe, conf, phase, life, num, rest, since, ran_by>>
    BY <1>8, ScriptStepEffect DEF ScriptStep
  <2>3. recipe = "rsi_exam"
    BY <1>0, <2>1 DEF TodoFits
  <2> QED
    BY <1>0, <1>a, <1>c, <2>1, <2>2, <2>3 DEF Refused, Windowed, Guarded
<1>9. CASE DoWrite
  <2>1. pc = "write" /\ idle' = 0 /\ (Lands \/ HoldsBack) /\ UNCHANGED latched
    BY <1>9, DoWriteEffect
  <2>2. UNCHANGED <<recipe, conf, phase, life, num, rest, since, ran_by>>
    BY <1>9, ScriptStepEffect DEF ScriptStep
  <2>3. pc' # "write"
    BY <2>1 DEF Lands, HoldsBack
  <2> QED
    BY <1>0, <1>a, <1>c, <2>1, <2>2, <2>3
<1>10. CASE Swap
  <2>1. pc = "swap" /\ pc' = "poll" /\ idle' = 0 /\ UNCHANGED latched
    BY <1>10, SwapEffect
  <2>2. UNCHANGED <<recipe, conf, phase, life, num, rest, since, ran_by>>
    BY <1>10, ScriptStepEffect DEF ScriptStep
  <2> QED
    BY <1>0, <1>a, <1>c, <2>1, <2>2
<1>11. CASE Tick
  <2>1. /\ UNCHANGED <<recipe, conf, phase, life, num, ran_by, pc, latched, todo, writes>>
        /\ since' = IF since > DELAY_S THEN since ELSE since + 1
        /\ rest' = IF phase = "gap" /\ rest < DELAY_S THEN rest + 1 ELSE rest
        /\ idle' = IF Busy THEN idle + 1 ELSE 0
        /\ Busy => idle < Lag
    BY <1>11, Zenon DEF Tick, script
  <2>2. phase' = "gap" => rest' <= since'
    BY <1>0, <1>a, <2>1
  <2>3. pc' \in {"poll", "exam", "write", "swap"} => idle' <= Lag
    BY <1>0, <1>a, <2>1 DEF Busy
  <2>4. Windowed /\ pc = "write" => Aimed(todo.n)'
    BY <1>0, <1>a, <2>1 DEF Aimed, Busy
  <2> QED
    BY <1>a, <1>b, <2>1, <2>2, <2>3, <2>4 DEF GapInv
<1> QED
  BY <1>1, <1>2, <1>3, <1>4, <1>5, <1>6, <1>7, <1>8, <1>9, <1>10, <1>11 DEF Next, ServeStep

(* Only DoWrite and Swap write.                                            *)
LEMMA WritesEffect ==
  ASSUME FileInv, [Next]_vars
  PROVE  \/ writes' = writes
         \/ DoWrite /\ Lands /\ pc = "write" /\ writes' = writes \cup {NewWrite(todo.what)}
         \/ Swap /\ pc = "swap" /\ writes' = writes \cup {NewWrite("swap")}
<1>1. CASE UNCHANGED vars
  BY <1>1 DEF vars
<1>2. CASE ServeStep
  <2>1. writes' = writes
    BY <1>2, ServeStepEffect DEF FileInv
  <2> QED
    BY <2>1
<1>3. CASE EditsConfig \/ Queues \/ Start \/ Latch \/ Finish \/ Examined \/ ScriptDies \/ Tick
  <2>1. writes' = writes
    BY <1>3, Zenon DEF EditsConfig, Queues, Start, Latch, Finish, Examined, ScriptDies, Tick
  <2> QED
    BY <2>1
<1>4. CASE Poll
  <2>1. writes' = writes
    BY <1>4, PollEffect, Zenon DEF Polled
  <2> QED
    BY <2>1
<1>5. CASE DoWrite
  <2>1. CASE Lands
    BY <1>5, <2>1, DoWriteEffect, Zenon DEF Lands
  <2>2. CASE HoldsBack
    BY <2>2, Zenon DEF HoldsBack
  <2> QED
    BY <1>5, <2>1, <2>2, DoWriteEffect, Zenon
<1>6. CASE Swap
  BY <1>6, SwapEffect, Zenon
<1> QED
  BY <1>1, <1>2, <1>3, <1>4, <1>5, <1>6 DEF Next, ServeStep

(* The recipe and its configuration stay.                                  *)
LEMMA ConfEffect ==
  ASSUME FileInv, [Next]_vars
  PROVE  UNCHANGED <<recipe, conf>>
<1>1. CASE ServeStep
  <2>1. ServeTypes
    BY DEF FileInv
  <2> QED
    BY <1>1, <2>1, ServeStepEffect
<1>2. CASE ScriptStep
  BY <1>2, ScriptStepEffect
<1>3. CASE Tick \/ UNCHANGED vars
  BY <1>3 DEF Tick, vars
<1> QED
  BY <1>1, <1>2, <1>3 DEF Next, ServeStep, ScriptStep

(* The parts of a recorded write.                                          *)
LEMMA WriteRecord ==
  ASSUME NEW what, NEW w, w = NewWrite(what)
  PROVE  /\ w.what = what /\ w.n = todo.n /\ w.where = Where(todo.n)
         /\ w.own <=> ran_by[todo.n] = latched
<1>1. NewWrite(what).what = what /\ NewWrite(what).n = todo.n
      /\ NewWrite(what).where = Where(todo.n)
  BY DEF NewWrite
<1>2. NewWrite(what).own = (ran_by[todo.n] = latched)
  BY Zenon DEF NewWrite
<1>3. w.own = (ran_by[todo.n] = latched)
  BY <1>2, Zenon
<1> QED
  BY <1>1, <1>3, Zenon

(* A write as Aimed allows it.                                              *)
LEMMA AimedWrite ==
  ASSUME recipe \in Guarded, NEW n, Aimed(n), ran_by[n] = latched
  PROVE  Where(n) # "round"
<1>1. CASE life = latched /\ phase # "down"
  <2>1. num = n /\ phase \in {"hooks", "gap"}
    BY <1>1 DEF Aimed
  <2>2. ~(phase = "down" \/ (Latches /\ life # latched))
    BY <1>1
  <2>3. Where(n) = "gap"
    BY <2>1, <2>2, <1>1 DEF Where
  <2> QED
    BY <2>3
<1>2. CASE ~(life = latched /\ phase # "down")
  <2>1. Latches
    BY DEF Latches, Guarded
  <2>2. phase = "down" \/ (Latches /\ life # latched)
    BY <1>2, <2>1
  <2>3. Where(n) = "gone"
    BY <2>2, <2>1 DEF Where
  <2> QED
    BY <2>3
<1> QED
  BY <1>1, <1>2

(* The write that lands is the aimed one.                                  *)
LEMMA WritesInGapStep ==
  ASSUME WRITE_BEFORE_S + Lag < DELAY_S
  PROVE  FileInv /\ GapInv /\ WritesInGap /\ [Next]_vars => WritesInGap'
<1> SUFFICES ASSUME FileInv, GapInv, WritesInGap, [Next]_vars,
                    recipe' \in Guarded,
                    recipe' \in {"spend_ceiling", "tool_allow"} \/ conf'.delay = DELAY_S,
                    NEW w \in writes', w.own
             PROVE  w.where # "round"
  BY DEF WritesInGap
<1>1. recipe' = recipe /\ conf' = conf
  BY ConfEffect
<1>2. CASE w \in writes
  BY <1>1, <1>2 DEF WritesInGap
<1>3. CASE w \notin writes
  <2>1. DoWrite \/ Swap
    BY <1>3, WritesEffect
  <2>2. ~Refused
    <3>1. pc \in {"write", "swap"}
      BY <2>1 DEF DoWrite, Swap
    <3> QED
      BY <3>1 DEF GapInv
  <2>3. Windowed
    BY <1>1, <2>2 DEF Windowed, Refused
  <2>4. ~Swap
    <3>1. pc = "swap" => recipe = "karpathy"
      BY DEF FileInv, TodoFits
    <3> QED
      BY <1>1, <3>1 DEF Swap, Guarded
  <2>5. pc = "write" /\ w = NewWrite(todo.what)
    BY <1>3, <2>4, WritesEffect
  <2>6. Aimed(todo.n)
    BY <2>3, <2>5 DEF GapInv
  <2>7. w.where = Where(todo.n) /\ (w.own <=> ran_by[todo.n] = latched)
    BY <2>5, WriteRecord
  <2>8. ran_by[todo.n] = latched
    BY <2>7
  <2>9. Where(todo.n) # "round"
    BY <1>1, <2>6, <2>8, AimedWrite
  <2> QED
    BY <2>7, <2>9
<1> QED
  BY <1>2, <1>3

(* Before the first serve.                                                 *)
LEMMA InitServe ==
  ASSUME Init
  PROVE  ServeTypes /\ Identity /\ Numbered
<1>1. PICK S : S = Happening
  OBVIOUS
<1>2. <<>> \in Seq(S)
  OBVIOUS
<1>3. log \in Seq(Happening)
  BY <1>1, <1>2 DEF Init
<1>4. results \in Seq(Result) /\ Len(results) = 0
  BY DEF Init
<1>5. ran_by \in Seq(Nat) /\ Len(ran_by) = 0
  BY DEF Init
<1>6. ServeTypes
  BY <1>3, <1>4, <1>5, GapAssumption DEF Init, ServeTypes, Phases
<1>7. Identity
  BY DEF Init, Identity
<1>8. Numbered
  <2>1. PICK t : t = log
    OBVIOUS
  <2>2. Numbers(t, "round_start") = {} /\ Numbers(t, "round_end") = {}
    BY <2>1, EmptyNumbers DEF Init
  <2>3. 1..0 = {}
    OBVIOUS
  <2> QED
    BY <2>1, <2>2, <2>3 DEF Init, Numbered
<1> QED
  BY <1>6, <1>7, <1>8

(* Before the first script.                                                *)
LEMMA InitFiles ==
  ASSUME Init
  PROVE  FileInv /\ GapInv /\ MarkedOnce /\ WritesInGap
<1>1. conf.queue \in {"good", "bad"}
  BY ConfigTypes DEF Init, Config
<1>2. files \in Files
  BY <1>1 DEF Init, Files
<1>3. ScriptTypes /\ TodoFits
  BY <1>2 DEF Init, ScriptTypes, TodoFits, Places
<1>4. GapInv
  BY DEF Init, GapInv
<1>5. MarkedOnce /\ WritesInGap
  BY DEF Init, MarkedOnce, WritesInGap
<1> QED
  BY <1>3, <1>4, <1>5, InitServe DEF FileInv

(* The invariant the others rest on is inductive.                          *)
LEMMA FileInvStep == FileInv /\ [Next]_vars => FileInv'
BY ServeTypeStep, IdentityStep, NumberedStep, ScriptTypeStep DEF FileInv

(* Every variable of serve and of the script keeps its type.               *)
THEOREM TypesHold == Spec => [](ServeTypes /\ ScriptTypes)
<1>1. Init => FileInv
  BY InitFiles
<1>2. FileInv => ServeTypes /\ ScriptTypes
  BY DEF FileInv
<1> QED
  BY <1>1, <1>2, FileInvStep, PTL DEF Spec

(* spend_ceiling, tool_allow, repeat_fail and ralph write at most once,     *)
(* over every restart of serve or of the script.                            *)
THEOREM WritesOnce == Spec => []OnceAcrossRestarts
<1>1. Init => FileInv /\ MarkedOnce
  BY InitFiles
<1> QED
  BY <1>1, FileInvStep, MarkedOnceStep, MarkedOnceShows, PTL DEF Spec

(* A guarded script never writes into a round of the serve it watches, when *)
(* the script's step and the window fit in the delay.                       *)
THEOREM WritesStayInGap ==
  ASSUME WRITE_BEFORE_S + Lag < DELAY_S
  PROVE  Spec => []WritesInGap
<1>1. Init => FileInv /\ GapInv /\ WritesInGap
  BY InitFiles
<1>2. FileInv /\ GapInv /\ WritesInGap /\ [Next]_vars
        => FileInv' /\ GapInv' /\ WritesInGap'
  BY FileInvStep, GapInvStep, WritesInGapStep
<1> QED
  BY <1>1, <1>2, PTL DEF Spec

----------------------------------------------------------------------------
(* What the checks in the log say is what the rounds left. *)

Agree(s, r, m, open) ==
    \A i \in DOMAIN s : s[i].ev = "goal_check" =>
        /\ s[i].n \in 1..m /\ (open => s[i].n # m) /\ s[i].check # "none"
        /\ s[i].check = r[s[i].n].check /\ s[i].value = r[s[i].n].value

LogAgrees == Agree(log, results, num, phase = "round")

(* An event that is not a goal_check changes nothing for the checks.       *)
LEMMA AgreeOther ==
  ASSUME NEW s, NEW t, NEW ev, NEW n, NEW o, Longer(s, t, ev, n, o), ev # "goal_check",
         NEW r, NEW m, NEW open, Agree(s, r, m, open)
  PROVE  Agree(t, r, m, open)
<1>1. \A i : i \in DOMAIN t <=> i \in DOMAIN s \/ i = Len(s) + 1
  BY DEF Longer
<1>2. (\A i \in DOMAIN s : t[i] = s[i]) /\ t[Len(s) + 1].ev = ev
  BY DEF Longer
<1> QED
  BY <1>1, <1>2, Zenon DEF Agree

(* The goal_check of the newest round says what the round leaves.          *)
LEMMA AgreeCheck ==
  ASSUME NEW s, NEW t, NEW m \in Nat, NEW o, Longer(s, t, "goal_check", m, o), m > 0,
         o.check # "none", NEW r, NEW q, Agree(s, r, m, TRUE),
         q[m].check = o.check, q[m].value = o.value, \A k \in 1..m : k # m => q[k] = r[k]
  PROVE  Agree(t, q, m, FALSE)
<1>1. \A i : i \in DOMAIN t <=> i \in DOMAIN s \/ i = Len(s) + 1
  BY DEF Longer
<1>2. /\ \A i \in DOMAIN s : t[i] = s[i]
      /\ t[Len(s) + 1].n = m /\ t[Len(s) + 1].check = o.check /\ t[Len(s) + 1].value = o.value
  BY DEF Longer
<1>3. m \in 1..m
  OBVIOUS
<1>4. ASSUME NEW i \in DOMAIN t, t[i].ev = "goal_check"
      PROVE  /\ t[i].n \in 1..m /\ t[i].check # "none"
             /\ t[i].check = q[t[i].n].check /\ t[i].value = q[t[i].n].value
  <2>1. CASE i \in DOMAIN s
    <3>1. PICK e : e = t[i]
      OBVIOUS
    <3>2. /\ e.n \in 1..m /\ e.n # m /\ e.check # "none"
          /\ e.check = r[e.n].check /\ e.value = r[e.n].value
      BY <1>2, <1>4, <2>1, <3>1 DEF Agree
    <3> QED
      BY <3>1, <3>2
  <2>2. CASE i = Len(s) + 1
    BY <1>2, <1>3, <2>2
  <2> QED
    BY <1>1, <1>4, <2>1, <2>2
<1> QED
  BY <1>4 DEF Agree

(* A change of the costs changes nothing for the checks.                   *)
LEMMA AgreeKept ==
  ASSUME NEW s, NEW r, NEW q, NEW m, NEW open, Agree(s, r, m, open),
         \A k \in 1..m : (~open \/ k # m) => q[k].check = r[k].check /\ q[k].value = r[k].value
  PROVE  Agree(s, q, m, open)
BY Zenon DEF Agree

(* Round n left what it leaves, but for its cost. *)
Settled(n) == n \in 1..num /\ (n = num => phase # "round")

(* The steps that touch a round, its number or the log.                    *)
LEMMA PhaseOut ==
  ASSUME FileInv, [Next]_vars
  PROVE  \/ UNCHANGED <<num, results, log>> /\ (phase' = "round" => phase = "round")
         \/ RoundBegins \/ RoundChecked \/ UsageRecorded \/ RoundEnd
         \/ ServeEnds("finished") \/ ServeEnds("give_up")
<1>0. ServeTypes
  BY DEF FileInv
<1>1. CASE UNCHANGED vars
  BY <1>1 DEF vars, serve, record
<1>2. CASE ServeStart \/ ServeCrash \/ PidReused \/ Tick
  BY <1>2 DEF ServeStart, record, ServeCrash, PidReused, Tick
<1>3. CASE MonthTurns
  BY <1>3 DEF MonthTurns, serve
<1>4. CASE ScriptStep
  BY <1>4, ScriptStepEffect
<1>5. CASE ServeTop \/ GoalCheck \/ HooksEnd \/ ServeGivesUp
  BY <1>0, <1>5, ServeTopEffect, GoalCheckEffect, HooksEndEffect, GivesUpEffect, Zenon
<1>6. CASE RoundEnd
  BY <1>6
<1> QED
  BY <1>1, <1>2, <1>3, <1>4, <1>5, <1>6 DEF Next, ScriptStep

(* The goal check, round by round.                                         *)
LEMMA CheckedUpdate ==
  ASSUME ServeTypes, RoundChecked
  PROVE  /\ phase = "round" /\ phase' = "checked" /\ num' = num /\ num > 0
         /\ \A k \in 1..num : k # num => results'[k] = results[k]
         /\ \E o \in Result :
              /\ results'[num].check = o.check /\ results'[num].value = o.value
              /\ results'[num].cost = results[num].cost
              /\ log' = IF o.check = "none" THEN log
                        ELSE Append(log, Event("goal_check", num, o))
<1>1. PICK o \in Result :
          /\ results' = [results EXCEPT ![num] =
                [cost |-> results[num].cost, check |-> o.check, value |-> o.value]]
          /\ log' = IF o.check = "none" THEN log
                    ELSE Append(log, Event("goal_check", num, o))
  BY DEF RoundChecked
<1>2. phase = "round" /\ phase' = "checked" /\ num' = num
  BY DEF RoundChecked
<1>3. num \in 1..Len(results) /\ results[num] \in Result /\ results \in Seq(Result) /\ Len(results) = num
  BY <1>2 DEF ServeTypes
<1>4. PICK r : r = [cost |-> results[num].cost, check |-> o.check, value |-> o.value]
  OBVIOUS
<1>5. r \in Result
  BY <1>3, <1>4, ResultParts
<1>6. PICK S : S = Result
  OBVIOUS
<1>7. \A i \in 1..Len(results) : results'[i] = IF i = num THEN r ELSE results[i]
  BY <1>1, <1>3, <1>4, <1>5, <1>6, PutTypes
<1>8. results'[num] = r /\ \A k \in 1..num : k # num => results'[k] = results[k]
  BY <1>3, <1>7
<1>9. r.check = o.check /\ r.value = o.value /\ r.cost = results[num].cost
  BY <1>4
<1> QED
  BY <1>1, <1>2, <1>3, <1>8, <1>9

(* The recorded usage, round by round.                                     *)
LEMMA UsageUpdate ==
  ASSUME ServeTypes, UsageRecorded
  PROVE  /\ phase = "hooks" /\ phase' = "gap" /\ num' = num /\ num > 0
         /\ \A k \in 1..num : k # num => results'[k] = results[k]
         /\ \E o \in Result :
              /\ results'[num].check = results[num].check
              /\ results'[num].value = results[num].value
              /\ results'[num].cost = o.cost
              /\ log' = IF o.cost = 0 THEN log
                        ELSE Append(log, Event("usage", num, o))
<1>1. PICK o \in Result :
          /\ results' = [results EXCEPT ![num] =
                [cost |-> o.cost, check |-> results[num].check, value |-> results[num].value]]
          /\ log' = IF o.cost = 0 THEN log
                    ELSE Append(log, Event("usage", num, o))
  BY DEF UsageRecorded
<1>2. phase = "hooks" /\ phase' = "gap" /\ num' = num
  BY DEF UsageRecorded
<1>3. num \in 1..Len(results) /\ results[num] \in Result /\ results \in Seq(Result) /\ Len(results) = num
  BY <1>2 DEF ServeTypes
<1>4. PICK r : r = [cost |-> o.cost, check |-> results[num].check, value |-> results[num].value]
  OBVIOUS
<1>5. r \in Result
  BY <1>3, <1>4, ResultParts
<1>6. PICK S : S = Result
  OBVIOUS
<1>7. \A i \in 1..Len(results) : results'[i] = IF i = num THEN r ELSE results[i]
  BY <1>1, <1>3, <1>4, <1>5, <1>6, PutTypes
<1>8. results'[num] = r /\ \A k \in 1..num : k # num => results'[k] = results[k]
  BY <1>3, <1>7
<1>9. r.cost = o.cost /\ r.check = results[num].check /\ r.value = results[num].value
  BY <1>4
<1> QED
  BY <1>1, <1>2, <1>3, <1>8, <1>9

(* A round that begins, round by round.                                    *)
LEMMA BeginsUpdate ==
  ASSUME ServeTypes, RoundBegins
  PROVE  /\ phase # "round" /\ phase' = "round" /\ num' = num + 1 /\ num \in Nat
         /\ \A k \in 1..num : results'[k] = results[k]
         /\ results'[num + 1] = Bare
<1>1. phase # "round" /\ phase' = "round" /\ num' = num + 1 /\ results' = Append(results, Bare)
  BY DEF RoundBegins
<1>2. results \in Seq(Result) /\ Len(results) = num /\ num \in Nat
  BY DEF ServeTypes
<1>3. PICK S, b : S = Result /\ b = Bare
  OBVIOUS
<1>4. /\ \A i \in 1..Len(results) : Append(results, b)[i] = results[i]
      /\ Append(results, b)[Len(results) + 1] = b
  BY <1>2, <1>3, BareType, AppendTypes
<1> QED
  BY <1>1, <1>2, <1>3, <1>4

(* A settled round stays settled, with its check and value.                *)
LEMMA ResultsKept ==
  ASSUME FileInv, [Next]_vars, NEW k, Settled(k)
  PROVE  Settled(k)' /\ results'[k].check = results[k].check /\ results'[k].value = results[k].value
<1>0. ServeTypes /\ num \in Nat
  BY DEF FileInv, ServeTypes
<1>1. CASE UNCHANGED <<num, results, log>> /\ (phase' = "round" => phase = "round")
  BY <1>1 DEF Settled
<1>2. CASE RoundBegins
  BY <1>0, <1>2, BeginsUpdate DEF Settled
<1>3. CASE RoundChecked
  BY <1>0, <1>3, CheckedUpdate DEF Settled
<1>4. CASE UsageRecorded
  BY <1>0, <1>4, UsageUpdate DEF Settled
<1>5. CASE RoundEnd
  BY <1>5 DEF RoundEnd, Settled
<1>6. CASE ServeEnds("finished") \/ ServeEnds("give_up")
  BY <1>6 DEF ServeEnds, Settled
<1> QED
  BY <1>1, <1>2, <1>3, <1>4, <1>5, <1>6, PhaseOut

(* The checks in the log go on agreeing with the rounds.                   *)
LEMMA LogAgreesStep == FileInv /\ LogAgrees /\ [Next]_vars => LogAgrees'
<1> SUFFICES ASSUME FileInv, LogAgrees, [Next]_vars PROVE LogAgrees'
  OBVIOUS
<1>0. ServeTypes /\ num \in Nat /\ log \in Seq(Happening) /\ Bare \in Result
  BY BareType DEF FileInv, ServeTypes
<1>a. PICK t, q : t = log' /\ q = results'
  OBVIOUS
<1>b. Agree(log, results, num, phase = "round")
  BY DEF LogAgrees
<1>c. ASSUME phase # "round", NEW b PROVE Agree(log, results, num, FALSE)
  BY <1>b, <1>c DEF Agree
<1>1. CASE UNCHANGED <<num, results, log>> /\ (phase' = "round" => phase = "round")
  <2>1. Agree(log, results, num, phase' = "round")
    BY <1>b, <1>1 DEF Agree
  <2> QED
    BY <1>1, <2>1 DEF LogAgrees
<1>2. CASE RoundBegins
  <2>1. /\ phase # "round" /\ num' = num + 1
        /\ \A k \in 1..num : q[k] = results[k]
    BY <1>0, <1>2, <1>a, BeginsUpdate
  <2>2. Longer(log, t, "round_start", num + 1, Bare)
    <3>1. log' = Append(log, Event("round_start", num + 1, Bare)) /\ num + 1 \in Nat
      BY <1>0, <1>2 DEF RoundBegins
    <3> QED
      BY <1>a, <1>0, <3>1, Recorded, Zenon DEF EvKinds
  <2>3. Agree(log, q, num + 1, TRUE)
    <3>1. ASSUME NEW i \in DOMAIN log, log[i].ev = "goal_check"
          PROVE  /\ log[i].n \in 1..(num + 1) /\ log[i].n # num + 1 /\ log[i].check # "none"
                 /\ log[i].check = q[log[i].n].check /\ log[i].value = q[log[i].n].value
      <4>1. PICK e : e = log[i]
        OBVIOUS
      <4>2. /\ e.n \in 1..num /\ e.check # "none"
            /\ e.check = results[e.n].check /\ e.value = results[e.n].value
        BY <1>b, <3>1, <4>1 DEF Agree
      <4>3. e.n \in 1..(num + 1) /\ e.n # num + 1
        BY <1>0, <4>2
      <4> QED
        BY <2>1, <4>1, <4>2, <4>3
    <3> QED
      BY <3>1 DEF Agree
  <2>4. Agree(t, q, num + 1, TRUE)
    BY <2>2, <2>3, AgreeOther
  <2>5. Agree(t, q, num + 1, phase' = "round")
    BY <2>4 DEF Agree
  <2> QED
    BY <1>a, <2>1, <2>5 DEF LogAgrees
<1>3. CASE RoundChecked
  <2>1. /\ phase = "round" /\ phase' = "checked" /\ num' = num /\ num > 0
        /\ \A k \in 1..num : k # num => q[k] = results[k]
    BY <1>0, <1>3, <1>a, CheckedUpdate
  <2>2. PICK o \in Result : /\ q[num].check = o.check /\ q[num].value = o.value
                            /\ log' = IF o.check = "none" THEN log
                                      ELSE Append(log, Event("goal_check", num, o))
    BY <1>0, <1>3, <1>a, CheckedUpdate
  <2>3. Agree(log, results, num, TRUE)
    BY <1>b, <2>1 DEF Agree
  <2>4. CASE o.check = "none"
    <3>1. Agree(log, q, num, TRUE)
      BY <2>1, <2>3, AgreeKept
    <3>2. Agree(log, q, num, phase' = "round")
      BY <3>1 DEF Agree
    <3> QED
      BY <1>a, <2>1, <2>2, <2>4, <3>2 DEF LogAgrees
  <2>5. CASE o.check # "none"
    <3>1. Longer(log, t, "goal_check", num, o)
      BY <1>a, <1>0, <2>2, <2>5, Recorded, Zenon DEF EvKinds
    <3>2. Agree(t, q, num, FALSE)
      BY <1>0, <2>1, <2>2, <2>3, <2>5, <3>1, AgreeCheck
    <3>3. Agree(t, q, num, phase' = "round")
      BY <2>1, <3>2 DEF Agree
    <3> QED
      BY <1>a, <2>1, <3>3 DEF LogAgrees
  <2> QED
    BY <2>4, <2>5
<1>4. CASE UsageRecorded
  <2>1. /\ phase = "hooks" /\ phase' = "gap" /\ num' = num
        /\ \A k \in 1..num : q[k].check = results[k].check /\ q[k].value = results[k].value
    BY <1>0, <1>4, <1>a, UsageUpdate
  <2>2. PICK o \in Result : log' = IF o.cost = 0 THEN log ELSE Append(log, Event("usage", num, o))
    BY <1>0, <1>4, UsageUpdate
  <2>3. Agree(log, q, num, phase = "round")
    BY <1>b, <2>1, AgreeKept
  <2>4. t = log \/ Longer(log, t, "usage", num, o)
    BY <1>a, <1>0, <2>2, Recorded, Zenon DEF EvKinds
  <2>5. Agree(t, q, num, phase = "round")
    <3>1. CASE t = log
      BY <2>3, <3>1
    <3>2. CASE t # log
      BY <2>3, <2>4, <3>2, AgreeOther
    <3> QED
      BY <3>1, <3>2
  <2>6. Agree(t, q, num, phase' = "round")
    BY <2>1, <2>5 DEF Agree
  <2> QED
    BY <1>a, <2>1, <2>6 DEF LogAgrees
<1>d. ASSUME NEW ev \in {"round_end", "finished", "give_up"}, UNCHANGED <<num, results>>,
             phase' # "round", log' = Append(log, Event(ev, num, Bare))
      PROVE  LogAgrees'
  <2>1. Longer(log, t, ev, num, Bare)
    BY <1>a, <1>0, <1>d, Recorded, Zenon DEF EvKinds
  <2>2. Agree(t, results, num, phase = "round")
    BY <1>b, <1>d, <2>1, AgreeOther
  <2>3. Agree(t, results, num, phase' = "round")
    BY <1>d, <2>2 DEF Agree
  <2> QED
    BY <1>a, <1>d, <2>3 DEF LogAgrees
<1>5. CASE RoundEnd
  BY <1>5, <1>d DEF RoundEnd
<1>6. CASE ServeEnds("finished") \/ ServeEnds("give_up")
  BY <1>6, <1>d DEF ServeEnds
<1> QED
  BY <1>1, <1>2, <1>3, <1>4, <1>5, <1>6, PhaseOut

----------------------------------------------------------------------------
(* Sums. *)

(* What holds of 0 and passes from each number to the next holds up to N.   *)
LEMMA UpTo ==
  ASSUME NEW N \in Nat, NEW S, 0 \in S, \A n \in 1..N : n - 1 \in S => n \in S
  PROVE  \A n \in 0..N : n \in S
<1>1. SUFFICES ASSUME {n \in 0..N : n \notin S} # {} PROVE FALSE
  OBVIOUS
<1>2. PICK x \in {n \in 0..N : n \notin S} : \A y \in {n \in 0..N : n \notin S} : x <= y
  BY <1>1, SmallestNumber, {n \in 0..N : n \notin S} \in SUBSET Nat
<1>3. x \in 1..N /\ x \notin S
  BY <1>2
<1>4. x - 1 \in 0..N /\ ~ (x <= x - 1)
  BY <1>3
<1>5. x - 1 \in S
  BY <1>2, <1>4
<1> QED
  BY <1>3, <1>5

(* f[n] is the sum of the first n values of g.                              *)
Sums(f, N, g) == f \in [0..N -> Nat] /\ f[0] = 0 /\ \A n \in 1..N : f[n] = f[n - 1] + g[n]

(* The first N values of a function have their sums.                       *)
LEMMA SumsExist ==
  ASSUME NEW N \in Nat, NEW g, \A n \in 1..N : g[n] \in Nat
  PROVE  \E f : Sums(f, N, g)
<1> DEFINE S == {n \in 0..N : \E f : Sums(f, n, g)}
<1>1. 0 \in S
  <2>1. Sums([k \in 0..0 |-> 0], 0, g)
    BY DEF Sums
  <2> QED
    BY <2>1
<1>2. ASSUME NEW n \in 1..N, n - 1 \in S PROVE n \in S
  <2>1. PICK f : Sums(f, n - 1, g)
    BY <1>2
  <2>2. PICK w : w = f[n - 1] + g[n]
    OBVIOUS
  <2>3. f[n - 1] \in Nat /\ g[n] \in Nat
    BY <2>1 DEF Sums
  <2>4. w \in Nat
    BY <2>2, <2>3
  <2>5. PICK h : h = [k \in 0..n |-> IF k = n THEN w ELSE f[k]]
    OBVIOUS
  <2>6. \A k \in 0..(n - 1) : h[k] = f[k] /\ f[k] \in Nat
    BY <2>1, <2>5 DEF Sums
  <2>7. h \in [0..n -> Nat]
    <3>1. \A k \in 0..n : k = n \/ k \in 0..(n - 1)
      OBVIOUS
    <3> QED
      BY <2>4, <2>5, <2>6, <3>1
  <2>8. h[0] = 0
    BY <2>1, <2>6 DEF Sums
  <2>9. ASSUME NEW k \in 1..n PROVE h[k] = h[k - 1] + g[k]
    <3>1. k - 1 \in 0..(n - 1)
      OBVIOUS
    <3>2. CASE k = n
      <4>1. h[n] = w /\ h[n - 1] = f[n - 1]
        BY <2>5, <2>6, <3>1, <3>2
      <4> QED
        BY <2>2, <3>2, <4>1
    <3>3. CASE k \in 1..(n - 1)
      <4>1. f[k] = f[k - 1] + g[k]
        BY <2>1, <3>3 DEF Sums
      <4> QED
        BY <2>6, <3>1, <3>3, <4>1
    <3> QED
      BY <3>2, <3>3
  <2>10. Sums(h, n, g)
    BY <2>7, <2>8, <2>9 DEF Sums
  <2> QED
    BY <2>10
<1>3. N \in S
  <2>1. \A n \in 0..N : n \in S
    <3> HIDE DEF S
    <3> QED
      BY <1>1, <1>2, UpTo
  <2> QED
    BY <2>1
<1> QED
  BY <1>3

(* Functions that agree have the same sums.                                 *)
LEMMA SumsAgree ==
  ASSUME NEW N \in Nat, NEW M \in Nat, N <= M, NEW f, NEW g, NEW h, NEW q,
         Sums(f, N, g), Sums(h, M, q), \A n \in 1..N : g[n] = q[n]
  PROVE  \A n \in 0..N : f[n] = h[n]
<1> DEFINE S == {n \in 0..N : f[n] = h[n]}
<1>1. 0 \in S
  BY DEF Sums
<1>2. ASSUME NEW n \in 1..N, n - 1 \in S PROVE n \in S
  <2>1. f[n] = f[n - 1] + g[n] /\ h[n] = h[n - 1] + q[n]
    BY DEF Sums
  <2> QED
    BY <1>2, <2>1
<1>3. \A n \in 0..N : n \in S
  <2> HIDE DEF S
  <2> QED
    BY <1>1, <1>2, UpTo
<1> QED
  BY <1>3

(* Sums of smaller numbers are smaller.                                     *)
LEMMA SumsGrow ==
  ASSUME NEW N \in Nat, NEW f, NEW g, NEW h, NEW q, Sums(f, N, g), Sums(h, N, q),
         \A n \in 1..N : g[n] \in Nat /\ q[n] \in Nat /\ g[n] <= q[n]
  PROVE  \A n \in 0..N : f[n] <= h[n]
<1> DEFINE S == {n \in 0..N : f[n] <= h[n]}
<1>0. \A n \in 0..N : f[n] \in Nat /\ h[n] \in Nat
  BY DEF Sums
<1>1. 0 \in S
  BY DEF Sums
<1>2. ASSUME NEW n \in 1..N, n - 1 \in S PROVE n \in S
  <2>1. f[n] = f[n - 1] + g[n] /\ h[n] = h[n - 1] + q[n]
    BY DEF Sums
  <2>2. n - 1 \in 0..N /\ f[n - 1] <= h[n - 1]
    BY <1>2
  <2>3. f[n] <= h[n]
    BY <1>0, <2>1, <2>2
  <2> QED
    BY <2>3
<1>3. \A n \in 0..N : n \in S
  <2> HIDE DEF S
  <2> QED
    BY <1>1, <1>2, UpTo
<1> QED
  BY <1>3

(* The costs of m rounds have a sum.                                        *)
CostSum(m, r, x) == \E f : Sums(f, m, [n \in 1..m |-> r[n].cost]) /\ x = f[m]

(* The function a total is read from holds the sums of the costs.          *)
LEMMA TotalIs ==
  ASSUME NEW m \in Nat, NEW r, \A n \in 1..m : r[n].cost \in Nat,
         NEW c, c = CHOOSE h : h = [i \in 0..m |-> IF i = 0 THEN 0 ELSE h[i - 1] + r[i].cost]
  PROVE  CostSum(m, r, c[m]) /\ c[m] \in Nat
<1> DEFINE Body(h) == [i \in 0..m |-> IF i = 0 THEN 0 ELSE h[i - 1] + r[i].cost]
<1>1. PICK g : g = [n \in 1..m |-> r[n].cost]
  OBVIOUS
<1>2. \A n \in 1..m : r[n].cost \in Nat /\ g[n] = r[n].cost
  BY <1>1
<1>3. PICK f : Sums(f, m, g)
  BY <1>2, SumsExist
<1>4. f = Body(f)
  <2>1. \A n \in 0..m : n = 0 \/ n \in 1..m
    OBVIOUS
  <2>2. f \in [0..m -> Nat] /\ f[0] = 0 /\ \A n \in 1..m : f[n] = f[n - 1] + r[n].cost
    BY <1>2, <1>3 DEF Sums
  <2> QED
    BY <2>1, <2>2
<1>5. c = CHOOSE h : h = Body(h)
  OBVIOUS
<1>6. c = Body(c)
  <2> HIDE DEF Body
  <2> QED
    BY <1>4, <1>5
<1>7. c[0] = 0 /\ \A n \in 1..m : c[n] = c[n - 1] + r[n].cost
  <2>1. \A n \in 1..m : n \in 0..m /\ n # 0
    OBVIOUS
  <2>2. 0 \in 0..m
    OBVIOUS
  <2>3. PICK F : F = Body(c)
    OBVIOUS
  <2>4. \A n \in 0..m : F[n] = IF n = 0 THEN 0 ELSE c[n - 1] + r[n].cost
    BY <2>3
  <2> HIDE DEF Body
  <2> QED
    BY <1>6, <2>1, <2>2, <2>3, <2>4
<1>8. \A n \in 0..m : c[n] = f[n]
  <2> DEFINE S == {n \in 0..m : c[n] = f[n]}
  <2>1. 0 \in S
    BY <1>3, <1>7 DEF Sums
  <2>2. ASSUME NEW n \in 1..m, n - 1 \in S PROVE n \in S
    <3>1. f[n] = f[n - 1] + r[n].cost
      BY <1>2, <1>3 DEF Sums
    <3> QED
      BY <1>7, <2>2, <3>1
  <2>3. \A n \in 0..m : n \in S
    <3> HIDE DEF S
    <3> QED
      BY <2>1, <2>2, UpTo
  <2> QED
    BY <2>3
<1>9. c[m] = f[m] /\ f[m] \in Nat
  BY <1>3, <1>8 DEF Sums
<1> QED
  BY <1>1, <1>3, <1>9 DEF CostSum

(* The sums of the same costs are the same.                                 *)
LEMMA CostSumIs ==
  ASSUME NEW m \in Nat, NEW r, NEW x, NEW y, CostSum(m, r, x), CostSum(m, r, y)
  PROVE  x = y
<1>1. PICK g : g = [n \in 1..m |-> r[n].cost]
  OBVIOUS
<1>2. PICK f : Sums(f, m, g) /\ x = f[m]
  BY <1>1 DEF CostSum
<1>3. PICK h : Sums(h, m, g) /\ y = h[m]
  BY <1>1 DEF CostSum
<1>4. \A n \in 0..m : f[n] = h[n]
  BY <1>2, <1>3, m <= m, SumsAgree
<1> QED
  BY <1>2, <1>3, <1>4

(* Rounds that cost more have a greater sum.                                *)
LEMMA CostSumGrows ==
  ASSUME NEW m \in Nat, NEW r, NEW q, NEW x, NEW y, CostSum(m, r, x), CostSum(m, q, y),
         \A n \in 1..m : r[n].cost \in Nat /\ q[n].cost \in Nat /\ r[n].cost <= q[n].cost
  PROVE  x <= y
<1>1. PICK a, b : a = [n \in 1..m |-> r[n].cost] /\ b = [n \in 1..m |-> q[n].cost]
  OBVIOUS
<1>2. PICK f : Sums(f, m, a) /\ x = f[m]
  BY <1>1 DEF CostSum
<1>3. PICK h : Sums(h, m, b) /\ y = h[m]
  BY <1>1 DEF CostSum
<1>4. \A n \in 1..m : a[n] \in Nat /\ b[n] \in Nat /\ a[n] <= b[n]
  BY <1>1
<1>5. \A n \in 0..m : f[n] <= h[n]
  BY <1>2, <1>3, <1>4, SumsGrow
<1> QED
  BY <1>2, <1>3, <1>5

(* The costs of the events in a set of places of the log, and their sum.    *)
Spent(s, A) == [i \in 1..Len(s) |-> IF i \in A THEN s[i].cost ELSE 0]

(* What the log shows as spent is such a sum.                              *)
LEMMA CrossedIs ==
  ASSUME NEW s \in Seq(Happening), NEW A
  PROVE  \E f : Sums(f, Len(s), Spent(s, A)) /\ (SC!Crossed(s, A) <=> f[Len(s)] >= CEILING)
<1> DEFINE Body(c) == [i \in 0..Len(s) |-> IF i = 0 THEN 0
                              ELSE c[i - 1] + (IF i \in A THEN s[i].cost ELSE 0)]
<1>1. Len(s) \in Nat
  OBVIOUS
<1>g. PICK g : g = Spent(s, A)
  OBVIOUS
<1>2. \A n \in 1..Len(s) : g[n] \in Nat /\ g[n] = IF n \in A THEN s[n].cost ELSE 0
  <2>1. \A n \in 1..Len(s) : s[n] \in Happening
    OBVIOUS
  <2>2. \A n \in 1..Len(s) : s[n].cost \in Nat
    BY <2>1 DEF Happening
  <2> QED
    BY <1>g, <2>2 DEF Spent
<1>3. PICK f : Sums(f, Len(s), g)
  BY <1>1, <1>2, SumsExist
<1>4. f = Body(f)
  <2>1. \A n \in 0..Len(s) : n = 0 \/ n \in 1..Len(s)
    BY <1>1
  <2>2. f \in [0..Len(s) -> Nat] /\ f[0] = 0
        /\ \A n \in 1..Len(s) : f[n] = f[n - 1] + (IF n \in A THEN s[n].cost ELSE 0)
    BY <1>2, <1>3 DEF Sums
  <2> QED
    BY <2>1, <2>2
<1>5. PICK c : c = CHOOSE h : h = Body(h)
  OBVIOUS
<1>6. c = Body(c)
  <2> HIDE DEF Body
  <2> QED
    BY <1>4, <1>5
<1>7. SC!Crossed(s, A) <=> c[Len(s)] >= CEILING
  BY <1>5 DEF SC!Crossed
<1>8. c[0] = 0 /\ \A n \in 1..Len(s) : c[n] = c[n - 1] + g[n]
  <2>1. \A n \in 1..Len(s) : n \in 0..Len(s) /\ n # 0
    BY <1>1
  <2>2. 0 \in 0..Len(s)
    BY <1>1
  <2>3. PICK F : F = Body(c)
    OBVIOUS
  <2>4. \A n \in 0..Len(s) : F[n] = IF n = 0 THEN 0
                                     ELSE c[n - 1] + (IF n \in A THEN s[n].cost ELSE 0)
    BY <2>3
  <2> HIDE DEF Body
  <2> QED
    BY <1>2, <1>6, <2>1, <2>2, <2>3, <2>4
<1>9. \A n \in 0..Len(s) : c[n] = f[n]
  <2> DEFINE S == {n \in 0..Len(s) : c[n] = f[n]}
  <2>1. 0 \in S
    BY <1>1, <1>3, <1>8 DEF Sums
  <2>2. ASSUME NEW n \in 1..Len(s), n - 1 \in S PROVE n \in S
    <3>1. f[n] = f[n - 1] + g[n]
      BY <1>3 DEF Sums
    <3> QED
      BY <1>1, <1>8, <2>2, <3>1
  <2>3. \A n \in 0..Len(s) : n \in S
    <3> HIDE DEF S
    <3> QED
      BY <1>1, <2>1, <2>2, UpTo
  <2> QED
    BY <2>3
<1> QED
  BY <1>1, <1>3, <1>7, <1>9, <1>g

(* What a round costs and what its check says is in the log.                *)
UsageInv ==
    /\ \A i \in DOMAIN log : log[i].ev = "usage" =>
          log[i].n \in Numbers(log, "round_end") /\ log[i].cost > 0
    /\ phase \in {"round", "checked", "hooks"} =>
          /\ results[num].cost = 0
          /\ \A i \in DOMAIN log : log[i].ev = "usage" => log[i].n # num

CheckedInv ==
    /\ \A n \in 1..num : results[n].check # "none" => Of(log, "goal_check", n) # {}
    /\ phase = "round" => results[num].check = "none"

(* What serve does to the rounds and to the log, and the phases it leaves.  *)
LEMMA PhaseMoves ==
  ASSUME FileInv, [Next]_vars
  PROVE  \/ UNCHANGED <<num, results, log>> /\ (phase' = phase \/ phase' \in {"top", "down"})
         \/ RoundBegins \/ RoundChecked \/ UsageRecorded \/ RoundEnd
         \/ ServeEnds("finished") \/ ServeEnds("give_up")
<1>0. ServeTypes
  BY DEF FileInv
<1>1. CASE UNCHANGED vars
  BY <1>1 DEF vars, serve, record
<1>2. CASE ServeStart \/ ServeCrash \/ PidReused \/ Tick
  BY <1>2 DEF ServeStart, record, ServeCrash, PidReused, Tick
<1>3. CASE MonthTurns
  BY <1>3 DEF MonthTurns, serve
<1>4. CASE ScriptStep
  BY <1>4, ScriptStepEffect
<1>5. CASE ServeTop \/ GoalCheck \/ HooksEnd \/ ServeGivesUp
  BY <1>0, <1>5, ServeTopEffect, GoalCheckEffect, HooksEndEffect, GivesUpEffect, Zenon
<1>6. CASE RoundEnd
  BY <1>6
<1> QED
  BY <1>1, <1>2, <1>3, <1>4, <1>5, <1>6 DEF Next, ScriptStep

(* An event that is not of the usage leaves what is known of the usage.     *)
UsagesEnded(s) ==
    \A i \in DOMAIN s : s[i].ev = "usage" => s[i].n \in Numbers(s, "round_end") /\ s[i].cost > 0
NoUsageOf(s, n) == \A i \in DOMAIN s : s[i].ev = "usage" => s[i].n # n

(* Another event leaves the usages as they are.                            *)
LEMMA UsagesOther ==
  ASSUME NEW s, NEW t, NEW ev, NEW n, NEW o, Longer(s, t, ev, n, o), ev # "usage",
         UsagesEnded(s)
  PROVE  /\ UsagesEnded(t)
         /\ \A k : NoUsageOf(s, k) => NoUsageOf(t, k)
<1>1. \A i : i \in DOMAIN t <=> i \in DOMAIN s \/ i = Len(s) + 1
  BY DEF Longer
<1>2. (\A i \in DOMAIN s : t[i] = s[i]) /\ t[Len(s) + 1].ev = ev
  BY DEF Longer
<1>3. Numbers(s, "round_end") \subseteq Numbers(t, "round_end")
  BY NumbersGrow
<1>4. ASSUME NEW i \in DOMAIN t, t[i].ev = "usage"
      PROVE  i \in DOMAIN s /\ t[i] = s[i]
  BY <1>1, <1>2, <1>4
<1>5. UsagesEnded(t)
  BY <1>3, <1>4 DEF UsagesEnded
<1>6. ASSUME NEW k, NoUsageOf(s, k) PROVE NoUsageOf(t, k)
  BY <1>4, <1>6 DEF NoUsageOf
<1> QED
  BY <1>5, <1>6

(* Nor does the usage of an ended round.                                    *)
LEMMA UsagesOne ==
  ASSUME NEW s, NEW t, NEW n, NEW o, Longer(s, t, "usage", n, o), UsagesEnded(s),
         n \in Numbers(s, "round_end"), o.cost > 0
  PROVE  UsagesEnded(t)
<1>1. \A i : i \in DOMAIN t <=> i \in DOMAIN s \/ i = Len(s) + 1
  BY DEF Longer
<1>2. /\ \A i \in DOMAIN s : t[i] = s[i]
      /\ t[Len(s) + 1].n = n /\ t[Len(s) + 1].cost = o.cost
  BY DEF Longer
<1>3. Numbers(s, "round_end") = Numbers(t, "round_end")
  BY NumbersGrow
<1>4. ASSUME NEW i \in DOMAIN t, t[i].ev = "usage"
      PROVE  t[i].n \in Numbers(t, "round_end") /\ t[i].cost > 0
  <2>1. CASE i \in DOMAIN s
    <3>1. t[i] = s[i]
      BY <1>2, <2>1
    <3>2. s[i].n \in Numbers(s, "round_end") /\ s[i].cost > 0
      BY <1>4, <2>1, <3>1 DEF UsagesEnded
    <3> QED
      BY <1>3, <3>1, <3>2
  <2>2. CASE i = Len(s) + 1
    BY <1>2, <1>3, <2>2
  <2> QED
    BY <1>1, <1>4, <2>1, <2>2
<1> QED
  BY <1>4 DEF UsagesEnded

(* What a step adds to the rounds and to the log.                           *)
Begins ==
    /\ phase \in {"top", "gap"} /\ phase' = "round" /\ num' = num + 1
    /\ (\A k \in 1..num : results'[k] = results[k]) /\ results'[num + 1] = Bare
    /\ Longer(log, log', "round_start", num + 1, Bare)
ChecksIt ==
    /\ phase = "round" /\ phase' = "checked" /\ num' = num /\ num > 0
    /\ \A k \in 1..num : k # num => results'[k] = results[k]
    /\ \E o \in Result :
          /\ results'[num].check = o.check /\ results'[num].value = o.value
          /\ results'[num].cost = results[num].cost
          /\ \/ o.check = "none" /\ log' = log
             \/ o.check # "none" /\ Longer(log, log', "goal_check", num, o)
CostsIt ==
    /\ phase = "hooks" /\ phase' = "gap" /\ num' = num /\ num > 0
    /\ \A k \in 1..num : k # num => results'[k] = results[k]
    /\ \E o \in Result :
          /\ results'[num].check = results[num].check
          /\ results'[num].value = results[num].value
          /\ results'[num].cost = o.cost
          /\ \/ o.cost = 0 /\ log' = log
             \/ o.cost > 0 /\ Longer(log, log', "usage", num, o)
EndsIt ==
    /\ phase = "checked" /\ phase' = "hooks" /\ num' = num /\ results' = results
    /\ Longer(log, log', "round_end", num, Bare)
Leaves ==
    /\ phase' = "down" /\ num' = num /\ results' = results
    /\ \E ev \in {"finished", "give_up"} : Longer(log, log', ev, num, Bare)
Stays ==
    /\ num' = num /\ results' = results /\ log' = log
    /\ phase' = phase \/ phase' \in {"top", "down"}

(* What a step does to the rounds and to the log.                          *)
LEMMA StepKinds ==
  ASSUME FileInv, [Next]_vars
  PROVE  Stays \/ Begins \/ ChecksIt \/ CostsIt \/ EndsIt \/ Leaves
<1>0. ServeTypes
  BY DEF FileInv
<1>1. num \in Nat /\ log \in Seq(Happening)
  BY <1>0 DEF ServeTypes
<1>2. CASE UNCHANGED <<num, results, log>> /\ (phase' = phase \/ phase' \in {"top", "down"})
  BY <1>2 DEF Stays
<1>3. CASE RoundBegins
  <2>1. /\ phase' = "round" /\ num' = num + 1
        /\ (\A k \in 1..num : results'[k] = results[k]) /\ results'[num + 1] = Bare
    BY <1>0, <1>3, BeginsUpdate
  <2>2. phase \in {"top", "gap"} /\ log' = Append(log, Event("round_start", num + 1, Bare))
    BY <1>3 DEF RoundBegins
  <2>3. "round_start" \in EvKinds /\ num + 1 \in Nat
    BY <1>1 DEF EvKinds
  <2>4. PICK m \in Nat : m = num + 1
    BY <2>3
  <2>5. Longer(log, log', "round_start", m, Bare)
    BY <1>1, <2>2, <2>3, <2>4, Recorded, BareType
  <2> QED
    BY <2>1, <2>2, <2>4, <2>5 DEF Begins
<1>4. CASE RoundChecked
  <2>1. /\ phase = "round" /\ phase' = "checked" /\ num' = num /\ num > 0
        /\ \A k \in 1..num : k # num => results'[k] = results[k]
    BY <1>0, <1>4, CheckedUpdate
  <2>2. PICK o \in Result :
              /\ results'[num].check = o.check /\ results'[num].value = o.value
              /\ results'[num].cost = results[num].cost
              /\ log' = IF o.check = "none" THEN log
                        ELSE Append(log, Event("goal_check", num, o))
    BY <1>0, <1>4, CheckedUpdate
  <2>3. "goal_check" \in EvKinds
    BY DEF EvKinds
  <2>4. \/ o.check = "none" /\ log' = log
        \/ o.check # "none" /\ Longer(log, log', "goal_check", num, o)
    BY <1>1, <2>2, <2>3, Recorded
  <2> QED
    BY <2>1, <2>2, <2>4 DEF ChecksIt
<1>5. CASE UsageRecorded
  <2>1. /\ phase = "hooks" /\ phase' = "gap" /\ num' = num /\ num > 0
        /\ \A k \in 1..num : k # num => results'[k] = results[k]
    BY <1>0, <1>5, UsageUpdate
  <2>2. PICK o \in Result :
              /\ results'[num].check = results[num].check
              /\ results'[num].value = results[num].value
              /\ results'[num].cost = o.cost
              /\ log' = IF o.cost = 0 THEN log
                        ELSE Append(log, Event("usage", num, o))
    BY <1>0, <1>5, UsageUpdate
  <2>3. "usage" \in EvKinds /\ o.cost \in Nat
    BY DEF EvKinds, Result
  <2>4. o.cost = 0 \/ o.cost > 0
    BY <2>3
  <2>5. \/ o.cost = 0 /\ log' = log
        \/ o.cost > 0 /\ Longer(log, log', "usage", num, o)
    <3>1. CASE o.cost = 0
      BY <2>2, <3>1
    <3>2. CASE o.cost # 0
      BY <1>1, <2>2, <2>3, <2>4, <3>2, Recorded
    <3> QED
      BY <3>1, <3>2
  <2> QED
    BY <2>1, <2>2, <2>5 DEF CostsIt
<1>6. CASE RoundEnd
  <2>1. phase = "checked" /\ phase' = "hooks" /\ num' = num /\ results' = results
        /\ log' = Append(log, Event("round_end", num, Bare))
    BY <1>6 DEF RoundEnd
  <2>2. "round_end" \in EvKinds
    BY DEF EvKinds
  <2>3. Longer(log, log', "round_end", num, Bare)
    BY <1>1, <2>1, <2>2, Recorded, BareType
  <2> QED
    BY <2>1, <2>3 DEF EndsIt
<1>7. ASSUME NEW ev \in {"finished", "give_up"}, ServeEnds(ev) PROVE Leaves
  <2>1. phase' = "down" /\ num' = num /\ results' = results
        /\ log' = Append(log, Event(ev, num, Bare))
    BY <1>7 DEF ServeEnds
  <2>2. ev \in EvKinds
    BY DEF EvKinds
  <2>3. Longer(log, log', ev, num, Bare)
    BY <1>1, <2>1, <2>2, Recorded, BareType
  <2> QED
    BY <2>1, <2>3 DEF Leaves
<1> QED
  BY <1>2, <1>3, <1>4, <1>5, <1>6, <1>7, PhaseMoves

(* Every usage in the log is of an ended round, and of none that has not     *)
(* recorded it yet.                                                         *)
LEMMA UsageInvStep == FileInv /\ UsageInv /\ [Next]_vars => UsageInv'
<1> SUFFICES ASSUME FileInv, UsageInv, [Next]_vars PROVE UsageInv'
  OBVIOUS
<1>0. ServeTypes /\ Numbered
  BY DEF FileInv
<1>1. num \in Nat /\ Numbers(log, "round_end") \subseteq 1..num
  BY <1>0 DEF ServeTypes, Numbered
<1>2. UsagesEnded(log) /\ (phase \in {"round", "checked", "hooks"} =>
                              results[num].cost = 0 /\ NoUsageOf(log, num))
  BY DEF UsageInv, UsagesEnded, NoUsageOf
<1>3. SUFFICES UsagesEnded(log') /\ (phase' \in {"round", "checked", "hooks"} =>
                              results'[num'].cost = 0 /\ NoUsageOf(log', num'))
  BY Zenon DEF UsageInv, UsagesEnded, NoUsageOf
<1>4. CASE Stays
  BY <1>2, <1>4 DEF Stays
<1>5. CASE Begins
  <2>1. PICK m \in Nat : m = num + 1
    BY <1>1
  <2>2. phase' = "round" /\ num' = m /\ results'[m] = Bare
    BY <1>5, <2>1 DEF Begins
  <2>3. PICK t : t = log'
    OBVIOUS
  <2>4. Longer(log, t, "round_start", m, Bare)
    BY <1>5, <2>1, <2>3 DEF Begins
  <2>5. NoUsageOf(log, m)
    <3>1. \A i \in DOMAIN log : log[i].ev = "usage" => log[i].n \in 1..num
      BY <1>1, <1>2 DEF UsagesEnded
    <3>2. m \notin 1..num
      BY <1>1, <2>1
    <3> QED
      BY <3>1, <3>2, Zenon DEF NoUsageOf
  <2>6. UsagesEnded(t) /\ NoUsageOf(t, m)
    BY <1>2, <2>4, <2>5, UsagesOther
  <2>7. Bare.cost = 0
    BY DEF Bare
  <2> QED
    BY <2>2, <2>3, <2>6, <2>7
<1>6. CASE ChecksIt
  <2>1. phase = "round" /\ phase' = "checked" /\ num' = num
    BY <1>6 DEF ChecksIt
  <2>2. PICK t : t = log'
    OBVIOUS
  <2>3. results'[num].cost = results[num].cost
        /\ (t = log \/ \E o : Longer(log, t, "goal_check", num, o))
    BY <1>6, <2>2 DEF ChecksIt
  <2>4. UsagesEnded(t) /\ NoUsageOf(t, num)
    BY <1>2, <2>1, <2>3, UsagesOther
  <2> QED
    BY <1>2, <2>1, <2>2, <2>3, <2>4
<1>7. CASE CostsIt
  <2>1. phase = "hooks" /\ phase' = "gap" /\ num' = num
    BY <1>7 DEF CostsIt
  <2>2. PICK t : t = log'
    OBVIOUS
  <2>3. t = log \/ \E o : o.cost > 0 /\ Longer(log, t, "usage", num, o)
    BY <1>7, <2>2 DEF CostsIt
  <2>4. num \in Numbers(log, "round_end")
    BY <1>0, <2>1 DEF Numbered
  <2>5. UsagesEnded(t)
    BY <1>2, <2>3, <2>4, UsagesOne
  <2> QED
    BY <2>1, <2>2, <2>5
<1>8. CASE EndsIt
  <2>1. phase = "checked" /\ phase' = "hooks" /\ num' = num /\ results' = results
    BY <1>8 DEF EndsIt
  <2>2. PICK t : t = log'
    OBVIOUS
  <2>3. Longer(log, t, "round_end", num, Bare)
    BY <1>8, <2>2 DEF EndsIt
  <2>4. UsagesEnded(t) /\ NoUsageOf(t, num)
    BY <1>2, <2>1, <2>3, UsagesOther
  <2> QED
    BY <1>2, <2>1, <2>2, <2>4
<1>9. CASE Leaves
  <2>1. PICK t : t = log'
    OBVIOUS
  <2>2. PICK ev \in {"finished", "give_up"} : Longer(log, t, ev, num, Bare)
    BY <1>9, <2>1 DEF Leaves
  <2>3. UsagesEnded(t)
    BY <1>2, <2>2, UsagesOther
  <2> QED
    BY <1>9, <2>1, <2>3 DEF Leaves
<1> QED
  BY <1>4, <1>5, <1>6, <1>7, <1>8, <1>9, StepKinds

(* A longer log keeps the events of a kind about a round.                   *)
LEMMA OfGrows ==
  ASSUME NEW s, NEW t, NEW ev, NEW n, NEW o, Longer(s, t, ev, n, o)
  PROVE  /\ \A k, m : Of(s, k, m) # {} => Of(t, k, m) # {}
         /\ Of(t, ev, n) # {}
<1>1. \A i : i \in DOMAIN t <=> i \in DOMAIN s \/ i = Len(s) + 1
  BY DEF Longer
<1>2. (\A i \in DOMAIN s : t[i] = s[i]) /\ t[Len(s) + 1].ev = ev /\ t[Len(s) + 1].n = n
  BY DEF Longer
<1>3. ASSUME NEW k, NEW m, Of(s, k, m) # {} PROVE Of(t, k, m) # {}
  <2>1. PICK i \in DOMAIN s : s[i].ev = k /\ s[i].n = m
    BY <1>3 DEF Of
  <2>2. i \in DOMAIN t /\ t[i] = s[i]
    BY <1>1, <1>2
  <2>3. i \in Of(t, k, m)
    BY <2>1, <2>2 DEF Of
  <2> QED
    BY <2>3
<1>4. Len(s) + 1 \in Of(t, ev, n)
  BY <1>1, <1>2 DEF Of
<1> QED
  BY <1>3, <1>4

(* Every check that was made is in the log.                                 *)
LEMMA CheckedInvStep == FileInv /\ CheckedInv /\ [Next]_vars => CheckedInv'
<1> SUFFICES ASSUME FileInv, CheckedInv, [Next]_vars PROVE CheckedInv'
  OBVIOUS
<1>0. ServeTypes /\ num \in Nat
  BY DEF FileInv, ServeTypes
<1> DEFINE Ok(s, r, m) == \A n \in 1..m : r[n].check # "none" => Of(s, "goal_check", n) # {}
<1>1. Ok(log, results, num) /\ (phase = "round" => results[num].check = "none")
  BY DEF CheckedInv
<1>2. SUFFICES Ok(log', results', num') /\ (phase' = "round" => results'[num'].check = "none")
  BY DEF CheckedInv
<1>3. ASSUME NEW t, NEW ev, NEW n, NEW o, Longer(log, t, ev, n, o)
      PROVE  Ok(t, results, num)
  BY <1>1, <1>3, OfGrows
<1>4. CASE Stays
  BY <1>1, <1>4 DEF Stays
<1>5. CASE Begins
  <2>1. phase' = "round" /\ num' = num + 1 /\ results'[num + 1] = Bare
        /\ \A k \in 1..num : results'[k] = results[k]
    BY <1>5 DEF Begins
  <2>2. PICK t : t = log'
    OBVIOUS
  <2>3. Ok(t, results, num)
    BY <1>3, <1>5, <2>2 DEF Begins
  <2>4. Bare.check = "none"
    BY DEF Bare
  <2>5. ASSUME NEW n \in 1..num', results'[n].check # "none"
        PROVE  Of(t, "goal_check", n) # {}
    <3>1. n \in 1..num
      BY <1>0, <2>1, <2>4, <2>5
    <3> QED
      BY <2>1, <2>3, <2>5, <3>1
  <2> QED
    BY <2>1, <2>2, <2>4, <2>5
<1>6. CASE ChecksIt
  <2>1. phase' = "checked" /\ num' = num /\ \A k \in 1..num : k # num => results'[k] = results[k]
    BY <1>6 DEF ChecksIt
  <2>2. PICK t : t = log'
    OBVIOUS
  <2>3. PICK o : /\ results'[num].check = o.check
                 /\ \/ o.check = "none" /\ t = log
                    \/ Longer(log, t, "goal_check", num, o)
    BY <1>6, <2>2 DEF ChecksIt
  <2>4. Ok(t, results, num)
    BY <1>1, <1>3, <2>3
  <2>5. o.check # "none" => Of(t, "goal_check", num) # {}
    BY <2>3, OfGrows
  <2>6. ASSUME NEW n \in 1..num, results'[n].check # "none"
        PROVE  Of(t, "goal_check", n) # {}
    BY <2>1, <2>3, <2>4, <2>5, <2>6
  <2> QED
    BY <2>1, <2>2, <2>6
<1>7. CASE CostsIt
  <2>1. phase' = "gap" /\ num' = num /\ \A k \in 1..num : results'[k].check = results[k].check
    BY <1>7 DEF CostsIt
  <2>2. PICK t : t = log'
    OBVIOUS
  <2>3. t = log \/ \E o : Longer(log, t, "usage", num, o)
    BY <1>7, <2>2 DEF CostsIt
  <2>4. Ok(t, results, num)
    BY <1>1, <1>3, <2>3
  <2> QED
    BY <2>1, <2>2, <2>4
<1>8. CASE EndsIt
  <2>1. phase' = "hooks" /\ num' = num /\ results' = results
    BY <1>8 DEF EndsIt
  <2>2. PICK t : t = log'
    OBVIOUS
  <2>3. Ok(t, results, num)
    BY <1>3, <1>8, <2>2 DEF EndsIt
  <2> QED
    BY <2>1, <2>2, <2>3
<1>9. CASE Leaves
  <2>1. phase' = "down" /\ num' = num /\ results' = results
    BY <1>9 DEF Leaves
  <2>2. PICK t : t = log'
    OBVIOUS
  <2>3. Ok(t, results, num)
    BY <1>3, <1>9, <2>2 DEF Leaves
  <2> QED
    BY <2>1, <2>2, <2>3
<1> QED
  BY <1>4, <1>5, <1>6, <1>7, <1>8, <1>9, StepKinds

(* What the rounds cost, and what the log says they cost.                   *)
Usages(s) == {i \in DOMAIN s : s[i].ev = "usage"}
LogSum(s, x) == \E f : Sums(f, Len(s), Spent(s, Usages(s))) /\ x = f[Len(s)]
SpentInv == \E x \in Nat : CostSum(num, results, x) /\ LogSum(log, x)

(* Sums of functions that agree.                                            *)
LEMMA SumsOther ==
  ASSUME NEW N \in Nat, NEW f, NEW g, NEW q, Sums(f, N, g), \A n \in 1..N : q[n] = g[n]
  PROVE  Sums(f, N, q)
BY DEF Sums

(* One summand more.                                                        *)
LEMMA SumsLonger ==
  ASSUME NEW N \in Nat, NEW f, NEW g, NEW q, Sums(f, N, g),
         \A n \in 1..N : q[n] = g[n], \A n \in 1..(N + 1) : q[n] \in Nat
  PROVE  \E h : Sums(h, N + 1, q) /\ h[N + 1] = f[N] + q[N + 1]
<1>1. PICK M \in Nat : M = N + 1
  OBVIOUS
<1>2. PICK h : Sums(h, M, q)
  BY <1>1, SumsExist
<1>3. N <= M /\ N \in 0..N /\ M \in 1..M /\ M - 1 = N
  BY <1>1
<1>4. \A n \in 1..N : g[n] = q[n]
  OBVIOUS
<1>5. f[N] = h[N]
  BY <1>2, <1>3, <1>4, SumsAgree
<1>6. h[M] = h[M - 1] + q[M]
  BY <1>2, <1>3 DEF Sums
<1> QED
  BY <1>1, <1>2, <1>3, <1>5, <1>6

(* The costs of rounds, unchanged or with one round more.                   *)
LEMMA CostSumSame ==
  ASSUME NEW m \in Nat, NEW r, NEW q, NEW x, CostSum(m, r, x),
         \A k \in 1..m : q[k].cost = r[k].cost
  PROVE  CostSum(m, q, x)
<1>1. PICK a, b : a = [n \in 1..m |-> r[n].cost] /\ b = [n \in 1..m |-> q[n].cost]
  OBVIOUS
<1>2. PICK f : Sums(f, m, a) /\ x = f[m]
  BY <1>1 DEF CostSum
<1>3. \A n \in 1..m : b[n] = a[n]
  BY <1>1
<1>4. Sums(f, m, b)
  BY <1>2, <1>3, SumsOther
<1> QED
  BY <1>1, <1>2, <1>4 DEF CostSum

(* One more round.                                                         *)
LEMMA CostSumLonger ==
  ASSUME NEW m \in Nat, NEW r, NEW q, NEW x, CostSum(m, r, x),
         \A k \in 1..m : q[k].cost = r[k].cost,
         \A k \in 1..(m + 1) : q[k].cost \in Nat
  PROVE  CostSum(m + 1, q, x + q[m + 1].cost)
<1>1. PICK a, b : a = [n \in 1..m |-> r[n].cost] /\ b = [n \in 1..(m + 1) |-> q[n].cost]
  OBVIOUS
<1>2. PICK f : Sums(f, m, a) /\ x = f[m]
  BY <1>1 DEF CostSum
<1>3. (\A n \in 1..m : b[n] = a[n]) /\ \A n \in 1..(m + 1) : b[n] \in Nat
  BY <1>1
<1>4. PICK h : Sums(h, m + 1, b) /\ h[m + 1] = f[m] + b[m + 1]
  BY <1>2, <1>3, SumsLonger
<1>5. b[m + 1] = q[m + 1].cost
  BY <1>1
<1> QED
  BY <1>1, <1>2, <1>4, <1>5 DEF CostSum

(* A round that had cost nothing so far and now has its cost.               *)
LEMMA CostSumLast ==
  ASSUME NEW m \in Nat, m > 0, NEW r, NEW q, NEW x \in Nat, CostSum(m, r, x), r[m].cost = 0,
         \A k \in 1..m : k # m => q[k].cost = r[k].cost,
         \A k \in 1..m : q[k].cost \in Nat
  PROVE  CostSum(m, q, x + q[m].cost)
<1>1. PICK a : a = [n \in 1..m |-> r[n].cost]
  OBVIOUS
<1>2. PICK f : Sums(f, m, a) /\ x = f[m]
  BY <1>1 DEF CostSum
<1>3. PICK l \in Nat : m = l + 1
  <2>1. m - 1 \in Nat /\ m = (m - 1) + 1
    OBVIOUS
  <2> QED
    BY <2>1
<1>4. f[m] = f[m - 1] + a[m] /\ a[m] = 0 /\ f[m - 1] \in Nat
  BY <1>1, <1>2 DEF Sums
<1>5. x = f[l]
  BY <1>2, <1>3, <1>4
<1>6. PICK b : b = [n \in 1..l |-> r[n].cost]
  OBVIOUS
<1>7. Sums([n \in 0..l |-> f[n]], l, b)
  BY <1>1, <1>2, <1>3, <1>6 DEF Sums
<1>8. CostSum(l, r, x)
  <2>1. PICK h : h = [n \in 0..l |-> f[n]]
    OBVIOUS
  <2>2. h[l] = x /\ Sums(h, l, b)
    BY <1>5, <1>7, <2>1
  <2> QED
    BY <1>6, <2>2 DEF CostSum
<1>9. (\A k \in 1..l : q[k].cost = r[k].cost) /\ \A k \in 1..(l + 1) : q[k].cost \in Nat
  BY <1>3
<1>10. CostSum(l + 1, q, x + q[l + 1].cost)
  BY <1>8, <1>9, CostSumLonger
<1> QED
  BY <1>3, <1>10

(* One event more.                                                          *)
LEMMA LogSumLonger ==
  ASSUME NEW s \in Seq(Happening), NEW t \in Seq(Happening), NEW ev, NEW n, NEW o,
         Longer(s, t, ev, n, o), NEW x, LogSum(s, x)
  PROVE  LogSum(t, x + IF ev = "usage" THEN o.cost ELSE 0)
<1>1. PICK N \in Nat : N = Len(s) /\ DOMAIN s = 1..N /\ DOMAIN t = 1..(N + 1)
  BY DEF Longer
<1>2. Len(t) = N + 1
  BY <1>1
<1>3. /\ \A i \in 1..N : t[i] = s[i]
      /\ t[N + 1].ev = ev /\ t[N + 1].cost = o.cost
  BY <1>1 DEF Longer
<1>4. PICK a, b : a = Spent(s, Usages(s)) /\ b = Spent(t, Usages(t))
  OBVIOUS
<1>5. PICK f : Sums(f, N, a) /\ x = f[N]
  BY <1>1, <1>4 DEF LogSum
<1>6. \A i \in 1..N : b[i] = a[i]
  <2>1. \A i \in 1..N : i \in Usages(t) <=> i \in Usages(s)
    BY <1>1, <1>3 DEF Usages
  <2> QED
    BY <1>1, <1>2, <1>3, <1>4, <2>1 DEF Spent
<1>7. \A i \in 1..(N + 1) : b[i] \in Nat
  <2>1. \A i \in 1..(N + 1) : t[i] \in Happening
    BY <1>1
  <2>2. \A i \in 1..(N + 1) : t[i].cost \in Nat
    BY <2>1 DEF Happening
  <2> QED
    BY <1>2, <1>4, <2>2 DEF Spent
<1>8. PICK h : Sums(h, N + 1, b) /\ h[N + 1] = f[N] + b[N + 1]
  BY <1>5, <1>6, <1>7, SumsLonger
<1>9. b[N + 1] = IF ev = "usage" THEN o.cost ELSE 0
  <2>1. N + 1 \in Usages(t) <=> ev = "usage"
    BY <1>1, <1>3 DEF Usages
  <2> QED
    BY <1>2, <1>3, <1>4, <2>1 DEF Spent
<1> QED
  BY <1>2, <1>4, <1>5, <1>8, <1>9 DEF LogSum

(* The log says what the rounds cost.                                       *)
LEMMA SpentInvStep == FileInv /\ UsageInv /\ SpentInv /\ [Next]_vars => SpentInv'
<1> SUFFICES ASSUME FileInv, UsageInv, SpentInv, [Next]_vars PROVE SpentInv'
  OBVIOUS
<1>0. ServeTypes /\ ServeTypes'
  BY ServeTypeStep DEF FileInv
<1>1. num \in Nat /\ log \in Seq(Happening) /\ log' \in Seq(Happening)
  BY <1>0 DEF ServeTypes
<1>2. PICK x \in Nat : CostSum(num, results, x) /\ LogSum(log, x)
  BY DEF SpentInv
<1>3. PICK t, q : t = log' /\ q = results'
  OBVIOUS
<1>4. num' \in Nat /\ \A k \in 1..num' : q[k].cost \in Nat
  <2>1. results' \in Seq(Result) /\ Len(results') = num' /\ num' \in Nat
    BY <1>0 DEF ServeTypes
  <2>2. \A k \in 1..num' : q[k] \in Result
    BY <1>3, <2>1
  <2> QED
    BY <2>1, <2>2 DEF Result
<1>5. SUFFICES \E y \in Nat : CostSum(num', q, y) /\ LogSum(t, y)
  BY <1>3, Zenon DEF SpentInv, CostSum, LogSum, Spent, Usages
<1>6. ASSUME NEW ev, NEW n, NEW o, Longer(log, t, ev, n, o), ev # "usage"
      PROVE  LogSum(t, x)
  <2>1. LogSum(t, x + 0)
    BY <1>1, <1>2, <1>3, <1>6, LogSumLonger
  <2> QED
    BY <2>1, x + 0 = x
<1>7. CASE Stays
  BY <1>2, <1>3, <1>7 DEF Stays
<1>8. CASE Begins
  <2>1. num' = num + 1 /\ q[num + 1] = Bare /\ \A k \in 1..num : q[k] = results[k]
    BY <1>3, <1>8 DEF Begins
  <2>2. \A k \in 1..num : q[k].cost = results[k].cost
    BY <2>1
  <2>3. q[num + 1].cost = 0
    BY <2>1 DEF Bare
  <2>4. CostSum(num + 1, q, x + 0)
    BY <1>1, <1>2, <1>4, <2>1, <2>2, <2>3, CostSumLonger
  <2>5. LogSum(t, x)
    BY <1>3, <1>6, <1>8 DEF Begins
  <2> QED
    BY <2>1, <2>4, <2>5, x + 0 = x
<1>9. CASE ChecksIt
  <2>1. num' = num /\ \A k \in 1..num : q[k].cost = results[k].cost
    BY <1>3, <1>9 DEF ChecksIt
  <2>2. CostSum(num, q, x)
    BY <1>1, <1>2, <2>1, CostSumSame
  <2>3. LogSum(t, x)
    BY <1>2, <1>3, <1>6, <1>9 DEF ChecksIt
  <2> QED
    BY <2>1, <2>2, <2>3
<1>10. CASE CostsIt
  <2>1. phase = "hooks" /\ num' = num /\ num > 0
        /\ \A k \in 1..num : k # num => q[k].cost = results[k].cost
    BY <1>3, <1>10 DEF CostsIt
  <2>2. PICK c \in Nat : /\ q[num].cost = c
                         /\ \/ c = 0 /\ t = log
                            \/ \E o : o.cost = c /\ Longer(log, t, "usage", num, o)
    <3>1. PICK o \in Result : /\ q[num].cost = o.cost
                              /\ \/ o.cost = 0 /\ t = log
                                 \/ o.cost > 0 /\ Longer(log, t, "usage", num, o)
      BY <1>3, <1>10 DEF CostsIt
    <3>2. o.cost \in Nat
      BY DEF Result
    <3> QED
      BY <3>1, <3>2
  <2>3. results[num].cost = 0
    BY <2>1 DEF UsageInv
  <2>4. CostSum(num, q, x + c)
    BY <1>1, <1>2, <1>4, <2>1, <2>2, <2>3, CostSumLast
  <2>5. LogSum(t, x + c)
    <3>1. CASE c = 0 /\ t = log
      BY <1>2, <3>1, x + 0 = x
    <3>2. ASSUME NEW o, o.cost = c, Longer(log, t, "usage", num, o) PROVE LogSum(t, x + c)
      BY <1>1, <1>2, <1>3, <3>2, LogSumLonger
    <3> QED
      BY <2>2, <3>1, <3>2
  <2> QED
    BY <2>1, <2>4, <2>5, x + c \in Nat
<1>11. CASE EndsIt
  <2>1. num' = num /\ q = results /\ LogSum(t, x)
    BY <1>3, <1>6, <1>11 DEF EndsIt
  <2> QED
    BY <1>2, <2>1
<1>12. CASE Leaves
  <2>1. num' = num /\ q = results
    BY <1>3, <1>12 DEF Leaves
  <2>2. LogSum(t, x)
    BY <1>3, <1>6, <1>12 DEF Leaves
  <2> QED
    BY <1>2, <2>1, <2>2
<1> QED
  BY <1>7, <1>8, <1>9, <1>10, <1>11, <1>12, StepKinds

(* Before the first round nothing is spent.                                *)
LEMMA SpentInit == Init => UsageInv /\ SpentInv
<1> SUFFICES ASSUME Init PROVE UsageInv /\ SpentInv
  OBVIOUS
<1>1. PICK f : f = [n \in 0..0 |-> 0]
  OBVIOUS
<1>2. f \in [0..0 -> Nat] /\ f[0] = 0
  BY <1>1
<1>3. \A g : Sums(f, 0, g)
  BY <1>2 DEF Sums
<1>4. num = 0 /\ Len(log) = 0
  BY DEF Init
<1>5. CostSum(num, results, 0)
  BY <1>2, <1>3, <1>4 DEF CostSum
<1>6. LogSum(log, 0)
  BY <1>2, <1>3, <1>4 DEF LogSum
<1>7. UsageInv
  BY DEF Init, UsageInv
<1> QED
  BY <1>5, <1>6, <1>7 DEF SpentInv

(* The total of the first rounds is such a sum.                            *)
LEMMA TotalSums ==
  ASSUME ServeTypes, NEW m \in Nat, m <= num
  PROVE  CostSum(m, results, Total(m)) /\ Total(m) \in Nat
<1>1. \A n \in 1..m : results[n].cost \in Nat
  <2>1. \A n \in 1..m : results[n] \in Result
    BY DEF ServeTypes
  <2> QED
    BY <2>1 DEF Result
<1>2. PICK c : c = CHOOSE h : h = [i \in 0..m |-> IF i = 0 THEN 0 ELSE h[i - 1] + results[i].cost]
  OBVIOUS
<1>3. Total(m) = c[m]
  BY <1>2 DEF Total
<1> QED
  BY <1>1, <1>2, <1>3, TotalIs

(* No step makes a round cheaper than it was, or the total smaller.        *)
LEMMA TotalGrows ==
  ASSUME FileInv, UsageInv, [Next]_vars, NEW m \in Nat, m <= num
  PROVE  Total(m)' >= Total(m) /\ Total(m) \in Nat /\ Total(m)' \in Nat
<1>0. ServeTypes /\ ServeTypes' /\ num \in Nat
  BY ServeTypeStep DEF FileInv, ServeTypes
<1>1. PICK r, q : r = results /\ q = results'
  OBVIOUS
<1>2. /\ num' \in Nat /\ num <= num'
      /\ \A n \in 1..num : r[n].cost \in Nat
      /\ \A n \in 1..num' : q[n].cost \in Nat
  <2>1. num' \in Nat
    BY <1>0 DEF ServeTypes
  <2>2. num <= num'
    BY <1>0, <2>1, StepKinds DEF Stays, Begins, ChecksIt, CostsIt, EndsIt, Leaves
  <2>3. \A n \in 1..num : r[n] \in Result
    BY <1>0, <1>1 DEF ServeTypes
  <2>4. \A n \in 1..num' : q[n] \in Result
    BY <1>0, <1>1 DEF ServeTypes
  <2> QED
    BY <2>1, <2>2, <2>3, <2>4 DEF Result
<1>3. ASSUME NEW n \in 1..num PROVE r[n].cost <= q[n].cost
  <2>1. r[n].cost \in Nat /\ q[n].cost \in Nat
    BY <1>0, <1>2
  <2>2. CASE Stays \/ EndsIt \/ Leaves
    BY <1>1, <2>1, <2>2 DEF Stays, EndsIt, Leaves
  <2>3. CASE Begins
    BY <1>1, <2>1, <2>3 DEF Begins
  <2>4. CASE ChecksIt
    BY <1>1, <2>1, <2>4 DEF ChecksIt
  <2>5. CASE CostsIt
    <3>1. n # num => q[n] = r[n]
      BY <1>1, <2>5 DEF CostsIt
    <3>2. r[num].cost = 0
      BY <1>1, <2>5 DEF CostsIt, UsageInv
    <3> QED
      BY <2>1, <3>1, <3>2
  <2> QED
    BY <2>2, <2>3, <2>4, <2>5, StepKinds
<1>4. PICK c, d : /\ c = CHOOSE h : h = [i \in 0..m |-> IF i = 0 THEN 0 ELSE h[i - 1] + r[i].cost]
                  /\ d = CHOOSE h : h = [i \in 0..m |-> IF i = 0 THEN 0 ELSE h[i - 1] + q[i].cost]
  OBVIOUS
<1>5. \A n \in 1..m : n \in 1..num /\ n \in 1..num'
  BY <1>0, <1>2
<1>6. CostSum(m, r, c[m]) /\ CostSum(m, q, d[m]) /\ c[m] \in Nat /\ d[m] \in Nat
  BY <1>2, <1>4, <1>5, TotalIs
<1>7. c[m] <= d[m]
  BY <1>2, <1>3, <1>5, <1>6, CostSumGrows
<1>8. Total(m) = c[m]
  BY <1>1, <1>4 DEF Total
<1>9. Total(m)' = d[m]
  BY <1>1, <1>4 DEF Total
<1> QED
  BY <1>6, <1>7, <1>8, <1>9

(* What spend_ceiling adds up is what the rounds cost.                      *)
LEMMA CrossedTells ==
  ASSUME FileInv, UsageInv, SpentInv
  PROVE  SC!Crossed(log, SC!AddendsThrough(log, num)) <=> Total(num) >= CEILING
<1>0. ServeTypes /\ Numbered
  BY DEF FileInv
<1>1. num \in Nat /\ log \in Seq(Happening) /\ Len(log) \in Nat /\ DOMAIN log = 1..Len(log)
  BY <1>0 DEF ServeTypes
<1>2. PICK x \in Nat : CostSum(num, results, x) /\ LogSum(log, x)
  BY DEF SpentInv
<1>3. Total(num) = x
  BY <1>0, <1>1, <1>2, TotalSums, CostSumIs
<1>4. PICK A, B : A = SC!AddendsThrough(log, num) /\ B = Usages(log)
  OBVIOUS
<1>5. A = B
  <2>1. \A i : i \in A <=> /\ i \in DOMAIN log /\ log[i].ev = "usage"
                           /\ log[i].n \in Numbers(log, "round_end")
                           /\ log[i].n <= num /\ log[i].cost > 0
    BY <1>4, SpendNames, Zenon DEF SC!AddendsThrough, SC!PositiveCost
  <2>2. \A i : i \in B <=> i \in DOMAIN log /\ log[i].ev = "usage"
    BY <1>4 DEF Usages
  <2>3. \A i \in DOMAIN log : log[i].ev = "usage" =>
            /\ log[i].n \in Numbers(log, "round_end") /\ log[i].n <= num /\ log[i].cost > 0
    <3>1. \A n \in Numbers(log, "round_end") : n <= num
      BY <1>0, <1>1 DEF Numbered
    <3> QED
      BY <3>1 DEF UsageInv
  <2> QED
    BY <2>1, <2>2, <2>3
<1>6. PICK f : Sums(f, Len(log), Spent(log, A)) /\ (SC!Crossed(log, A) <=> f[Len(log)] >= CEILING)
  BY <1>1, CrossedIs
<1>7. PICK h : Sums(h, Len(log), Spent(log, B)) /\ x = h[Len(log)]
  BY <1>2, <1>4 DEF LogSum
<1>8. \A n \in 0..Len(log) : f[n] = h[n]
  <2>1. PICK g, N : g = Spent(log, A) /\ N = Len(log)
    OBVIOUS
  <2>2. Sums(f, N, g) /\ Sums(h, N, g) /\ N \in Nat /\ N <= N
    BY <1>1, <1>5, <1>6, <1>7, <2>1
  <2> QED
    BY <2>1, <2>2, SumsAgree
<1>9. f[Len(log)] = x
  BY <1>1, <1>7, <1>8
<1> QED
  BY <1>3, <1>4, <1>6, <1>9

(* The log forgets no event.                                                *)
LEMMA LogGrows ==
  ASSUME FileInv, [Next]_vars
  PROVE  /\ Numbers(log, "round_end") \subseteq Numbers(log', "round_end")
         /\ Kinds(log) \subseteq Kinds(log')
<1>1. PICK t : t = log'
  OBVIOUS
<1>2. t = log \/ \E ev, n, o : Longer(log, t, ev, n, o)
  <2>1. CASE Stays
    BY <1>1, <2>1 DEF Stays
  <2>2. CASE Begins
    BY <1>1, <2>2 DEF Begins
  <2>3. CASE ChecksIt
    BY <1>1, <2>3 DEF ChecksIt
  <2>4. CASE CostsIt
    BY <1>1, <2>4 DEF CostsIt
  <2>5. CASE EndsIt
    BY <1>1, <2>5 DEF EndsIt
  <2>6. CASE Leaves
    BY <1>1, <2>6 DEF Leaves
  <2> QED
    BY <2>1, <2>2, <2>3, <2>4, <2>5, <2>6, StepKinds
<1>3. ASSUME NEW ev, NEW n, NEW o, Longer(log, t, ev, n, o)
      PROVE  Numbers(log, "round_end") \subseteq Numbers(t, "round_end") /\ Kinds(log) \subseteq Kinds(t)
  BY <1>3, NumbersGrow
<1> QED
  BY <1>1, <1>2, <1>3

(* Only the turn of the month moves the place the new file begins at.      *)
LEMMA OldStays ==
  ASSUME FileInv, [Next]_vars, old <= Len(log)
  PROVE  old' <= Len(log')
<1>0. ServeTypes /\ ServeTypes'
  BY ServeTypeStep DEF FileInv
<1>1. PICK a, b : a = Len(log) /\ b = Len(log')
  OBVIOUS
<1>2. /\ a \in Nat /\ b \in Nat /\ old \in Nat
      /\ DOMAIN log = 1..a /\ DOMAIN log' = 1..b
  <2>1. PICK S : S = Happening
    OBVIOUS
  <2>2. log \in Seq(S) /\ log' \in Seq(S) /\ old \in Nat
    BY <1>0, <2>1 DEF ServeTypes
  <2> QED
    BY <1>1, <2>2
<1>3. a <= b
  <2>1. log' = log \/ \E ev, n, o : Longer(log, log', ev, n, o)
    BY StepKinds DEF Stays, Begins, ChecksIt, CostsIt, EndsIt, Leaves
  <2>2. ASSUME NEW ev, NEW n, NEW o, Longer(log, log', ev, n, o) PROVE a <= b
    <3>1. 1..b = 1..(a + 1)
      BY <1>1, <1>2, <2>2 DEF Longer
    <3>2. a + 1 \in 1..b
      BY <1>2, <3>1
    <3> QED
      BY <1>2, <3>2
  <2> QED
    BY <1>1, <1>2, <2>1, <2>2
<1>4. old' = old \/ (old' = Len(log) /\ log' = log)
  <2>1. CASE ServeStart \/ ServeCrash \/ PidReused \/ RoundEnd \/ MonthTurns
    BY <2>1, Zenon DEF ServeStart, ServeCrash, PidReused, RoundEnd, MonthTurns, record
  <2>2. CASE ServeTop \/ GoalCheck \/ HooksEnd \/ ServeGivesUp
    BY <1>0, <2>2, ServeTopEffect, GoalCheckEffect, HooksEndEffect, GivesUpEffect
       DEF RoundBegins, ServeEnds, RoundChecked, UsageRecorded
  <2>3. CASE Tick \/ UNCHANGED vars
    BY <2>3, Zenon DEF Tick, vars, record
  <2>4. CASE ScriptStep
    BY <2>4, ScriptStepEffect
  <2> QED
    BY <2>1, <2>2, <2>3, <2>4 DEF Next, ScriptStep
<1> QED
  BY <1>1, <1>2, <1>3, <1>4

----------------------------------------------------------------------------
(* A write and its cause. *)

Kept(w) == Settled(w.n) /\ Earned(w)

(* What a script has decided on: between_rounds looks at its queue later.   *)
Decided(w) ==
    \/ Kept(w)
    \/ Settled(w.n) /\ Ended(w.n) /\ recipe = "between_rounds" /\ w.what = "swap"

(* What the preflight of the two scripts with a fixed round has seen.       *)
Checked ==
    /\ recipe = "tool_allow" => conf.command = "tools" /\ conf.rounds = 1
    /\ recipe = "rsi_exam" => conf.rounds = 2 /\ ~conf.stop_file

EarnedInv ==
    /\ pc \in {"exam", "write", "swap"} => Decided(todo)
    /\ \A w \in writes : Kept(w)
    /\ pc \notin {"off", "done"} => Checked
    /\ old <= Len(log)

(* The cause of a write does not go away.                                  *)
LEMMA KeptStable ==
  ASSUME FileInv, UsageInv, [Next]_vars, NEW w
  PROVE  (Kept(w) => Kept(w)') /\ (Decided(w) => Decided(w)')
<1>1. UNCHANGED <<recipe, conf>>
  BY ConfEffect
<1>2. Numbers(log, "round_end") \subseteq Numbers(log', "round_end")
  BY LogGrows
<1>3. ASSUME Settled(w.n)
      PROVE  /\ Settled(w.n)'
             /\ results'[w.n].check = results[w.n].check
             /\ results'[w.n].value = results[w.n].value
  BY <1>3, ResultsKept
<1>4. ASSUME Settled(w.n), w.n = 2
      PROVE  /\ results'[1].check = results[1].check /\ results'[1].value = results[1].value
             /\ results'[2].check = results[2].check /\ results'[2].value = results[2].value
  <2>1. Settled(1) /\ Settled(2)
    BY <1>4 DEF Settled, FileInv, ServeTypes
  <2> QED
    BY <2>1, ResultsKept
<1>5. ASSUME Settled(w.n), Total(w.n) >= CEILING
      PROVE  Total(w.n)' >= CEILING
  <2>1. w.n \in Nat /\ w.n <= num
    BY <1>5 DEF Settled, FileInv, ServeTypes
  <2>2. Total(w.n)' >= Total(w.n) /\ Total(w.n) \in Nat /\ Total(w.n)' \in Nat
    BY <2>1, TotalGrows
  <2> QED
    BY <1>5, <2>2, GapAssumption
<1>6. Ended(w.n) => Ended(w.n)'
  BY <1>2 DEF Ended
<1>7. ASSUME Kept(w) PROVE Kept(w)'
  <2>1. Settled(w.n) /\ Earned(w)
    BY <1>7 DEF Kept
  <2>2. PICK a, b : a = Numbers(log, "round_end") /\ b = Numbers(log', "round_end")
    OBVIOUS
  <2>3. Earned(w)'
    BY <1>1, <1>2, <1>3, <1>4, <1>5, <2>1, <2>2 DEF Earned, Ended
  <2> QED
    BY <1>3, <2>1, <2>3 DEF Kept
<1> QED
  BY <1>1, <1>3, <1>6, <1>7 DEF Decided

(* A script that goes on has passed its preflight.                         *)
LEMMA StartAdmits ==
  ASSUME Start
  PROVE  pc' \notin {"off", "done"} => Checked
<1>1. PICK v : v = View
  OBVIOUS
<1>2. v.conf = conf
  BY <1>1, ViewFields
<1>3. pc' = IF Refuses THEN "done" ELSE IF Latches THEN "latch" ELSE "poll"
  BY DEF Start
<1>4. ASSUME recipe = "tool_allow", ~(conf.command = "tools" /\ conf.rounds = 1) PROVE Refuses
  <2>1. TA!Refuses(v)
    BY <1>2, <1>4 DEF TA!Refuses, TA!TomlErrors, TA!Command
  <2> QED
    BY <1>1, <1>4, <2>1 DEF Refuses
<1>5. ASSUME recipe = "rsi_exam", ~(conf.rounds = 2 /\ ~conf.stop_file) PROVE Refuses
  <2>1. RE!Refuses(v)
    BY <1>2, <1>5 DEF RE!Refuses
  <2> QED
    BY <1>1, <1>5, <2>1 DEF Refuses
<1> QED
  BY <1>3, <1>4, <1>5 DEF Checked

(* Only a start brings a script back.                                      *)
LEMMA StartsAgain ==
  ASSUME FileInv, [Next]_vars, pc' \notin {"off", "done"}
  PROVE  pc \notin {"off", "done"} \/ Start
<1>1. CASE ServeStep
  BY <1>1, ServeStepEffect DEF FileInv
<1>2. CASE EditsConfig \/ Queues \/ Latch \/ Finish \/ Examined \/ ScriptDies \/ Tick
  BY <1>2 DEF EditsConfig, Queues, Latch, Finish, Examined, ScriptDies, Tick
<1>3. CASE Poll
  BY <1>3 DEF Poll
<1>4. CASE DoWrite
  BY <1>4 DEF DoWrite
<1>5. CASE Swap
  BY <1>5 DEF Swap
<1>6. CASE UNCHANGED vars
  BY <1>6 DEF vars
<1> QED
  BY <1>1, <1>2, <1>3, <1>4, <1>5, <1>6 DEF Next, ServeStep

(* An event of the goal check tells what its round left.                    *)
LEMMA CheckTells ==
  ASSUME LogAgrees, NEW i \in DOMAIN log, log[i].ev = "goal_check"
  PROVE  /\ Settled(log[i].n) /\ log[i].check = results[log[i].n].check /\ log[i].check # "none"
         /\ log[i].value = results[log[i].n].value
BY DEF LogAgrees, Agree, Settled

(* A round whose end is in the log is settled.                             *)
LEMMA EndedIsSettled ==
  ASSUME ServeTypes, Numbered, NEW n \in Numbers(log, "round_end")
  PROVE  Settled(n)
BY DEF Numbered, Settled

(* The newest of a set of events of the log is one of them.                 *)
LEMMA LatestEvent ==
  ASSUME ServeTypes, NEW c, c \subseteq DOMAIN log, c # {}
  PROVE  Latest(c) \in c
<1>1. PICK N \in Nat : N = Len(log) /\ DOMAIN log = 1..N
  <2>1. PICK S : S = Happening
    OBVIOUS
  <2>2. log \in Seq(S)
    BY <2>1 DEF ServeTypes
  <2> QED
    BY <2>2
<1>2. c \in SUBSET (1..N)
  BY <1>1
<1> QED
  BY <1>2, LatestIn

(* The events asked for are events of the log.                             *)
LEMMA OfLog ==
  ASSUME NEW ev, NEW n
  PROVE  /\ Of(log, ev, n) \subseteq DOMAIN log
         /\ \A i \in Of(log, ev, n) : log[i].ev = ev /\ log[i].n = n
BY DEF Of

(* Two equal red checks that repeat_fail reads were left by the two rounds. *)
LEMMA FailTells ==
  ASSUME ServeTypes, LogAgrees, RF!StopDecision(View)
  PROVE  /\ results[1].check = "red" /\ results[2].check = "red"
         /\ results[1].value = results[2].value
<1>1. PICK v : v = View
  OBVIOUS
<1>2. v.log = log
  BY <1>1, ViewFields
<1>3. PICK first, second : first = RF!RoundCheck(log, 1) /\ second = RF!RoundCheck(log, 2)
  OBVIOUS
<1>4. /\ first.check = "red" /\ second.check = "red"
      /\ RF!FingerprintsMatch(first, second)
  BY <1>1, <1>2, <1>3 DEF RF!StopDecision, RF!IsRed
<1>5. first.value = second.value
  BY <1>4 DEF RF!FingerprintsMatch, RF!Fingerprint
<1>6. ASSUME NEW n, NEW e, e = RF!RoundCheck(log, n), e.check = "red"
      PROVE  results[n].check = e.check /\ results[n].value = e.value
  <2>1. PICK c : c = {i \in Of(log, "goal_check", n) : log[i].check # "skipped"}
    OBVIOUS
  <2>2. c \subseteq DOMAIN log /\ \A i \in c : log[i].ev = "goal_check" /\ log[i].n = n
    BY <2>1, OfLog
  <2>3. e = IF c = {} THEN [ev |-> "goal_check", n |-> n, check |-> "none", value |-> 0]
            ELSE log[Latest(c)]
    BY <1>6, <2>1, FailNames, Zenon DEF RF!RoundCheck, RF!LastOf
  <2>4. c # {}
    <3>1. c = {} => e.check = "none"
      BY <2>3
    <3> QED
      BY <1>6, <3>1
  <2>5. PICK i \in c : i = Latest(c)
    BY <2>2, <2>4, LatestEvent
  <2>6. e = log[i]
    BY <2>3, <2>4, <2>5
  <2> QED
    BY <2>2, <2>6, CheckTells
<1>7. results[1].check = first.check /\ results[1].value = first.value
  BY <1>3, <1>4, <1>6
<1>8. results[2].check = second.check /\ results[2].value = second.value
  BY <1>3, <1>4, <1>6
<1> QED
  BY <1>4, <1>5, <1>7, <1>8

(* A red check that serial_discard reads was left by the round.            *)
LEMMA DiscardTells ==
  ASSUME ServeTypes, LogAgrees, NEW n, SD!CheckState(log, n) = "red"
  PROVE  results[n].check = "red"
<1>1. PICK c : c = {i \in Of(log, "goal_check", n) : log[i].check # "skipped"}
  OBVIOUS
<1>2. c \subseteq DOMAIN log /\ \A i \in c : log[i].ev = "goal_check" /\ log[i].n = n
  BY <1>1, OfLog
<1>3. PICK e : e = IF c = {} THEN [check |-> "missing"] ELSE log[Latest(c)]
  OBVIOUS
<1>4. e.check = "red"
  BY <1>1, <1>3, DiscardNames, Zenon DEF SD!CheckState, SD!LastOf
<1>5. c # {}
  <2>1. c = {} => e.check = "missing"
    BY <1>3
  <2> QED
    BY <1>4, <2>1
<1>6. PICK i \in c : i = Latest(c)
  BY <1>2, <1>5, LatestEvent
<1> QED
  BY <1>2, <1>3, <1>4, <1>5, <1>6, CheckTells

(* A value that karpathy reads was left by the round.                      *)
LEMMA KarpathyTells ==
  ASSUME ServeTypes, LogAgrees, NEW n, NEW x \in {1, 2}, KA!RoundValue(log, n) = x
  PROVE  results[n].value = x
<1>1. PICK c : c = Of(log, "goal_check", n)
  OBVIOUS
<1>2. c \subseteq DOMAIN log /\ \A i \in c : log[i].ev = "goal_check" /\ log[i].n = n
  BY <1>1, OfLog
<1>3. PICK e : e = IF c = {} THEN [value |-> 0] ELSE log[Latest(c)]
  OBVIOUS
<1>4. e.value = x
  BY <1>1, <1>3, KarpathyNames, Zenon DEF KA!RoundValue, KA!LastOf
<1>5. c # {}
  <2>1. c = {} => e.value = 0
    BY <1>3
  <2> QED
    BY <1>4, <2>1
<1>6. PICK i \in c : i = Latest(c)
  BY <1>2, <1>5, LatestEvent
<1> QED
  BY <1>2, <1>3, <1>4, <1>5, <1>6, CheckTells

(* A check that ace makes a bullet of was left by the round.               *)
LEMMA BulletTells ==
  ASSUME ServeTypes, LogAgrees, NEW n, CW!BulletFromCheck(log, n)
  PROVE  results[n].check \in {"red", "green"} /\ results[n].value # 0
<1>1. PICK c : c = Of(log, "goal_check", n)
  OBVIOUS
<1>2. c \subseteq DOMAIN log /\ \A i \in c : log[i].ev = "goal_check" /\ log[i].n = n
  BY <1>1, OfLog
<1>3. PICK e : e = IF c = {} THEN [check |-> "none", value |-> 0] ELSE log[Latest(c)]
  OBVIOUS
<1>4. e.check \in {"red", "green"} /\ e.value # 0
  BY <1>1, <1>3, CourseNames, Zenon DEF CW!BulletFromCheck, CW!LastOf
<1>5. c # {}
  <2>1. c = {} => e.value = 0
    BY <1>3
  <2> QED
    BY <1>4, <2>1
<1>6. PICK i \in c : i = Latest(c)
  BY <1>2, <1>5, LatestEvent
<1> QED
  BY <1>2, <1>3, <1>4, <1>5, <1>6, CheckTells

(* A round that ralph is to stop after was green.                          *)
LEMMA RalphTells ==
  ASSUME ServeTypes, Numbered, LogAgrees, NEW n \in RalphDue
  PROVE  results[n].check = "green" /\ Settled(n)
<1>1. /\ n \in Numbers(log, "round_end")
      /\ \A i \in Of(log, "goal_check", n) : log[i].check = "green"
      /\ Of(log, "goal_check", n) # {}
  BY RalphDecision
<1>2. PICK i \in Of(log, "goal_check", n) : log[i].check = "green"
  BY <1>1
<1>3. i \in DOMAIN log /\ log[i].ev = "goal_check" /\ log[i].n = n
  BY OfLog
<1> QED
  BY <1>1, <1>2, <1>3, CheckTells, EndedIsSettled

(* The total as an operator of the costs alone. *)
SumTo(r, n) ==
    LET sum[i \in 0..n] == IF i = 0 THEN 0 ELSE sum[i - 1] + r[i].cost
    IN  sum[n]

(* A decision is the same under another name.                              *)
LEMMA DecidedSame ==
  ASSUME NEW t, todo' = t, Decided(t)'
  PROVE  Decided(todo)'
<1>1. Total(t.n)' = SumTo(results', t.n)
  BY DEF Total, SumTo
<1>2. Total(todo.n)' = SumTo(results', todo'.n)
  BY DEF Total, SumTo
<1>3. Total(todo.n)' = Total(t.n)'
  BY <1>1, <1>2
<1>4. Ended(todo.n)' <=> Ended(t.n)'
  BY DEF Ended
<1>5. Earned(todo)' <=> Earned(t)'
  BY <1>3, <1>4 DEF Earned
<1>6. Settled(todo.n)' <=> Settled(t.n)'
  BY DEF Settled
<1> QED
  BY <1>4, <1>5, <1>6 DEF Decided, Kept

(* What a poll decides on is decided in the state it leaves.               *)
LEMMA PollDecided ==
  ASSUME FileInv, UsageInv, Poll, NEW t, todo' = t, Decided(t)
  PROVE  Decided(todo)'
<1>1. Decided(t)'
  BY KeptStable DEF Next
<1> QED
  BY <1>1, DecidedSame

(* The round of a write, as far as the rounds and the log tell.            *)
LEMMA EndedParts ==
  ASSUME ServeTypes, Numbered, NEW what, NEW n \in Numbers(log, "round_end"),
         NEW w, w = Write(what, n)
  PROVE  w.what = what /\ w.n = n /\ Settled(w.n) /\ Ended(w.n) /\ Ended(n)
BY EndedIsSettled, WriteParts DEF Ended

(* spend_ceiling stops after the newest round, when the costs are too high. *)
LEMMA SpendTells ==
  ASSUME FileInv, UsageInv, SpentInv, recipe = "spend_ceiling", ~SC!Finished(View),
         NEW n \in Pending, SC!StopDecision(n, View)
  PROVE  n \in Numbers(log, "round_end") /\ Total(n) >= CEILING
<1>0. ServeTypes /\ Identity /\ Numbered /\ num \in Nat
  BY DEF FileInv, ServeTypes
<1>1. GapSees(n)
  BY <1>0, SpendDecision
<1>2. n \in 1..num /\ n + 1 \notin 1..num
  BY <1>0, <1>1 DEF GapSees, Numbered
<1>3. n = num
  BY <1>0, <1>2
<1>4. SC!Crossed(View.log, SC!AddendsThrough(View.log, n))
  BY DEF SC!StopDecision
<1>5. SC!Crossed(log, SC!AddendsThrough(log, num))
  BY <1>3, <1>4, ViewFields
<1> QED
  BY <1>1, <1>3, <1>5, CrossedTells DEF GapSees

(* A check that longhorizon reads was made, and left by the round.          *)
LEMMA LongTells ==
  ASSUME ServeTypes, LogAgrees, NEW i \in DOMAIN log, log[i].ev = "goal_check"
  PROVE  /\ Settled(log[i].n)
         /\ log[i].check = "green" => results[log[i].n].check = "green"
         /\ log[i].check # "green" => results[log[i].n].check \in {"red", "skipped"}
<1>1. PICK e : e = log[i]
  OBVIOUS
<1>2. Settled(e.n) /\ e.check = results[e.n].check /\ e.check # "none"
  BY <1>1, CheckTells
<1>3. e \in Happening
  <2>1. PICK S : S = Happening
    OBVIOUS
  <2>2. e \in S
    BY <1>1, <2>1 DEF ServeTypes
  <2> QED
    BY <2>1, <2>2
<1>4. e.check \in {"none", "skipped", "red", "green"}
  BY <1>3 DEF Happening, Checks
<1> QED
  BY <1>1, <1>2, <1>4

(* Whatever a poll decides to write has its cause.                         *)
LEMMA PollKeeps ==
  ASSUME FileInv, LogAgrees, UsageInv, SpentInv, Checked, old <= Len(log), Poll
  PROVE  pc' = "poll" \/ Decided(todo)'
<1>0. /\ ServeTypes /\ Identity /\ Numbered /\ seen \in Nat /\ recipe \in AllRecipes
      /\ log \in Seq(Happening)
  BY OuterLoopAssumption DEF FileInv, ScriptTypes, ServeTypes
<1>a. ~Finished
  BY DEF Poll
<1>b. PICK t : t = todo'
  OBVIOUS
<1> SUFFICES ASSUME pc' # "poll" PROVE Decided(t)
  BY <1>b, PollDecided
<1>1. CASE recipe = "spend_ceiling"
  <2>1. ~SC!Finished(View)
    BY <1>a, <1>1 DEF Finished
  <2>2. PICK n \in Pending : SC!StopDecision(n, View) /\ t = Write("stop", n)
    BY <1>0, <1>1, <1>b, SpendPass
  <2>3. n \in Numbers(log, "round_end") /\ Total(n) >= CEILING
    BY <1>1, <2>1, <2>2, SpendTells
  <2>4. t.what = "stop" /\ t.n = n /\ Settled(t.n) /\ Ended(t.n)
    BY <1>0, <2>2, <2>3, EndedParts
  <2> QED
    BY <1>1, <2>3, <2>4 DEF Decided, Kept, Earned
<1>2. CASE recipe = "tool_allow"
  <2>1. PICK n : n = 1 /\ n \in Numbers(log, "round_end") /\ t = Write("append", n)
    BY <1>0, <1>2, <1>b, ToolPoll DEF GapSees
  <2>2. t.what = "append" /\ t.n = n /\ Settled(t.n) /\ Ended(n)
    BY <1>0, <2>1, EndedParts
  <2> QED
    BY <1>2, <2>1, <2>2 DEF Decided, Kept, Earned, Checked
<1>3. CASE recipe = "repeat_fail"
  <2>1. ~RF!Finished(View)
    BY <1>a, <1>3 DEF Finished
  <2>2. PICK n : n = 2 /\ n \in FailNew /\ RF!StopDecision(View) /\ t = Write("stop", n)
    BY <1>3, <1>b, FailPass
  <2>3. n \in Numbers(log, "round_end")
    BY <1>0, <1>3, <2>1, <2>2, FailDecision DEF GapSees
  <2>4. t.what = "stop" /\ t.n = n /\ Settled(t.n) /\ Ended(t.n)
    BY <1>0, <2>2, <2>3, EndedParts
  <2>5. /\ results[1].check = "red" /\ results[2].check = "red"
        /\ results[1].value = results[2].value
    BY <1>0, <2>2, FailTells
  <2> QED
    BY <1>3, <2>2, <2>4, <2>5 DEF Decided, Kept, Earned
<1>4. CASE recipe = "rsi_exam"
  <2>1. PICK n : n = 2 /\ n \in Numbers(log, "round_end") /\ t = Write("score", n)
    BY <1>4, <1>b, ExamPoll
  <2>2. t.what = "score" /\ t.n = n /\ Settled(t.n) /\ Ended(n)
    BY <1>0, <2>1, EndedParts
  <2> QED
    BY <1>4, <2>1, <2>2 DEF Decided, Kept, Earned, Checked
<1>5. CASE recipe = "serial_discard"
  <2>1. PICK n : GapSees(n) /\ SD!CheckState(log, n) = "red" /\ t = Write("no_merge", n)
    BY <1>0, <1>5, <1>b, DiscardPoll
  <2>2. t.what = "no_merge" /\ t.n = n /\ Settled(t.n) /\ Ended(t.n)
    BY <1>0, <2>1, EndedParts DEF GapSees
  <2>3. results[n].check = "red"
    BY <1>0, <2>1, DiscardTells
  <2> QED
    BY <1>5, <2>2, <2>3 DEF Decided, Kept, Earned
<1>6. CASE recipe = "karpathy"
  <2>1. \/ \E n : /\ n = 1 /\ t = Write("discard", n) /\ n \in Numbers(log, "round_end")
                  /\ KA!RoundValue(log, n) = 1
        \/ \E n : /\ n = 2 /\ t = Write("keep", n) /\ n \in Numbers(log, "round_end")
                  /\ KA!RoundValue(log, n) = 2
    BY <1>6, <1>b, KarpathyPoll
  <2>2. ASSUME NEW n, n = 1, t = Write("discard", n), n \in Numbers(log, "round_end"),
               KA!RoundValue(log, n) = 1
        PROVE  Decided(t)
    <3>1. t.what = "discard" /\ t.n = n /\ Settled(t.n) /\ Ended(t.n)
      BY <1>0, <2>2, EndedParts
    <3>2. results[n].value = 1
      BY <1>0, <2>2, KarpathyTells
    <3> QED
      BY <1>6, <2>2, <3>1, <3>2 DEF Decided, Kept, Earned
  <2>3. ASSUME NEW n, n = 2, t = Write("keep", n), n \in Numbers(log, "round_end"),
               KA!RoundValue(log, n) = 2
        PROVE  Decided(t)
    <3>1. t.what = "keep" /\ t.n = n /\ Settled(t.n) /\ Ended(t.n)
      BY <1>0, <2>3, EndedParts
    <3>2. results[n].value = 2
      BY <1>0, <2>3, KarpathyTells
    <3> QED
      BY <1>6, <2>3, <3>1, <3>2 DEF Decided, Kept, Earned
  <2> QED
    BY <2>1, <2>2, <2>3
<1>7. CASE recipe = "ace"
  <2>1. PICK n : /\ n = 1 /\ t = Write("append", n) /\ n \in Numbers(log, "round_end")
                 /\ CW!BulletFromCheck(log, n)
    BY <1>7, <1>b, AcePoll
  <2>2. t.what = "append" /\ t.n = n /\ Settled(t.n) /\ Ended(n)
    BY <1>0, <2>1, EndedParts
  <2>3. results[n].check \in {"red", "green"} /\ results[n].value # 0
    BY <1>0, <2>1, BulletTells
  <2> QED
    BY <1>7, <2>1, <2>2, <2>3 DEF Decided, Kept, Earned
<1>8. CASE recipe = "rsi_agent"
  <2>1. PICK n : /\ n = 1 /\ t = Write("append", n) /\ n \in Numbers(log, "round_end")
                 /\ conf.queue = "good"
    BY <1>8, <1>b, RsiPoll
  <2>2. t.what = "append" /\ t.n = n /\ Settled(t.n) /\ Ended(n)
    BY <1>0, <2>1, EndedParts
  <2> QED
    BY <1>8, <2>1, <2>2 DEF Decided, Kept, Earned
<1>9. CASE recipe = "ralph"
  <2>1. PICK n \in RalphDue : t = Write("stop", n)
    BY <1>9, <1>b, RalphPass
  <2>2. results[n].check = "green" /\ n \in Numbers(log, "round_end")
    BY <1>0, RalphTells, RalphDecision
  <2>3. t.what = "stop" /\ t.n = n /\ Settled(t.n) /\ Ended(t.n)
    BY <1>0, <2>1, <2>2, EndedParts
  <2> QED
    BY <1>9, <2>2, <2>3 DEF Decided, Kept, Earned
<1>10. CASE recipe = "longhorizon"
  <2>1. PICK i \in DOMAIN log :
            /\ log[i].ev = "goal_check"
            /\ \/ log[i].check # "green" /\ t = Write("retry", log[i].n)
               \/ log[i].check = "green" /\ t = Write("append", log[i].n)
    BY <1>0, <1>10, <1>b, LongPoll
  <2>2. PICK n : n = log[i].n
    OBVIOUS
  <2>3. /\ Settled(n)
        /\ \/ results[n].check \in {"red", "skipped"} /\ t = Write("retry", n)
           \/ results[n].check = "green" /\ t = Write("append", n)
    BY <1>0, <2>1, <2>2, LongTells
  <2>4. t.n = n /\ Settled(t.n)
        /\ \/ results[n].check \in {"red", "skipped"} /\ t.what = "retry"
           \/ results[n].check = "green" /\ t.what = "append"
    BY <2>3, WriteParts
  <2> QED
    BY <1>10, <2>4 DEF Decided, Kept, Earned
<1>11. CASE recipe = "between_rounds"
  <2>1. PICK n : n = Latest(FollowedEnds)
    OBVIOUS
  <2>2. t = Write("swap", n) /\ n \in Numbers(log, "round_end")
    BY <1>0, <1>11, <1>b, <2>1, BetweenPoll, FollowedEnded
  <2>3. t.what = "swap" /\ Settled(t.n) /\ Ended(t.n)
    BY <1>0, <2>2, EndedParts
  <2> QED
    BY <1>11, <2>3 DEF Decided
<1> QED
  BY <1>0, <1>1, <1>2, <1>3, <1>4, <1>5, <1>6, <1>7, <1>8, <1>9, <1>10, <1>11 DEF AllRecipes

(* A write lands with the cause it was decided on.                          *)
LEMMA KeptLands ==
  ASSUME NEW what, NEW w, w = NewWrite(what), Decided(todo), TodoFits,
         \/ what = todo.what /\ MayWrite
         \/ what = "swap" /\ pc = "swap"
  PROVE  Kept(w)
<1>1. w.what = what /\ w.n = todo.n
  BY WriteRecord
<1>2. PICK t : t = todo
  OBVIOUS
<1>3. Decided(t) /\ w.n = t.n
  BY <1>1, <1>2, Zenon
<1>4. CASE what = t.what /\ MayWrite
  <2>1. CASE Kept(t)
    BY <1>1, <1>3, <1>4, <2>1 DEF Kept, Earned
  <2>2. CASE Settled(t.n) /\ Ended(t.n) /\ recipe = "between_rounds" /\ t.what = "swap"
    <3>1. conf.queue = "good"
      BY <1>4, <2>2 DEF MayWrite
    <3> QED
      BY <1>1, <1>3, <1>4, <2>2, <3>1 DEF Kept, Earned
  <2> QED
    BY <1>3, <2>1, <2>2 DEF Decided
<1>5. CASE what = "swap" /\ pc = "swap"
  <2>1. recipe = "karpathy" /\ t.what = "discard"
    BY <1>2, <1>5 DEF TodoFits
  <2> QED
    BY <1>1, <1>3, <1>5, <2>1 DEF Decided, Kept, Earned
<1> QED
  BY <1>2, <1>4, <1>5

(* It still is when the write lands, and ever after.                       *)
LEMMA EarnedInvStep ==
  FileInv /\ LogAgrees /\ UsageInv /\ SpentInv /\ EarnedInv /\ [Next]_vars => EarnedInv'
<1> SUFFICES ASSUME FileInv, LogAgrees, UsageInv, SpentInv, EarnedInv, [Next]_vars
             PROVE  EarnedInv'
  OBVIOUS
<1>0. TodoFits /\ ServeTypes
  BY DEF FileInv
<1>1. \A w \in writes' : Kept(w)'
  <2>1. ASSUME NEW w \in writes', w \in writes PROVE Kept(w)'
    <3>1. Kept(w)
      BY <2>1 DEF EarnedInv
    <3> QED
      BY <3>1, KeptStable
  <2>2. ASSUME NEW w \in writes', w \notin writes PROVE Kept(w)'
    <3>1. pc \in {"write", "swap"}
          /\ \E what : /\ w = NewWrite(what)
                       /\ (what = todo.what /\ MayWrite) \/ (what = "swap" /\ pc = "swap")
      BY <2>2, WritesEffect DEF Lands
    <3>2. Decided(todo)
      BY <3>1 DEF EarnedInv
    <3>3. Kept(w)
      BY <1>0, <3>1, <3>2, KeptLands
    <3> QED
      BY <3>3, KeptStable
  <2> QED
    BY <2>1, <2>2
<1>2. ASSUME pc' \in {"exam", "write", "swap"} PROVE Decided(todo)'
  <2>1. CASE Poll
    <3>1. Checked /\ old <= Len(log)
      BY <2>1 DEF EarnedInv, Poll
    <3> QED
      BY <1>2, <2>1, <3>1, PollKeeps
  <2>2. CASE ~Poll
    <3>1. pc \in {"exam", "write", "swap"} /\ todo' = todo
      <4>1. CASE ServeStep
        BY <1>0, <1>2, <4>1, ServeStepEffect
      <4>2. CASE EditsConfig \/ Queues \/ Latch \/ Finish \/ Examined \/ ScriptDies \/ Tick
        BY <1>2, <4>2 DEF EditsConfig, Queues, Latch, Finish, Examined, ScriptDies, Tick, script
      <4>3. CASE Start
        BY <1>2, <4>3 DEF Start
      <4>4. CASE DoWrite
        BY <4>4, DoWriteEffect
      <4>5. CASE Swap
        BY <4>5, SwapEffect
      <4>6. CASE UNCHANGED vars
        BY <1>2, <4>6 DEF vars, script
      <4> QED
        BY <2>2, <4>1, <4>2, <4>3, <4>4, <4>5, <4>6 DEF Next, ServeStep
    <3>2. PICK t : t = todo
      OBVIOUS
    <3>3. Decided(t)
      <4>1. Decided(todo)
        BY <3>1 DEF EarnedInv
      <4> QED
        BY <3>2, <4>1, Zenon
    <3>4. Decided(t)'
      BY <3>3, KeptStable
    <3>5. todo' = t
      BY <3>1, <3>2
    <3> QED
      BY <3>4, <3>5, DecidedSame
  <2> QED
    BY <2>1, <2>2
<1>3. pc' \notin {"off", "done"} => Checked'
  <2>1. Checked => Checked'
    BY ConfEffect DEF Checked
  <2> QED
    BY <2>1, StartsAgain, StartAdmits DEF EarnedInv
<1>4. old' <= Len(log')
  BY OldStays DEF EarnedInv
<1> QED
  BY <1>1, <1>2, <1>3, <1>4 DEF EarnedInv

(* Every write has the cause its recipe names, in what the rounds left and  *)
(* not only in what was read: the costs a stop is for, the checks and their *)
(* values, the round's end, the configuration, the queue.                   *)
THEOREM WritesHaveCause == Spec => []WritesAreEarned
<1>1. Init => FileInv /\ LogAgrees /\ UsageInv /\ SpentInv /\ EarnedInv
  <2>1. Init => LogAgrees
    BY DEF Init, LogAgrees, Agree
  <2>2. Init => EarnedInv
    BY DEF Init, EarnedInv
  <2> QED
    BY <2>1, <2>2, InitFiles, SpentInit
<1>2. EarnedInv => WritesAreEarned
  BY DEF EarnedInv, WritesAreEarned, Kept
<1> QED
  BY <1>1, <1>2, FileInvStep, LogAgreesStep, UsageInvStep, SpentInvStep, EarnedInvStep, PTL DEF Spec

----------------------------------------------------------------------------
(* A stop in time. *)

Stopping == {"spend_ceiling", "repeat_fail", "ralph"}

(* A script that goes on has passed its preflight, looks at rounds that have *)
(* ended, and watches the serve that runs them.                             *)
Ready ==
    /\ recipe \in Stopping => acted \subseteq Numbers(log, "round_end")
    /\ phase \in {"hooks", "gap"} /\ attentive => Busy /\ (Latches => latched = life)
    /\ pc \notin {"off", "done"} =>
          /\ recipe \in {"spend_ceiling", "repeat_fail"} => conf.stop_file
          /\ recipe = "spend_ceiling" => conf.delay = DELAY_S

(* A poll acts on rounds that have ended.                                   *)
LEMMA PollActs ==
  ASSUME FileInv, Poll, recipe \in Stopping
  PROVE  acted' \subseteq acted \cup Numbers(log, "round_end")
<1>0. ServeTypes /\ Numbered
  BY DEF FileInv
<1>1. CASE recipe = "spend_ceiling"
  <2>1. acted' = acted \/ \E n \in Pending : acted' = acted \cup {n}
    BY <1>0, <1>1, SpendPass
  <2> QED
    BY <2>1 DEF Pending
<1>2. CASE recipe = "repeat_fail"
  BY <1>2, FailPass DEF FailNew
<1>3. CASE recipe = "ralph"
  BY <1>3, RalphPass DEF RalphNew
<1> QED
  BY <1>1, <1>2, <1>3 DEF Stopping

(* A script that the preflight turns away does not start.                   *)
LEMMA StartChecks ==
  ASSUME Start
  PROVE  pc' \notin {"off", "done"} =>
          /\ recipe \in {"spend_ceiling", "repeat_fail"} => conf.stop_file
          /\ recipe = "spend_ceiling" => conf.delay = DELAY_S
<1>1. PICK v : v = View
  OBVIOUS
<1>2. v.conf = conf
  BY <1>1, ViewFields
<1>3. pc' = IF Refuses THEN "done" ELSE IF Latches THEN "latch" ELSE "poll"
  BY DEF Start
<1>4. ASSUME recipe = "spend_ceiling", ~(conf.stop_file /\ conf.delay = DELAY_S) PROVE Refuses
  <2>1. SC!Refuses(v)
    BY <1>2, <1>4 DEF SC!Refuses, SC!TomlErrors
  <2> QED
    BY <1>1, <1>4, <2>1 DEF Refuses
<1>5. ASSUME recipe = "repeat_fail", ~conf.stop_file PROVE Refuses
  <2>1. RF!Refuses(v)
    BY <1>2, <1>5 DEF RF!Refuses
  <2> QED
    BY <1>1, <1>5, <2>1 DEF Refuses
<1> QED
  BY <1>3, <1>4, <1>5

(* It stays so.                                                            *)
LEMMA ReadyStep == FileInv /\ Ready /\ [Next]_vars => Ready'
<1> SUFFICES ASSUME FileInv, Ready, [Next]_vars PROVE Ready'
  OBVIOUS
<1>0. ServeTypes /\ TodoFits
  BY DEF FileInv
<1>a. /\ recipe \in Stopping => acted \subseteq Numbers(log, "round_end")
      /\ phase \in {"hooks", "gap"} /\ attentive => Busy /\ (Latches => latched = life)
      /\ pc \notin {"off", "done"} =>
            /\ recipe \in {"spend_ceiling", "repeat_fail"} => conf.stop_file
            /\ recipe = "spend_ceiling" => conf.delay = DELAY_S
  BY DEF Ready
<1>b. PICK e, f : e = Numbers(log, "round_end") /\ f = Numbers(log', "round_end")
  OBVIOUS
<1>c. e \subseteq f /\ UNCHANGED <<recipe, conf>>
  BY <1>b, LogGrows, ConfEffect
<1>d. ASSUME acted' \subseteq acted \cup e \/ acted' = {},
             phase' \in {"hooks", "gap"} /\ attentive' => Busy' /\ (Latches => latched' = life'),
             \/ pc' \notin {"off", "done"} => pc \notin {"off", "done"}
             \/ Start
      PROVE  Ready'
  <2>1. recipe' \in Stopping => acted' \subseteq f
    BY <1>a, <1>b, <1>c, <1>d
  <2>2. pc' \notin {"off", "done"} =>
            /\ recipe' \in {"spend_ceiling", "repeat_fail"} => conf'.stop_file
            /\ recipe' = "spend_ceiling" => conf'.delay = DELAY_S
    BY <1>a, <1>c, <1>d, StartChecks
  <2>3. Latches' <=> Latches
    BY <1>c DEF Latches
  <2> QED
    BY <1>b, <1>d, <2>1, <2>2, <2>3, Zenon DEF Ready
<1>1. CASE UNCHANGED vars
  <2>1. UNCHANGED <<acted, phase, attentive, pc, latched, life>>
    BY <1>1, Zenon DEF vars, serve, record, script
  <2> QED
    BY <1>a, <1>d, <2>1 DEF Busy
<1>2. CASE ServeStep
  <2>1. UNCHANGED <<acted, pc, latched>>
    BY <1>0, <1>2, ServeStepEffect
  <2>2. phase' \in {"hooks", "gap"} /\ attentive' => Busy' /\ (Latches => latched' = life')
    <3>1. CASE RoundEnd
      <4>1. life' = life
        BY <3>1, Zenon DEF RoundEnd
      <4>2. attentive' => Busy /\ (Latches => latched = life)
        BY <3>1, Zenon DEF RoundEnd
      <4> QED
        BY <1>0, <2>1, <4>1, <4>2 DEF Busy
    <3>2. CASE HooksEnd
      <4>1. phase = "hooks" /\ phase' = "gap" /\ UNCHANGED <<attentive, life>>
        BY <3>2, Zenon DEF HooksEnd
      <4> QED
        BY <1>a, <2>1, <4>1 DEF Busy
    <3>3. CASE MonthTurns
      <4>1. UNCHANGED <<phase, attentive, life>>
        BY <3>3, Zenon DEF MonthTurns, serve
      <4> QED
        BY <1>a, <2>1, <4>1 DEF Busy
    <3>4. CASE ~(RoundEnd \/ HooksEnd \/ MonthTurns)
      <4>1. phase' \in {"top", "round", "checked", "down"}
        BY <1>2, <3>4, Zenon DEF ServeStep, ServeStart, ServeTop, GoalCheck, ServeGivesUp,
           ServeExits, ServeCrash, PidReused
      <4> QED
        BY <4>1
    <3> QED
      BY <3>1, <3>2, <3>3, <3>4
  <2> QED
    BY <1>d, <2>1, <2>2
<1>3. CASE Tick
  <2>1. UNCHANGED <<acted, phase, attentive, pc, latched, life>>
    BY <1>3, Zenon DEF Tick, script
  <2> QED
    BY <1>a, <1>d, <2>1 DEF Busy
<1>4. CASE ScriptStep
  <2>1. UNCHANGED <<phase, life>>
    BY <1>4, ScriptStepEffect
  <2>2. CASE EditsConfig \/ Queues
    <3>1. UNCHANGED <<acted, pc, latched, attentive>>
      BY <2>2, Zenon DEF EditsConfig, Queues, script
    <3> QED
      BY <1>a, <1>d, <2>1, <3>1 DEF Busy
  <2>3. CASE Start
    <3>1. pc = "off" /\ acted' = {} /\ attentive' = attentive
      BY <2>3, Zenon DEF Start
    <3>2. ~(phase \in {"hooks", "gap"} /\ attentive)
      BY <1>a, <3>1 DEF Busy
    <3> QED
      BY <1>a, <1>d, <2>1, <2>3, <3>1, <3>2
  <2>4. CASE Latch
    <3>1. pc = "latch" /\ acted' = acted /\ attentive' = attentive
      BY <2>4, Zenon DEF Latch
    <3>2. ~(phase \in {"hooks", "gap"} /\ attentive)
      BY <1>a, <3>1 DEF Busy
    <3> QED
      BY <1>a, <1>d, <2>1, <3>1, <3>2
  <2>5. CASE Finish \/ ScriptDies
    <3>1. pc' \in {"off", "done"} /\ acted' = acted /\ attentive' = FALSE
      BY <2>5, Zenon DEF Finish, ScriptDies, script
    <3> QED
      BY <1>a, <1>d, <2>1, <3>1
  <2>6. CASE Poll
    <3>1. /\ pc = "poll" /\ UNCHANGED <<attentive, latched>>
          /\ pc' \in {"poll", "exam", "write"}
      BY <2>6, PollEffect, Zenon DEF Polled
    <3>2. CASE recipe \in Stopping
      <4>1. acted' \subseteq acted \cup e
        BY <1>b, <2>6, <3>2, PollActs
      <4> QED
        BY <1>a, <1>d, <2>1, <3>1, <4>1 DEF Busy
    <3>3. CASE recipe \notin Stopping
      <4>1. /\ recipe' \notin Stopping
            /\ phase' \in {"hooks", "gap"} /\ attentive' => Busy' /\ (Latches => latched' = life')
        BY <1>a, <1>c, <2>1, <3>1, <3>3 DEF Busy
      <4>2. Latches' <=> Latches
        BY <1>c DEF Latches
      <4> QED
        BY <4>1, <4>2 DEF Ready, Stopping
    <3> QED
      BY <3>2, <3>3
  <2>7. CASE Examined
    <3>1. pc = "exam" /\ pc' \in {"write", "poll"} /\ UNCHANGED <<acted, attentive, latched>>
      BY <2>7, Zenon DEF Examined, script
    <3> QED
      BY <1>a, <1>d, <2>1, <3>1 DEF Busy
  <2>8. CASE DoWrite
    <3>1. pc = "write" /\ latched' = latched
      BY <2>8, DoWriteEffect
    <3>2. /\ acted' \subseteq acted
          /\ pc' \in {"swap", "poll", "done"}
          /\ attentive' => attentive /\ pc' # "done"
      <4>1. CASE Lands
        <5>1. acted' = acted /\ attentive' = attentive
              /\ pc' = IF todo.what = "discard" THEN "swap" ELSE "poll"
          BY <4>1, Zenon DEF Lands
        <5> QED
          BY <5>1
      <4>2. CASE HoldsBack
        <5>1. acted' \subseteq acted /\ pc' = IF recipe = "between_rounds" THEN "done" ELSE "poll"
          BY <4>2 DEF HoldsBack
        <5>2. attentive' => attentive /\ recipe # "between_rounds"
          BY <4>2, Zenon DEF HoldsBack
        <5> QED
          BY <5>1, <5>2
      <4> QED
        BY <2>8, <4>1, <4>2, DoWriteEffect
    <3> QED
      BY <1>a, <1>d, <2>1, <3>1, <3>2 DEF Busy
  <2>9. CASE Swap
    <3>1. pc = "swap" /\ pc' = "poll" /\ UNCHANGED <<acted, attentive, latched>>
      BY <2>9, SwapEffect
    <3> QED
      BY <1>a, <1>d, <2>1, <3>1 DEF Busy
  <2> QED
    BY <1>4, <2>2, <2>3, <2>4, <2>5, <2>6, <2>7, <2>8, <2>9 DEF ScriptStep
<1> QED
  BY <1>1, <1>2, <1>3, <1>4 DEF Next, ServeStep, ScriptStep

(* What the margins must leave: a script that looks at the round in time has *)
(* written before serve goes on.                                            *)
Margins ==
    /\ WRITE_BEFORE_S + Lag < DELAY_S
    /\ SETTLE_S + Lag <= WRITE_BEFORE_S

Owes ==
    \/ recipe = "spend_ceiling"
    \/ recipe = "repeat_fail" /\ conf.delay = DELAY_S /\ num = 2
    \/ recipe = "ralph" /\ conf.stop_file /\ conf.delay = DELAY_S

SameFailure ==
    /\ results[1].check = "red" /\ results[2].check = "red"
    /\ results[1].value = results[2].value

(* No stop is due after this round. *)
Judged ==
    \/ recipe = "spend_ceiling" /\ phase = "gap" /\ ~ (Total(num) >= CEILING)
    \/ recipe = "repeat_fail" /\ (edited \/ ~SameFailure)
    \/ recipe = "ralph" /\ results[num].check # "green"

(* This round is still to be looked at, and there is time left for it: for   *)
(* spend_ceiling, a poll for each of the rounds it has not acted on.        *)
Looking ==
    /\ pc = "poll" /\ num \notin acted
    /\ \/ since < SETTLE_S + idle /\ (recipe = "spend_ceiling" => Earliest(Pending) = num)
       \/ /\ recipe = "spend_ceiling"
          /\ since + Cardinality(Pending) * Lag <= WRITE_BEFORE_S + idle

Writing == pc = "write" /\ since <= WRITE_BEFORE_S + idle

(* The usage is too late for spend_ceiling, which no longer waits for it.    *)
Lost == recipe = "spend_ceiling" /\ phase = "hooks" /\ since >= SETTLE_S

Watched ==
    phase \in {"hooks", "gap"} /\ attentive /\ in_reach /\ "give_up" \notin Kinds(log)

OnTime == Watched /\ Owes => files.stop \/ Writing \/ Looking \/ Judged \/ Lost

StopInv == FileInv /\ LogAgrees /\ UsageInv /\ CheckedInv /\ SpentInv /\ GapInv /\ Ready

(* A round less to look at is one lag less.                                *)
LEMMA Turns ==
  ASSUME NEW N \in Nat, NEW S \in SUBSET (1..N), NEW m \in S
  PROVE  /\ Cardinality(S) * Lag \in Nat /\ Cardinality(S \ {m}) * Lag \in Nat
         /\ Cardinality(S) * Lag = Cardinality(S \ {m}) * Lag + Lag
<1>1. IsFiniteSet(S)
  <2>1. IsFiniteSet(1..N)
    BY FS_Interval
  <2> QED
    BY <2>1, FS_Subset
<1>2. Cardinality(S) \in Nat /\ Cardinality(S \ {m}) = Cardinality(S) - 1
      /\ Cardinality(S \ {m}) \in Nat
  <2>1. IsFiniteSet(S \ {m}) /\ Cardinality(S \ {m}) = Cardinality(S) - 1
    BY <1>1, FS_RemoveElement
  <2> QED
    BY <1>1, <2>1, FS_CardinalityType
<1>3. PICK a \in Nat, b \in Nat : a = Cardinality(S) /\ b = Cardinality(S \ {m}) /\ a = b + 1
  <2>1. Cardinality(S) = Cardinality(S \ {m}) + 1
    BY <1>2
  <2> QED
    BY <1>2, <2>1
<1>4. Lag \in Nat
  BY OuterLoopAssumption
<1>5. ASSUME NEW l \in Nat PROVE a * l \in Nat /\ b * l \in Nat /\ (b + 1) * l = b * l + l
  OBVIOUS
<1> QED
  BY <1>3, <1>4, <1>5

(* What a script in time has before it. *)
LEMMA InTime ==
  ASSUME Margins, StopInv, Watched, Looking
  PROVE  /\ num \in Pending /\ Pending \in SUBSET (1..num)
         /\ since \in Nat /\ since <= WRITE_BEFORE_S /\ idle \in Nat /\ idle <= Lag
         /\ Earliest(Pending) \in Pending
         /\ \A k \in Pending : Earliest(Pending) <= k
<1>0. /\ num \in Nat /\ since \in Nat /\ idle \in Nat /\ Lag \in Nat
      /\ {SETTLE_S, WRITE_BEFORE_S} \subseteq Nat
      /\ phase \in {"hooks", "gap"} /\ Numbered
  BY OuterLoopAssumption, GapAssumption DEF StopInv, FileInv, ServeTypes, ScriptTypes, Watched
<1>1. pc = "poll" /\ num \notin acted
  BY DEF Looking
<1>2. idle <= Lag
  BY <1>1 DEF StopInv, GapInv
<1>3. PICK p : p = Pending
  OBVIOUS
<1>4. num \in p /\ p \in SUBSET (1..num)
  BY <1>0, <1>1, <1>3 DEF Pending, Numbered
<1>5. PICK m : m = Earliest(p)
  OBVIOUS
<1>6. m \in p /\ \A k \in p : m <= k
  <2>1. p \in SUBSET Nat /\ p # {}
    BY <1>0, <1>4
  <2> QED
    BY <1>5, <2>1, EarliestIn
<1>7. since <= WRITE_BEFORE_S
  <2>1. CASE since < SETTLE_S + idle
    BY <1>0, <1>2, <2>1 DEF Margins
  <2>2. CASE since + Cardinality(p) * Lag <= WRITE_BEFORE_S + idle
    <3>1. PICK x, y : x = Cardinality(p) * Lag /\ y = Cardinality(p \ {num}) * Lag
      OBVIOUS
    <3>2. x \in Nat /\ y \in Nat /\ x = y + Lag
      BY <1>0, <1>4, <3>1, Turns
    <3> QED
      BY <1>0, <1>2, <2>2, <3>1, <3>2
  <2> QED
    BY <1>3, <2>1, <2>2 DEF Looking
<1> QED
  BY <1>0, <1>2, <1>3, <1>4, <1>5, <1>6, <1>7

(* One pass of spend_ceiling in time. *)
LEMMA SpendLooks ==
  ASSUME Margins, StopInv, Watched, Looking, recipe = "spend_ceiling", Poll
  PROVE  files.stop \/ Writing' \/ Looking' \/ Judged \/ Lost
<1>0. /\ ServeTypes /\ Identity /\ Numbered /\ num \in Nat /\ UsageInv /\ SpentInv /\ FileInv /\ Ready
      /\ phase \in {"hooks", "gap"} /\ "give_up" \notin Kinds(log)
      /\ Numbers(log, "round_start") = 1..num
      /\ {SETTLE_S, WRITE_BEFORE_S, WRITE_AFTER_S, DELAY_S} \subseteq Nat
      /\ WRITE_AFTER_S < SETTLE_S /\ WRITE_BEFORE_S < DELAY_S
      /\ Lag \in Nat
  BY OuterLoopAssumption, GapAssumption DEF StopInv, FileInv, ServeTypes, Watched, Numbered
<1>1. /\ num \in Pending /\ Pending \in SUBSET (1..num)
      /\ since \in Nat /\ since <= WRITE_BEFORE_S /\ idle \in Nat /\ idle <= Lag
      /\ Earliest(Pending) \in Pending
      /\ \A k \in Pending : Earliest(Pending) <= k
  BY InTime
<1>2. PICK p, m : p = Pending /\ m = Earliest(p)
  OBVIOUS
<1>3. m \in p /\ m \in Nat /\ m > 0 /\ m <= num /\ num \in p /\ (\A k \in p : m <= k)
      /\ p \subseteq 1..num
  <2>1. num \in p /\ p \in SUBSET (1..num) /\ m \in p /\ \A k \in p : m <= k
    BY <1>1, <1>2, Zenon
  <2> QED
    BY <1>0, <2>1
<1>4. /\ pc = "poll" /\ ~SC!Finished(View) /\ idle' = 0
      /\ UNCHANGED <<log, since, num, recipe, phase, results>>
  <2>1. pc = "poll" /\ ~Finished /\ idle' = 0 /\ UNCHANGED <<log, since, num, recipe, phase, results>>
    BY PollEffect, Zenon DEF Polled
  <2> QED
    BY <2>1 DEF Finished
<1>5. PICK v : v = View
  OBVIOUS
<1>6. v.log = log /\ v.since = since /\ v.files = files
  BY <1>5, ViewFields
<1>7. /\ \A n \in Nat : SC!RoundStarted(log, n) <=> n \in 1..num
      /\ ~SC!GiveupPresent(log)
  BY <1>0, SpendNames DEF SC!RoundStarted, SC!GiveupPresent, SC!GIVEUP
<1>8. num \notin acted
  BY DEF Looking
<1>9. CASE SC!Waits(m, v) /\ acted' = acted /\ pc' = "poll"
  <2>1. ~SC!RoundStarted(log, m + 1) /\ since < SETTLE_S
    BY <1>0, <1>1, <1>6, <1>9 DEF SC!Waits, SC!Settling
  <2>2. m = num
    BY <1>0, <1>3, <1>7, <2>1
  <2>3. Pending' = Pending
    BY <1>4, <1>9 DEF Pending
  <2>4. Earliest(Pending') = num
    BY <1>2, <2>2, <2>3
  <2>5. num' \notin acted' /\ since' < SETTLE_S + idle'
    BY <1>0, <1>1, <1>4, <1>8, <1>9, <2>1
  <2> QED
    BY <1>4, <1>9, <2>4, <2>5 DEF Looking
<1>10. CASE /\ ~SC!Waits(m, v) /\ acted' = acted \cup {m}
            /\ \/ ~SC!StopDecision(m, v) /\ pc' = "poll"
               \/ SC!StopDecision(m, v) /\ pc' = "write"
  <2>1. CASE m < num
    <3>1. m + 1 \in 1..num
      BY <1>0, <1>3, <2>1
    <3>2. ~SC!StopDecision(m, v)
      BY <1>3, <1>6, <1>7, <3>1 DEF SC!StopDecision
    <3>3. PICK q : q = Pending'
      OBVIOUS
    <3>4. q = p \ {m}
      BY <1>2, <1>4, <1>10, <3>3 DEF Pending
    <3>5. num \in q /\ q \in SUBSET Nat
      BY <1>0, <1>3, <2>1, <3>4
    <3>6. PICK x, y : x = Cardinality(p) * Lag /\ y = Cardinality(q) * Lag
      OBVIOUS
    <3>7. x \in Nat /\ y \in Nat /\ x = y + Lag
      BY <1>0, <1>3, <3>4, <3>6, Turns
    <3>8. since + x <= WRITE_BEFORE_S + idle
      BY <1>2, <1>3, <2>1, <3>6 DEF Looking
    <3>9. since' + y <= WRITE_BEFORE_S + idle'
      BY <1>0, <1>1, <1>4, <3>7, <3>8
    <3>10. num' \notin acted'
      BY <1>3, <1>4, <1>8, <1>10, <2>1
    <3>11. since' + Cardinality(Pending') * Lag <= WRITE_BEFORE_S + idle'
      BY <3>3, <3>6, <3>9
    <3> QED
      BY <1>4, <1>10, <3>2, <3>10, <3>11 DEF Looking
  <2>2. CASE m = num
    <3>1. ~SC!RoundStarted(log, m + 1)
      BY <1>0, <1>7, <2>2
    <3>2. CASE SC!StopDecision(m, v)
      <4>1. pc' = "write" /\ since' <= WRITE_BEFORE_S + idle'
        BY <1>0, <1>1, <1>4, <1>10, <3>2
      <4> QED
        BY <4>1 DEF Writing
    <3>3. CASE ~SC!StopDecision(m, v)
      <4>1. since >= WRITE_AFTER_S
        BY <1>0, <1>1, <1>6, <1>10, <3>1 DEF SC!Waits
      <4>2. SC!UsageRows(log, m) # {} \/ since >= SETTLE_S
        BY <1>0, <1>1, <1>6, <1>7, <1>10, <3>1 DEF SC!Waits, SC!Settling
      <4>3. phase = "gap" \/ Lost
        <5>1. ASSUME phase = "hooks", ~Lost PROVE FALSE
          <6>1. since < SETTLE_S
            BY <1>0, <1>1, <5>1 DEF Lost
          <6>2. PICK i \in SC!UsageRows(log, m) : TRUE
            BY <1>0, <1>1, <4>2, <6>1
          <6>3. i \in DOMAIN log /\ log[i].ev = "usage" /\ log[i].n = m
            BY <6>2 DEF SC!UsageRows, SC!Of
          <6> QED
            BY <1>0, <2>2, <5>1, <6>3 DEF UsageInv
        <5> QED
          BY <1>0, <5>1
      <4>4. SC!Alive(v) /\ SC!InWindow(v)
        <5>1. SC!Alive(v)
          BY <1>0, <1>4, <1>5, SpendAlive
        <5>2. SC!InWindow(v)
          BY <1>0, <1>1, <1>6, <4>1 DEF SC!InWindow
        <5> QED
          BY <5>1, <5>2
      <4>5. files.stop \/ ~SC!Crossed(log, SC!AddendsThrough(log, m))
        BY <1>6, <1>7, <3>1, <3>3, <4>4 DEF SC!StopDecision
      <4>6. SC!Crossed(log, SC!AddendsThrough(log, num)) <=> Total(num) >= CEILING
        BY <1>0, CrossedTells
      <4> QED
        BY <2>2, <4>3, <4>5, <4>6 DEF Judged
    <3> QED
      BY <3>2, <3>3
  <2> QED
    BY <1>0, <1>3, <2>1, <2>2
<1> QED
  <2>1. \/ SC!Waits(m, v) /\ acted' = acted /\ pc' = "poll"
        \/ /\ ~SC!Waits(m, v) /\ acted' = acted \cup {m}
           /\ \/ ~SC!StopDecision(m, v) /\ pc' = "poll"
              \/ SC!StopDecision(m, v) /\ pc' = "write"
    BY <1>0, <1>2, <1>3, <1>5, SpendPass
  <2> QED
    BY <1>9, <1>10, <2>1

(* The checks of a round that has left the agent say what it left. *)
LEMMA ChecksTell ==
  ASSUME FileInv, LogAgrees, CheckedInv, NEW n \in 1..num
  PROVE  /\ \A i \in Of(log, "goal_check", n) :
                log[i].check = results[n].check /\ log[i].value = results[n].value
         /\ results[n].check # "none" => Of(log, "goal_check", n) # {}
<1>1. ASSUME NEW i \in Of(log, "goal_check", n)
      PROVE  log[i].check = results[n].check /\ log[i].value = results[n].value
  <2>1. i \in DOMAIN log /\ log[i].ev = "goal_check" /\ log[i].n = n
    BY OfLog
  <2> QED
    BY <2>1, CheckTells
<1> QED
  BY <1>1 DEF CheckedInv

(* Two rounds that failed alike are seen to have failed alike. *)
LEMMA FailSees ==
  ASSUME FileInv, LogAgrees, CheckedInv, num = 2, SameFailure
  PROVE  LET first == RF!RoundCheck(log, 1)
             second == RF!RoundCheck(log, 2)
         IN  RF!IsRed(first) /\ RF!IsRed(second) /\ RF!FingerprintsMatch(first, second)
<1>1. PICK first, second : first = RF!RoundCheck(log, 1) /\ second = RF!RoundCheck(log, 2)
  OBVIOUS
<1>2. ASSUME NEW n \in 1..2, results[n].check = "red", NEW e, e = RF!RoundCheck(log, n)
      PROVE  e.check = "red" /\ e.value = results[n].value
  <2>1. PICK o : o = Of(log, "goal_check", n)
    OBVIOUS
  <2>2. /\ \A i \in o : log[i].check = results[n].check /\ log[i].value = results[n].value
        /\ o # {} /\ o \subseteq DOMAIN log
    BY <1>2, <2>1, ChecksTell, OfLog
  <2>3. {i \in o : log[i].check # "skipped"} = o
    BY <1>2, <2>2
  <2>4. e = IF o = {} THEN [ev |-> "goal_check", n |-> n, check |-> "none", value |-> 0]
            ELSE log[Latest(o)]
    BY <1>2, <2>1, <2>3, FailNames, Zenon DEF RF!RoundCheck, RF!LastOf
  <2>5. PICK i \in o : i = Latest(o)
    BY <2>2, LatestEvent DEF FileInv
  <2>6. e = log[i]
    BY <2>2, <2>4, <2>5
  <2> QED
    BY <1>2, <2>2, <2>6
<1>3. /\ first.check = "red" /\ first.value = results[1].value
      /\ second.check = "red" /\ second.value = results[2].value
  BY <1>1, <1>2 DEF SameFailure
<1>4. first.value = second.value
  BY <1>3 DEF SameFailure
<1>5. RF!IsRed(first) /\ RF!IsRed(second) /\ RF!FingerprintsMatch(first, second)
  BY <1>3, <1>4 DEF RF!IsRed, RF!FingerprintsMatch, RF!Fingerprint
<1> QED
  BY <1>1, <1>5

(* One pass of repeat_fail in time. *)
LEMMA FailLooks ==
  ASSUME Margins, StopInv, Watched, Looking, Owes, recipe = "repeat_fail", Poll
  PROVE  files.stop \/ Writing' \/ Looking' \/ Judged
<1>0. /\ FileInv /\ LogAgrees /\ CheckedInv /\ ServeTypes /\ Identity /\ Numbered
      /\ "give_up" \notin Kinds(log)
      /\ Numbers(log, "round_start") = 1..num
      /\ {SETTLE_S, WRITE_BEFORE_S, WRITE_AFTER_S, DELAY_S} \subseteq Nat
      /\ WRITE_AFTER_S < SETTLE_S /\ WRITE_BEFORE_S < DELAY_S
  BY GapAssumption DEF StopInv, FileInv, Watched, Numbered
<1>1. num = 2
  BY DEF Owes
<1>2. since \in Nat /\ since <= WRITE_BEFORE_S /\ num \in Pending
  BY InTime
<1>3. 2 \in Numbers(log, "round_end") \ acted
  BY <1>1, <1>2 DEF Pending
<1>4. /\ pc = "poll" /\ ~RF!Finished(View) /\ idle' = 0
      /\ UNCHANGED <<since, num, recipe>>
  <2>1. pc = "poll" /\ ~Finished /\ idle' = 0 /\ UNCHANGED <<since, num, recipe>>
    BY PollEffect, Zenon DEF Polled
  <2> QED
    BY <2>1 DEF Finished
<1>5. PICK v : v = View
  OBVIOUS
<1>6. v.log = log /\ v.since = since /\ v.files = files
  BY <1>5, ViewFields
<1>7. RF!Alive(v) /\ ~RF!Late(2, v)
  <2>1. RF!Alive(v)
    BY <1>0, <1>4, <1>5, FailAlive
  <2>2. 2 + 1 \notin 1..num
    BY <1>1
  <2>3. ~RF!Late(2, v)
    BY <1>0, <1>6, <2>2, FailNames DEF RF!Late, RF!RoundStarted, RF!GiveupPresent
  <2> QED
    BY <2>1, <2>3
<1>8. /\ acted' = acted \cup FailNew
      /\ IF 2 \in FailNew /\ RF!StopDecision(View) /\ ~edited THEN pc' = "write" ELSE pc' = "poll"
  BY FailPass
<1>9. CASE RF!Waits(2, v)
  <2>1. 2 \notin FailNew
    BY <1>5, <1>9 DEF FailNew
  <2>2. num' \notin acted' /\ pc' = "poll"
    BY <1>1, <1>3, <1>4, <1>8, <2>1
  <2>3. since < SETTLE_S
    BY <1>0, <1>2, <1>6, <1>9 DEF RF!Waits
  <2>4. since' < SETTLE_S + idle'
    BY <1>0, <1>2, <1>4, <2>3
  <2> QED
    BY <1>4, <2>2, <2>4 DEF Looking
<1>10. CASE ~RF!Waits(2, v)
  <2>1. since >= WRITE_AFTER_S
    BY <1>0, <1>2, <1>6, <1>7, <1>10 DEF RF!Waits
  <2>2. 2 \in FailNew
    BY <1>3, <1>5, <1>10 DEF FailNew
  <2>3. CASE RF!StopDecision(v) /\ ~edited
    <3>1. pc' = "write" /\ since' <= WRITE_BEFORE_S + idle'
      BY <1>0, <1>2, <1>4, <1>5, <1>8, <2>2, <2>3
    <3> QED
      BY <3>1 DEF Writing
  <2>4. CASE edited
    BY <2>4 DEF Judged
  <2>5. CASE ~RF!StopDecision(v)
    <3>1. since >= WRITE_AFTER_S /\ ~(since > WRITE_BEFORE_S \/ since > DELAY_S)
      BY <1>0, <1>2, <2>1
    <3>2. ASSUME ~files.stop, SameFailure PROVE FALSE
      <4>1. PICK first, second : first = RF!RoundCheck(log, 1) /\ second = RF!RoundCheck(log, 2)
        OBVIOUS
      <4>2. RF!IsRed(first) /\ RF!IsRed(second) /\ RF!FingerprintsMatch(first, second)
        BY <1>0, <1>1, <3>2, <4>1, FailSees
      <4> QED
        BY <1>6, <1>7, <2>5, <3>1, <3>2, <4>1, <4>2 DEF RF!StopDecision
    <3> QED
      BY <3>2 DEF Judged
  <2> QED
    BY <2>3, <2>4, <2>5
<1> QED
  BY <1>9, <1>10

(* One pass of ralph in time. *)
LEMMA RalphLooks ==
  ASSUME Margins, StopInv, Watched, Looking, recipe = "ralph", Poll
  PROVE  files.stop \/ Writing' \/ Looking' \/ Judged
<1>0. /\ FileInv /\ LogAgrees /\ CheckedInv /\ ServeTypes /\ Identity /\ num \in Nat
      /\ Numbers(log, "round_start") = 1..num /\ phase # "down" /\ num \in 1..num
      /\ WRITE_BEFORE_S \in Nat
  <2>1. /\ FileInv /\ LogAgrees /\ CheckedInv /\ ServeTypes /\ Identity /\ num \in Nat
        /\ Numbers(log, "round_start") = 1..num /\ phase \in {"hooks", "gap"} /\ num > 0
        /\ WRITE_BEFORE_S \in Nat
    BY GapAssumption DEF StopInv, FileInv, ServeTypes, Watched, Numbered
  <2> QED
    BY <2>1
<1>1. since \in Nat /\ since <= WRITE_BEFORE_S /\ num \in Pending
  BY InTime
<1>2. idle' = 0 /\ since' = since
  BY PollEffect, Zenon DEF Polled
<1>3. PICK v : v = View
  OBVIOUS
<1>4. v.log = log /\ v.files = files /\ v.rec = pidfile /\ v.serve = ServeUp
  BY <1>3, ViewFields
<1>5. PICK c : c = Of(log, "goal_check", num)
  OBVIOUS
<1>6. PW!Checks(log, num) = c
  BY <1>5, WatcherNames, Zenon DEF PW!Checks
<1>7. /\ \A i \in c : log[i].check = results[num].check
      /\ results[num].check # "none" => c # {}
  BY <1>0, <1>5, ChecksTell
<1>8. CASE results[num].check = "green" /\ ~files.stop
  <2>1. c # {} /\ \A i \in c : log[i].check = "green"
    BY <1>7, <1>8
  <2>2. num \in RalphNew
    <3>1. ~PW!RalphWaits(num, v)
      BY <1>4, <1>6, <2>1 DEF PW!RalphWaits
    <3> QED
      BY <1>1, <1>3, <3>1 DEF RalphNew, Pending
  <2>3. PW!ActionFor(num, v)
    <3>1. PW!AllSatisfied(v.log, num)
      BY <1>4, <1>6, <2>1 DEF PW!AllSatisfied
    <3>2. ~PW!RalphLate(num, v)
      <4>1. \A k \in Numbers(log, "round_start") : ~(k > num)
        BY <1>0
      <4> QED
        BY <1>4, <4>1, WatcherNames DEF PW!RalphLate
    <3>3. PW!RalphAlive(v)
      BY <1>0, <1>4 DEF PW!RalphAlive, PW!PidExists, ServeUp, Identity, ServeTypes
    <3> QED
      BY <1>4, <1>8, <3>1, <3>2, <3>3 DEF PW!ActionFor
  <2>4. RalphDue # {}
    BY <1>3, <2>2, <2>3 DEF RalphDue
  <2>5. pc' = "write"
    BY <2>4, RalphPass
  <2>6. since' <= WRITE_BEFORE_S + idle'
    BY <1>0, <1>1, <1>2
  <2> QED
    BY <2>5, <2>6 DEF Writing
<1> QED
  BY <1>8 DEF Judged

(* A round that owes no stop goes on owing none.                           *)
LEMMA JudgedKept ==
  ASSUME UNCHANGED <<recipe, num, phase, results>>, edited => edited', Judged
  PROVE  Judged'
<1>1. Total(num)' = Total(num)
  BY DEF Total
<1>2. SameFailure' <=> SameFailure
  BY DEF SameFailure
<1> QED
  BY <1>1, <1>2, Zenon DEF Judged

(* A step that leaves the round alone, and the time the script has left. *)
LEMMA TimeKept ==
  ASSUME Watched', Owes', OnTime, StopInv,
         UNCHANGED <<recipe, conf, num, phase, results, log, pc, acted>>,
         attentive' => attentive, files.stop => files'.stop, edited => edited',
         in_reach' => in_reach,
         \/ since' = since /\ idle' = idle
         \/ since <= since' /\ since' <= since + 1 /\ idle' = idle + 1,
         since' \in Nat, idle' \in Nat
  PROVE  files'.stop \/ Writing' \/ Looking' \/ Judged' \/ Lost'
<1>0. since \in Nat /\ idle \in Nat /\ {SETTLE_S, WRITE_BEFORE_S} \subseteq Nat
  BY GapAssumption DEF StopInv, FileInv, ServeTypes, ScriptTypes
<1>1. Watched /\ Owes
  BY DEF Watched, Owes
<1>2. CASE files.stop
  BY <1>2
<1>3. CASE Writing
  BY <1>0, <1>3 DEF Writing
<1>4. CASE Looking
  <2>1. PICK p : p = Pending
    OBVIOUS
  <2>2. Pending' = p
    BY <2>1 DEF Pending
  <2>3. PICK m : m = Earliest(p)
    OBVIOUS
  <2>4. pc = "poll" /\ num \notin acted
    BY <1>4 DEF Looking
  <2>5. CASE since < SETTLE_S + idle /\ (recipe = "spend_ceiling" => m = num)
    <3>1. since' < SETTLE_S + idle'
      BY <1>0, <2>5
    <3> QED
      BY <2>2, <2>3, <2>4, <2>5, <3>1 DEF Looking
  <2>6. CASE recipe = "spend_ceiling" /\ since + Cardinality(p) * Lag <= WRITE_BEFORE_S + idle
    <3>1. num \in Nat /\ num \in p /\ p \in SUBSET (1..num)
      BY <1>1, <2>1, <2>4 DEF Pending, StopInv, FileInv, Numbered, Watched, ServeTypes
    <3>2. PICK x \in Nat : x = Cardinality(p) * Lag
      BY <3>1, Turns
    <3>3. since' + x <= WRITE_BEFORE_S + idle'
      BY <1>0, <2>6, <3>2
    <3>4. since' + Cardinality(Pending') * Lag <= WRITE_BEFORE_S + idle'
      BY <2>2, <3>2, <3>3
    <3> QED
      BY <2>4, <2>6, <3>4 DEF Looking
  <2> QED
    BY <1>4, <2>1, <2>3, <2>5, <2>6 DEF Looking
<1>5. CASE Judged
  BY <1>5, JudgedKept
<1>6. CASE Lost
  BY <1>0, <1>6 DEF Lost
<1> QED
  BY <1>1, <1>2, <1>3, <1>4, <1>5, <1>6 DEF OnTime

(* The round ends: a script that watches has not looked at it yet. *)
LEMMA EndIsInTime ==
  ASSUME StopInv, RoundEnd, Watched', Owes'
  PROVE  Writing' \/ Looking'
<1>0. /\ FileInv /\ Ready /\ TodoFits /\ num \in Nat /\ idle \in Nat /\ num > 0
      /\ {SETTLE_S, WRITE_BEFORE_S} \subseteq Nat /\ SETTLE_S > 0 /\ Numbered /\ phase = "checked"
  <2>1. /\ FileInv /\ Ready /\ TodoFits /\ num \in Nat /\ idle \in Nat
        /\ {SETTLE_S, WRITE_BEFORE_S, WRITE_AFTER_S} \subseteq Nat /\ WRITE_AFTER_S < SETTLE_S
        /\ Numbered /\ phase = "checked"
        /\ phase \in {"round", "checked", "hooks", "gap"} => num > 0
    BY GapAssumption DEF StopInv, FileInv, ServeTypes, ScriptTypes, RoundEnd
  <2> QED
    BY <2>1
<1>1. /\ UNCHANGED <<recipe, conf, num, acted, pc, idle>> /\ since' = 0
      /\ attentive' => Busy
  BY Zenon DEF RoundEnd, script
<1>2. recipe \in Stopping
  BY <1>1 DEF Owes, Stopping
<1>3. num \notin acted
  BY <1>0, <1>2 DEF Ready, Numbered
<1>4. pc \in {"poll", "write"}
  BY <1>0, <1>1, <1>2 DEF Watched, Busy, TodoFits, Stopping
<1>5. CASE pc = "write"
  BY <1>0, <1>1, <1>5 DEF Writing
<1>6. CASE pc = "poll"
  <2>1. PICK p : p = Pending'
    OBVIOUS
  <2>2. p \in SUBSET (1..num) /\ num \in p
    <3>1. PICK e : e = Numbers(log', "round_end")
      OBVIOUS
    <3>2. FileInv' /\ phase' = "hooks"
      BY <1>0, FileInvStep DEF RoundEnd, Next
    <3>3. e \subseteq 1..num /\ num \in e
      BY <1>1, <3>1, <3>2 DEF FileInv, Numbered
    <3>4. p = e \ acted
      BY <1>1, <2>1, <3>1 DEF Pending
    <3> QED
      BY <1>3, <3>3, <3>4
  <2>3. CASE recipe = "spend_ceiling"
    <3>1. p = Pending \cup {num}
      <4>1. PICK e, f : e = Numbers(log, "round_end") /\ f = Numbers(log', "round_end")
        OBVIOUS
      <4>2. f = e \cup {num}
        <5>1. log' = Append(log, Event("round_end", num, Bare)) /\ "round_end" \in EvKinds
          BY DEF RoundEnd, EvKinds
        <5>2. log \in Seq(Happening)
          BY <1>0 DEF FileInv, ServeTypes
        <5>3. Longer(log, log', "round_end", num, Bare)
          BY <1>0, <5>1, <5>2, Recorded, BareType
        <5> QED
          BY <4>1, <5>3, NumbersGrow
      <4> QED
        BY <1>1, <1>3, <2>1, <4>1, <4>2 DEF Pending
    <3>2. Cardinality(p) * Lag <= WRITE_BEFORE_S
      BY <2>3, <3>1 DEF Watched, RoundEnd
    <3>3. PICK x \in Nat : x = Cardinality(p) * Lag
      BY <1>0, <2>2, Turns
    <3>4. since' + Cardinality(Pending') * Lag <= WRITE_BEFORE_S + idle'
      BY <1>0, <1>1, <2>1, <3>2, <3>3
    <3> QED
      BY <1>1, <1>3, <1>6, <2>3, <3>4 DEF Looking
  <2>4. CASE recipe # "spend_ceiling"
    <3>1. since' < SETTLE_S + idle'
      BY <1>0, <1>1
    <3> QED
      BY <1>1, <1>3, <1>6, <2>4, <3>1 DEF Looking
  <2> QED
    BY <2>3, <2>4
<1> QED
  BY <1>4, <1>5, <1>6

(* The hooks have run: neither the log's rounds nor the check has changed. *)
LEMMA HooksInTime ==
  ASSUME StopInv, HooksEnd, OnTime, Watched', Owes'
  PROVE  files'.stop \/ Writing' \/ Looking' \/ Judged'
<1>0. FileInv /\ ServeTypes /\ num \in Nat /\ num > 0 /\ phase = "hooks"
  <2>1. /\ FileInv /\ ServeTypes /\ num \in Nat /\ phase = "hooks"
        /\ phase \in {"round", "checked", "hooks", "gap"} => num > 0
    BY DEF StopInv, FileInv, ServeTypes, HooksEnd
  <2> QED
    BY <2>1
<1>1. UNCHANGED <<recipe, conf, num, acted, pc, idle, since, files, edited, attentive>>
  BY Zenon DEF HooksEnd, script
<1>2. [Next]_vars
  BY DEF Next
<1>3. Watched /\ Owes
  <2>1. "give_up" \notin Kinds(log)
    BY <1>0, <1>2, LogGrows DEF Watched
  <2>2. in_reach /\ (recipe = "spend_ceiling" => since < SETTLE_S)
    BY Zenon DEF Watched, HooksEnd
  <2> QED
    BY <1>0, <1>1, <2>1, <2>2 DEF Watched, Owes
<1>4. Numbers(log', "round_end") = Numbers(log, "round_end")
  <2>1. PICK t : t = log'
    OBVIOUS
  <2>2. UsageRecorded
    BY <1>0, HooksEndEffect
  <2>3. PICK o \in Result : t = log \/ t = Append(log, Event("usage", num, o))
    BY <2>1, <2>2, UsageUpdate, <1>0
  <2>4. CASE t = Append(log, Event("usage", num, o))
    <3>1. Longer(log, t, "usage", num, o)
      BY <1>0, <2>4, Recorded DEF ServeTypes, EvKinds
    <3> QED
      BY <2>1, <3>1, NumbersGrow
  <2> QED
    BY <2>1, <2>3, <2>4
<1>5. Looking => Looking'
  <2>1. Pending' = Pending
    BY <1>1, <1>4 DEF Pending
  <2>2. Earliest(Pending') = Earliest(Pending) /\ Cardinality(Pending') = Cardinality(Pending)
    BY <2>1
  <2> QED
    BY <1>1, <2>2 DEF Looking
<1>6. Writing => Writing'
  BY <1>1 DEF Writing
<1>7. Judged => Judged'
  <2>1. \A k \in 1..num : results'[k].check = results[k].check /\ results'[k].value = results[k].value
    <3>1. ASSUME NEW k \in 1..num
          PROVE  results'[k].check = results[k].check /\ results'[k].value = results[k].value
      <4>1. Settled(k)
        BY <1>0 DEF Settled
      <4> QED
        BY <1>0, <1>2, <4>1, ResultsKept
    <3> QED
      BY <3>1
  <2>2. recipe = "repeat_fail" => num = 2
    BY <1>3 DEF Owes
  <2>3. CASE recipe = "repeat_fail"
    <3>1. SameFailure' <=> SameFailure
      BY <2>1, <2>2, <2>3 DEF SameFailure
    <3> QED
      BY <1>1, <2>3, <3>1 DEF Judged
  <2>4. CASE recipe = "ralph"
    BY <1>0, <1>1, <2>1, <2>4 DEF Judged
  <2>5. Judged => recipe \in {"repeat_fail", "ralph"}
    BY <1>0 DEF Judged
  <2> QED
    BY <2>3, <2>4, <2>5
<1>8. ~Lost
  <2>1. in_reach' /\ (in_reach' <=> in_reach /\ (recipe = "spend_ceiling" => since < SETTLE_S))
    BY Zenon DEF Watched, HooksEnd
  <2>2. since \in Nat /\ SETTLE_S \in Nat
    BY <1>0, GapAssumption DEF ServeTypes
  <2> QED
    BY <2>1, <2>2 DEF Lost
<1> QED
  BY <1>1, <1>3, <1>5, <1>6, <1>7, <1>8 DEF OnTime

(* A poll in time leads to the write, or finds that none is due.           *)
LEMMA PollInTime ==
  ASSUME Margins, StopInv, OnTime, Poll, Watched', Owes'
  PROVE  files'.stop \/ Writing' \/ Looking' \/ Judged' \/ Lost'
<1>1. /\ pc = "poll"
      /\ UNCHANGED <<recipe, conf, phase, num, results, log, files, edited, attentive, in_reach,
                     since>>
  BY PollEffect, Zenon DEF Polled
<1>2. Watched /\ Owes
  BY <1>1 DEF Watched, Owes
<1>3. ~Writing
  BY <1>1 DEF Writing
<1>4. ASSUME Looking PROVE files.stop \/ Writing' \/ Looking' \/ Judged \/ Lost
  <2>1. CASE recipe = "spend_ceiling"
    BY <1>2, <1>4, <2>1, SpendLooks
  <2>2. CASE recipe = "repeat_fail"
    BY <1>2, <1>4, <2>2, FailLooks
  <2>3. CASE recipe = "ralph"
    BY <1>2, <1>4, <2>3, RalphLooks
  <2> QED
    BY <1>2, <2>1, <2>2, <2>3 DEF Owes
<1>5. Judged => Judged'
  BY <1>1, JudgedKept
<1>6. Lost => Lost'
  BY <1>1 DEF Lost
<1> QED
  BY <1>1, <1>2, <1>3, <1>4, <1>5, <1>6 DEF OnTime

(* A write that is due and in time is made. *)
LEMMA WriteInTime ==
  ASSUME StopInv, OnTime, DoWrite, Watched', Owes'
  PROVE  files'.stop
<1>0. /\ FileInv /\ Ready /\ Identity /\ TodoFits /\ files \in Files
      /\ UNCHANGED <<recipe, conf, phase, num, log, life, pidfile>>
  BY ScriptStepEffect DEF StopInv, FileInv, ScriptTypes, ScriptStep
<1>1. pc = "write" /\ (Lands \/ HoldsBack)
  BY DoWriteEffect
<1>2. recipe \in {"spend_ceiling", "repeat_fail", "ralph"}
  BY <1>0 DEF Owes
<1>3. CASE Lands
  <2>1. files' = [files EXCEPT !.stop = TRUE]
    <3>1. files' = Written
      BY <1>3, Zenon DEF Lands
    <3> QED
      BY <1>2, <3>1, WrittenStop
  <2> QED
    BY <1>0, <2>1 DEF Files
<1>4. CASE HoldsBack
  <2>1. ~MayWrite /\ files' = files /\ (attentive' => attentive)
    BY <1>4, Zenon DEF HoldsBack
  <2>2. phase \in {"hooks", "gap"} /\ attentive
    BY <1>0, <2>1 DEF Watched
  <2>3. CASE recipe = "spend_ceiling"
    <3>1. Latches /\ latched = life
      BY <1>0, <2>2, <2>3 DEF Ready, Latches
    <3>2. ~SC!Finished(View)
      BY <1>0, <2>2, <3>1, ViewFields DEF SC!Finished, SC!Alive, SC!SameProcess, ServeUp, Identity
    <3> QED
      BY <2>1, <2>3, <3>2 DEF MayWrite, SC!MayWrite
  <2>4. CASE recipe = "repeat_fail"
    <3>1. ~RF!MayWrite(View)
      BY <2>1, <2>4 DEF MayWrite
    <3> QED
      BY <2>1, <3>1, ViewFields DEF RF!MayWrite
  <2>5. CASE recipe = "ralph"
    BY <2>1, <2>5 DEF MayWrite
  <2> QED
    BY <1>2, <2>3, <2>4, <2>5
<1> QED
  BY <1>1, <1>3, <1>4

(* A script that watches is in time, whatever happens next.                *)
LEMMA OnTimeStep ==
  ASSUME Margins
  PROVE  StopInv /\ OnTime /\ [Next]_vars => OnTime'
<1> SUFFICES ASSUME StopInv, OnTime, [Next]_vars, Watched', Owes'
             PROVE  files'.stop \/ Writing' \/ Looking' \/ Judged' \/ Lost'
  BY DEF OnTime
<1>0. /\ FileInv /\ Ready /\ TodoFits /\ ServeTypes /\ UNCHANGED <<recipe, conf>>
      /\ since \in Nat /\ idle \in Nat
      /\ phase \in {"hooks", "gap"} /\ attentive => Busy
  BY ConfEffect DEF StopInv, FileInv, ServeTypes, ScriptTypes, Ready
<1>1. recipe \in Stopping
  BY <1>0 DEF Owes, Stopping
<1>2. phase' \in {"hooks", "gap"} /\ attentive'
  BY DEF Watched
<1>3. CASE UNCHANGED vars
  <2>1. UNCHANGED <<recipe, conf, num, phase, results, log, pc, acted, attentive, in_reach,
                    files, edited, since, idle>>
    BY <1>3, Zenon DEF vars, serve, record, script
  <2> QED
    BY <1>0, <2>1, TimeKept
<1>4. CASE ServeStep
  <2>1. CASE RoundEnd
    BY <2>1, EndIsInTime
  <2>2. CASE HooksEnd
    BY <2>2, HooksInTime
  <2>3. CASE MonthTurns
    BY <1>1, <2>3 DEF MonthTurns, Stopping
  <2>4. CASE ~(RoundEnd \/ HooksEnd \/ MonthTurns)
    <3>1. phase' \in {"top", "round", "checked", "down"}
      BY <1>4, <2>4, Zenon DEF ServeStep, ServeStart, ServeTop, GoalCheck, ServeGivesUp,
         ServeExits, ServeCrash, PidReused
    <3> QED
      BY <1>2, <3>1
  <2> QED
    BY <2>1, <2>2, <2>3, <2>4
<1>5. CASE Tick
  <2>1. /\ UNCHANGED <<recipe, conf, num, phase, results, log, pc, acted, attentive, in_reach,
                       files, edited>>
        /\ since' = IF since > DELAY_S THEN since ELSE since + 1
        /\ idle' = IF Busy THEN idle + 1 ELSE 0
    BY <1>5, Zenon DEF Tick, script
  <2>2. Busy
    BY <1>0, <1>2, <2>1
  <2>3. /\ since <= since' /\ since' <= since + 1 /\ idle' = idle + 1
        /\ since' \in Nat /\ idle' \in Nat
    BY <1>0, <2>1, <2>2
  <2> QED
    BY <1>0, <2>1, <2>3, TimeKept
<1>6. CASE ScriptStep
  <2>1. UNCHANGED <<recipe, conf, phase, num, results, log, since>>
    BY <1>6, ScriptStepEffect
  <2>2. CASE EditsConfig
    <3>1. recipe \in {"repeat_fail", "rsi_exam"} /\ edited' = TRUE
      BY <2>2, Zenon DEF EditsConfig
    <3> QED
      BY <1>0, <1>1, <3>1 DEF Judged, Stopping
  <2>3. CASE Queues
    BY <1>1, <2>3 DEF Queues, Stopping
  <2>4. CASE Start \/ Latch
    <3>1. pc \in {"off", "latch"} /\ attentive' = attentive
      BY <2>4, Zenon DEF Start, Latch
    <3> QED
      BY <1>0, <1>2, <2>1, <3>1 DEF Busy
  <2>5. CASE Finish \/ ScriptDies
    <3>1. attentive' = FALSE
      BY <2>5, Zenon DEF Finish, ScriptDies
    <3> QED
      BY <1>2, <3>1
  <2>6. CASE Poll
    BY <2>6, PollInTime
  <2>7. CASE Examined
    BY <1>0, <1>1, <2>7 DEF Examined, TodoFits, Stopping
  <2>8. CASE DoWrite
    BY <2>8, WriteInTime
  <2>9. CASE Swap
    BY <1>0, <1>1, <2>9 DEF Swap, TodoFits, Stopping
  <2> QED
    BY <1>6, <2>2, <2>3, <2>4, <2>5, <2>6, <2>7, <2>8, <2>9 DEF ScriptStep
<1> QED
  BY <1>3, <1>4, <1>5, <1>6 DEF Next, ServeStep, ScriptStep

(* Only the top of serve's loop starts a round.                            *)
LEMMA PhaseTops ==
  ASSUME [Next]_vars, phase = "gap", phase' = "round"
  PROVE  ServeTop
<1>1. phase' # phase
  BY DEF vars
<1>2. UNCHANGED vars => phase' = phase
  BY Zenon DEF vars, serve
<1>3. ScriptStep => phase' = phase
  BY ScriptStepEffect
<1>4. Tick => phase' = phase
  BY Zenon DEF Tick
<1>5. ServeStep
  BY <1>1, <1>2, <1>3, <1>4 DEF Next, ServeStep, ScriptStep
<1>6. CASE MonthTurns
  BY <1>1, <1>6, Zenon DEF MonthTurns, serve
<1>7. CASE ~MonthTurns /\ ~ServeTop
  BY <1>5, <1>7, Zenon DEF ServeStep, ServeStart, GoalCheck, RoundEnd, HooksEnd, ServeGivesUp,
     ServeExits, ServeCrash, PidReused
<1> QED
  BY <1>6, <1>7

(* A round that would follow one that owes a stop starts too late for it. *)
LEMMA NoRoundAfterStop ==
  ASSUME Margins, StopInv, OnTime, [Next]_vars,
         phase = "gap", phase' = "round", attentive, in_reach, "give_up" \notin Kinds(log)
  PROVE  ~StopDue
<1> SUFFICES ASSUME StopDue PROVE FALSE
  OBVIOUS
<1>0. /\ FileInv /\ ServeTypes /\ Ready /\ num \in Nat /\ since \in Nat /\ rest \in Nat /\ idle \in Nat
      /\ {SETTLE_S, WRITE_BEFORE_S, DELAY_S} \subseteq Nat /\ Lag \in Nat
  BY GapAssumption, OuterLoopAssumption DEF StopInv, FileInv, ServeTypes, ScriptTypes
<1>1. rest >= conf.delay /\ ~(conf.stop_file /\ files.stop)
  <2>1. RoundBegins
    <3>1. ServeTop
      BY PhaseTops
    <3> QED
      BY <3>1, ServeTopEffect DEF ServeEnds
  <2> QED
    BY <2>1 DEF RoundBegins
<1>2. Watched /\ Owes
  BY DEF Watched, Owes, StopDue
<1>3. Busy /\ pc \notin {"off", "done"}
  BY <1>0 DEF Ready, Busy
<1>4. conf.delay = DELAY_S /\ conf.stop_file
  BY <1>0, <1>3 DEF Owes, StopDue, Ready
<1>5. since >= DELAY_S /\ ~files.stop
  BY <1>0, <1>1, <1>4 DEF StopInv, GapInv
<1>6. ~Judged /\ ~Lost
  BY DEF Judged, StopDue, SameFailure, Lost
<1>7. ~Writing
  <2>1. pc = "write" => idle <= Lag
    BY DEF StopInv, GapInv
  <2> QED
    BY <1>0, <1>5, <2>1 DEF Writing, Margins
<1>8. ~Looking
  <2>1. Looking => since <= WRITE_BEFORE_S
    BY <1>2, InTime
  <2> QED
    BY <1>0, <1>5, <2>1 DEF Margins
<1> QED
  BY <1>2, <1>5, <1>6, <1>7, <1>8 DEF OnTime

(* Before the first serve and the first script.                            *)
LEMMA StopInit == Init => StopInv /\ OnTime
<1> SUFFICES ASSUME Init PROVE StopInv /\ OnTime
  OBVIOUS
<1>1. FileInv /\ GapInv
  BY InitFiles
<1>2. LogAgrees
  BY DEF Init, LogAgrees, Agree
<1>3. UsageInv /\ CheckedInv
  BY DEF Init, UsageInv, CheckedInv
<1>4. SpentInv
  BY SpentInit
<1>5. Ready
  BY OuterLoopAssumption DEF Init, Ready
<1>6. OnTime
  BY DEF Init, OnTime, Watched
<1> QED
  BY <1>1, <1>2, <1>3, <1>4, <1>5, <1>6 DEF StopInv

(* The facts the argument rests on are inductive together.                 *)
LEMMA StopInvStep ==
  ASSUME Margins
  PROVE  StopInv /\ [Next]_vars => StopInv'
<1>1. WRITE_BEFORE_S + Lag < DELAY_S
  BY DEF Margins
<1> QED
  BY <1>1, FileInvStep, LogAgreesStep, UsageInvStep, CheckedInvStep, SpentInvStep, GapInvStep,
     ReadyStep DEF StopInv

(* When a script has watched since the round ended, no round follows one    *)
(* whose costs reach the ceiling, whose failure repeats the one before, or  *)
(* whose goal is satisfied: the stop file is there in time, whatever the    *)
(* outcomes, the configuration, the time the hooks take and the number of   *)
(* rounds, when the windows and a script's lag fit in the delay.  What      *)
(* spend_ceiling does not reach is out of StopIsTimely itself: a round with *)
(* more rounds before it than the window has polls for, and a usage later   *)
(* than SETTLE_S.                                                           *)
THEOREM StopComesInTime ==
  ASSUME Margins
  PROVE  Spec => StopIsTimely
<1>1. Init => StopInv /\ OnTime
  BY StopInit
<1>2. StopInv /\ OnTime /\ [Next]_vars => StopInv' /\ OnTime'
  BY StopInvStep, OnTimeStep
<1>3. StopInv /\ OnTime /\ [Next]_vars
        => [(phase = "gap" /\ phase' = "round" /\ attentive /\ in_reach
                /\ "give_up" \notin Kinds(log))
                    => ~StopDue]_vars
  BY NoRoundAfterStop
<1> QED
  BY <1>1, <1>2, <1>3, PTL DEF Spec, StopIsTimely

=============================================================================
