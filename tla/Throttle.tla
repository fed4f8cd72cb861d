------------------------------ MODULE Throttle ------------------------------
(***************************************************************************)
(* Transient errors (_throttle.py, _round_outcome.py, and serve's use of    *)
(* them).  Nothing is kept in memory: whether an agent is throttled, until  *)
(* when, and how far its back-off has climbed are read from the newest two  *)
(* monthly event files each time.  Serve reads them twice before it emits   *)
(* a recovered event, and a round that is not serve's (run by hand, or left *)
(* by a serve that died) may append in between.                             *)
(***************************************************************************)
EXTENDS Integers, Sequences, FiniteSets

CONSTANTS
    Agents,
    Deployments,        \* [regime, used]: the agents used; "skip" (phase_policy), or
                        \* transient_error_action: "back_off", "stop", "launch" (its "skip")
    BASE, EXP_CAP, ABSOLUTE_CAP_S,
    BACK_OFF_CAP_S,     \* the longest single sleep
    SANITY_S,           \* a reset further away than this is malformed
    AccountResets,      \* how far away a server's own reset time can be
    MaxNow, MaxEvents,
    MaxFaults           \* bound: deaths of serve, foreign rounds, month and clock changes

ASSUME ThrottleAssumption ==
    /\ Deployments \subseteq [regime : {"skip", "back_off", "stop", "launch"},
                            used : (SUBSET Agents) \ {{}}]
    /\ {BASE, EXP_CAP, ABSOLUTE_CAP_S, BACK_OFF_CAP_S, SANITY_S,
        MaxNow, MaxEvents, MaxFaults} \subseteq Nat
    /\ BASE <= ABSOLUTE_CAP_S /\ ABSOLUTE_CAP_S <= BACK_OFF_CAP_S /\ BASE <= SANITY_S
    /\ AccountResets \subseteq Nat /\ IsFiniteSet(Agents)

VARIABLES
    regime,
    used,       \* agents of the configuration
    log,        \* every event: [ev, agent, class, reset, at]
    month,      \* how many of them are in last month's file
    now,
    pc,         \* of serve: down, top, scan, emit, select, paused, sleep, round
    active,     \* the map _active_throttles returned to the skip path
    cleared,    \* the recovered events still to emit
    nap,        \* the back-off: [agent, deadline, left]
    ran,        \* the agent of the round that runs
    faults,
    \* history
    seen,       \* events there were when serve last read the log, for this round
    raced,      \* a foreign round reported between serve's scan and its emit
    capped      \* a back-off was cut short by BACK_OFF_CAP_S

vars == <<regime, used, log, month, now, pc, active, cleared, nap, ran, faults, seen, raced, capped>>

NoState == [agent |-> "none", class |-> "none", reset |-> 0]
NoNap == [agent |-> "none", deadline |-> 0, left |-> 0]

Transient == {"detected", "recovered"}
Least(a, b) == IF a < b THEN a ELSE b
Greatest(S) == CHOOSE x \in S : \A y \in S : y <= x

----------------------------------------------------------------------------
(* What is read from the events. *)

(* A reset out of [0, now + about a year] counts as none at all. *)
CoerceEpochInt(value, default) == IF value > now + SANITY_S THEN default ELSE value

(* The newest two files; there are never more here. *)
TailEvents == log
NewestFile == SubSeq(log, month + 1, Len(log))
OlderFile == SubSeq(log, 1, month)

(* The last transient event of one file: the event, or the file has none. *)
ScanForTransient(file) ==
    LET at == {i \in DOMAIN file : file[i].ev \in Transient}
    IN  IF at = {} THEN [ev |-> "none"] ELSE file[Greatest(at)]

(* The older file is read only when the newest has no transient event. *)
LatestUnrecoveredDetected ==
    LET new == ScanForTransient(NewestFile)
        latest == IF new.ev = "none" THEN ScanForTransient(OlderFile) ELSE new
    IN  IF latest.ev = "detected" THEN latest ELSE [ev |-> "none"]

TransientAt(agent) ==
    {i \in DOMAIN TailEvents : TailEvents[i].ev \in Transient /\ TailEvents[i].agent = agent}

Troubled == {a \in Agents : TransientAt(a) # {}}

LatestOldestFirst ==
    LET Old(a) == TransientAt(a) \cap 1..month
    IN  [a \in Troubled |->
            TailEvents[Greatest(IF Old(a) = {} THEN TransientAt(a) ELSE Old(a))]]

(* Per agent, over both files. *)
LatestTransientPerAgent == [a \in Troubled |-> TailEvents[Greatest(TransientAt(a))]]

LessOne(count) == IF count = 0 THEN 0 ELSE count - 1

BackoffExponentSinceRecovered(agent) ==
    LET count[n \in 0..Len(TailEvents)] ==
            IF n = 0 THEN 0
            ELSE IF TailEvents[n].agent # agent THEN count[n - 1]
            ELSE IF TailEvents[n].ev = "detected" THEN count[n - 1] + 1 ELSE 0
    IN  LessOne(count[Len(TailEvents)])

(* Detections since the agent's last success, after the first n events.  A    *)
(* recovered event is no reset point.                                         *)
Detections(agent) ==
    LET count[n \in 0..Len(TailEvents)] ==
            IF n = 0 THEN 0
            ELSE IF TailEvents[n].agent # agent THEN count[n - 1]
            ELSE IF TailEvents[n].ev = "detected" THEN count[n - 1] + 1
            ELSE IF TailEvents[n].ev = "success" THEN 0 ELSE count[n - 1]
    IN  count

BackoffExponent(agent) == LessOne(Detections(agent)[Len(TailEvents)])

(* "account" is the server's own reset time (and any class of a plugin):     *)
(* verbatim.  "model" stands for the classes with a base duration.           *)
ExtendReset(class, reset, exponent) ==
    IF class = "account" \/ exponent <= 0 THEN reset
    ELSE reset + Least(BASE * (2 ^ Least(exponent, EXP_CAP) - 1), ABSOLUTE_CAP_S)

EventsDerivedReset(agent, class, reset, exponents) ==
    ExtendReset(class, reset,
                IF agent \in DOMAIN exponents THEN exponents[agent] ELSE BackoffExponent(agent))

(* The throttle states of the agents that are throttled at this instant. *)
ActiveThrottles(latest, exponents) ==
    LET State(e) == [agent |-> e.agent, class |-> e.class,
                     reset |-> EventsDerivedReset(e.agent, e.class,
                                   CoerceEpochInt(e.reset, 0), exponents)]
        detected == {e \in {latest[a] : a \in DOMAIN latest} : e.ev = "detected"}
        throttled == {s \in {State(e) : e \in detected} : s.reset > now}
    IN  [a \in {s.agent : s \in throttled} |-> CHOOSE s \in throttled : s.agent = a]

NoCache == [a \in {} |-> 0]
ActiveNow == ActiveThrottles(LatestTransientPerAgent, NoCache)

(* The scalar: only the newest transient event of all agents. *)
CheckThrottleState ==
    LET d == LatestUnrecoveredDetected
        reset == EventsDerivedReset(d.agent, d.class, CoerceEpochInt(d.reset, 0), NoCache)
    IN  IF d.ev = "none" THEN NoState
        ELSE IF reset <= now THEN NoState
        ELSE [agent |-> d.agent, class |-> d.class, reset |-> reset]

(* The monitor's detector, over the events of all files: the newest transient *)
(* event of any agent decides.                                                *)
DetectRateLimitActive ==
    LET newest == ScanForTransient(TailEvents)
        reset == EventsDerivedReset(newest.agent, newest.class,
                                    CoerceEpochInt(newest.reset, 0), NoCache)
    IN  newest.ev = "detected" /\ reset > now

ViewWithoutFallback ==
    LET scalar == CheckThrottleState
    IN  [scalar |-> IF scalar.agent \in DOMAIN ActiveNow THEN ActiveNow[scalar.agent]
                    ELSE scalar,
         active |-> ActiveNow]

(* What peek and the progress page show. *)
EffectiveThrottleView ==
    LET scalar == CheckThrottleState
        act == ActiveNow
        last == CHOOSE a \in DOMAIN act : \A b \in DOMAIN act : act[b].reset <= act[a].reset
    IN  [scalar |-> IF scalar # NoState /\ scalar.agent \in DOMAIN act THEN act[scalar.agent]
                    ELSE IF scalar = NoState /\ act # NoCache THEN act[last]
                    ELSE scalar,
         active |-> act]

(* The agents whose throttle is over, by the map computed earlier and the    *)
(* events read now.                                                          *)
PendingRecovered(map) ==
    LET latest == LatestTransientPerAgent
    IN  {a \in DOMAIN latest : latest[a].ev = "detected" /\ a \notin DOMAIN map}

(* Where a back-off that starts now ends. *)
ComputeAdjustedResetAt(class, original, agent) ==
    IF class = "account" THEN original
    ELSE now + Least(BASE * 2 ^ Least(BackoffExponent(agent), EXP_CAP), ABSOLUTE_CAP_S)

CountsWithoutReset(counts, e) ==
    IF e.ev = "detected" THEN [counts EXCEPT ![e.agent] = @ + 1] ELSE counts

(* One step of round_outcome's fold over the same events, for the exponents. *)
FoldCounts(counts, e) ==
    IF e.ev = "detected" THEN [counts EXCEPT ![e.agent] = @ + 1]
    ELSE IF e.ev = "success" THEN [counts EXCEPT ![e.agent] = 0]
    ELSE counts

(* The dictionaries of round_outcome after the first n events of its one scan. *)
DetectedCount ==
    LET touched == {a \in Agents : \E i \in DOMAIN TailEvents :
                        TailEvents[i].ev # "recovered" /\ TailEvents[i].agent = a}
        counts[n \in 0..Len(TailEvents)] ==
            IF n = 0 THEN [a \in touched |-> 0]
            ELSE FoldCounts(counts[n - 1], TailEvents[n])
    IN  counts

FoldTransient ==
    LET latest[n \in 0..Len(TailEvents)] ==
            IF n = 0 THEN [a \in Troubled |-> [ev |-> "none"]]
            ELSE IF TailEvents[n].ev \in Transient
            THEN [latest[n - 1] EXCEPT ![TailEvents[n].agent] = TailEvents[n]]
            ELSE latest[n - 1]
    IN  latest

(* What serve's post-round block reads. *)
RoundOutcome ==
    LET counts == DetectedCount[Len(TailEvents)]
    IN  [transient |-> FoldTransient[Len(TailEvents)],
         exponents |-> [a \in DOMAIN counts |-> LessOne(counts[a])]]

(* The throttles by which the crash-loop breaker excuses the round that just  *)
(* ran.                                                                       *)
RoundScan ==
    LET o == RoundOutcome
    IN  ActiveThrottles(o.transient, o.exponents)

----------------------------------------------------------------------------
Emit(ev, agent, class, reset, at) ==
    log' = Append(log, [ev |-> ev, agent |-> agent, class |-> class, reset |-> reset,
                        at |-> at])

(* Nobody reads the other fields of these two. *)
EmitBare(ev, agent) == Emit(ev, agent, "none", 0, 0)

Init ==
    /\ \E d \in Deployments : regime = d.regime /\ used = d.used
    /\ log = <<>> /\ month = 0 /\ now = 0
    /\ pc = "top" /\ active = NoCache /\ cleared = {} /\ nap = NoNap /\ ran = "none"
    /\ faults = 0
    /\ seen = 0 /\ raced = FALSE /\ capped = FALSE

Launch(agent) == pc' = "round" /\ ran' = agent /\ active' = NoCache

(* The skip path: the map of active throttles ... *)
SkipScan ==
    /\ pc = "top" /\ regime = "skip"
    /\ active' = ActiveNow /\ seen' = Len(log)
    /\ pc' = "scan"
    /\ UNCHANGED <<regime, used, log, month, now, cleared, nap, ran, faults,
                   raced, capped>>

(* ... then a second scan for the ones that are over ... *)
SkipRescan ==
    /\ pc = "scan"
    /\ cleared' = PendingRecovered(active)
    /\ pc' = IF cleared' = {} THEN "select" ELSE "emit"
    /\ UNCHANGED <<regime, used, log, month, now, active, nap, ran, faults,
                   seen, raced, capped>>

(* ... and an event for each. *)
EmitRecovered ==
    /\ pc = "emit" /\ Len(log) < MaxEvents
    /\ \E a \in cleared :
          /\ EmitBare("recovered", a)
          /\ cleared' = cleared \ {a}
    /\ pc' = IF cleared' = {} THEN "select" ELSE "emit"
    /\ UNCHANGED <<regime, used, month, now, active, nap, ran, faults, seen,
                   raced, capped>>

(* A phase whose agent is free runs; else serve waits for the first reset, or *)
(* halts if transient_error_action says so.                                   *)
SkipSelect ==
    /\ pc = "select"
    /\ IF used \subseteq DOMAIN active
       THEN pc' \in {"paused", "down"} /\ UNCHANGED <<ran, active>>
       ELSE \E a \in used \ DOMAIN active : Launch(a)
    /\ UNCHANGED <<regime, used, log, month, now, cleared, nap, faults, seen,
                   raced, capped>>

PauseEnds ==
    /\ pc = "paused"
    /\ \E a \in used \cap DOMAIN active : active[a].reset <= now
    /\ pc' = "top" /\ active' = NoCache /\ seen' = 0
    /\ UNCHANGED <<regime, used, log, month, now, cleared, nap, ran, faults,
                   raced, capped>>

(* The other regimes look at the scalar only. *)
GateThrottle ==
    /\ pc = "top" /\ regime # "skip"
    /\ seen' = Len(log)
    /\ LET t == CheckThrottleState
           d == LatestUnrecoveredDetected
           raw == IF d.ev # "none" /\ d.agent = t.agent THEN CoerceEpochInt(d.reset, t.reset)
                  ELSE t.reset
           deadline == ComputeAdjustedResetAt(t.class, raw, t.agent)
           wait == IF deadline > now THEN deadline - now ELSE 0
       IN  CASE t = NoState \/ regime = "launch" ->
                  /\ \E a \in used : Launch(a)
                  /\ UNCHANGED <<nap, capped>>
             [] t # NoState /\ regime = "back_off" ->
                  /\ nap' = [agent |-> t.agent, deadline |-> deadline,
                             left |-> Least(wait, BACK_OFF_CAP_S)]
                  /\ capped' = (capped \/ wait > BACK_OFF_CAP_S)
                  /\ pc' = "sleep" /\ UNCHANGED <<ran, active>>
             [] t # NoState /\ regime = "stop" ->
                  /\ pc' = "down" /\ UNCHANGED <<nap, ran, active, capped>>
    /\ UNCHANGED <<regime, used, log, month, now, cleared, faults, raced>>

(* The sleep is over; the round follows without another look at the events. *)
BackOffEnds ==
    /\ pc = "sleep" /\ Len(log) < MaxEvents
    /\ nap.left = 0 \/ now >= nap.deadline
    /\ EmitBare("recovered", nap.agent)
    /\ \E a \in used : Launch(a)
    /\ nap' = NoNap
    /\ UNCHANGED <<regime, used, month, now, cleared, faults, seen, raced, capped>>

(* A stop during the back-off, or a crash anywhere; no event is written. *)
ServeDies ==
    /\ pc # "down" /\ faults < MaxFaults
    /\ faults' = faults + 1
    /\ pc' = "down" /\ active' = NoCache /\ cleared' = {} /\ nap' = NoNap /\ ran' = "none"
    /\ seen' = 0
    /\ UNCHANGED <<regime, used, log, month, now, raced, capped>>

ServeStarts ==
    /\ pc = "down"
    /\ pc' = "top"
    /\ UNCHANGED <<regime, used, log, month, now, active, cleared, nap, ran, faults,
                   seen, raced, capped>>

(* What the plugin's hook reports of a round. *)
Reports(agent) ==
    \/ EmitBare("success", agent)
    \/ Emit("detected", agent, "model", now + BASE, now)
    \/ \E r \in AccountResets : Emit("detected", agent, "account", now + r, now)

RoundEnds ==
    /\ pc = "round" /\ Len(log) < MaxEvents
    /\ Reports(ran)
    /\ pc' = "top" /\ ran' = "none" /\ seen' = 0
    /\ UNCHANGED <<regime, used, month, now, active, cleared, nap, faults, raced,
                   capped>>

(* A round that is not this serve's; the round lock keeps the two apart. *)
OtherRoundEnds ==
    /\ pc # "round" /\ Len(log) < MaxEvents /\ faults < MaxFaults
    /\ faults' = faults + 1
    /\ \E a \in used : Reports(a)
    /\ raced' = (raced \/ pc \in {"scan", "emit", "sleep"})
    /\ UNCHANGED <<regime, used, month, now, pc, active, cleared, nap, ran, seen,
                   capped>>

MonthTurns ==
    /\ month = 0 /\ log # <<>> /\ faults < MaxFaults
    /\ faults' = faults + 1
    /\ month' = Len(log)
    /\ UNCHANGED <<regime, used, log, now, pc, active, cleared, nap, ran,
                   seen, raced, capped>>

(* The scans take no time. *)
Tick ==
    /\ now < MaxNow /\ pc \in {"down", "top", "paused", "sleep", "round"}
    /\ now' = now + 1
    /\ nap' = [nap EXCEPT !.left = IF @ > 0 THEN @ - 1 ELSE 0]
    /\ UNCHANGED <<regime, used, log, month, pc, active, cleared, ran, faults,
                   seen, raced, capped>>

(* The clock of a host without one is set right: time jumps, sleeps do not. *)
ClockCorrected ==
    /\ pc = "sleep" /\ now + 2 <= MaxNow /\ faults < MaxFaults
    /\ faults' = faults + 1
    /\ now' = now + 2
    /\ UNCHANGED <<regime, used, log, month, pc, active, cleared, nap, ran, seen, raced, capped>>

Next ==
    \/ SkipScan \/ SkipRescan \/ EmitRecovered \/ SkipSelect \/ PauseEnds
    \/ GateThrottle \/ BackOffEnds \/ ServeDies \/ ServeStarts
    \/ RoundEnds \/ OtherRoundEnds \/ MonthTurns \/ Tick \/ ClockCorrected

Spec == Init /\ [][Next]_vars
----------------------------------------------------------------------------
(* An agent's recovered events never outnumber its throttles: between two of  *)
(* them there is a detection, whatever serve forgets when it restarts and     *)
(* wherever the month turns.  (pending_recovered: "never double-emits".)      *)
RecoveredOnce ==
    \A i, j \in DOMAIN log :
        /\ i < j /\ log[i].ev = "recovered" /\ log[j].ev = "recovered"
        /\ log[i].agent = log[j].agent
        => \E k \in i..j : log[k].ev = "detected" /\ log[k].agent = log[i].agent

(* When an agent may be tried again, from the whole history up to event upto: *)
(* the server's time, or base * 2^(failures in a row - 1) after the failure.  *)
DueAt(agent, upto) ==
    LET Of(ev) == {i \in 1..upto : log[i].ev = ev /\ log[i].agent = agent}
        last == Greatest(Of("detected"))
        row == {i \in Of("detected") : \A s \in Of("success") : s < i}
        n == IF row = {} THEN 0 ELSE Cardinality(row) - 1
    IN  IF Of("detected") = {} THEN 0
        ELSE IF log[last].class = "account"
        THEN IF log[last].reset > log[last].at + SANITY_S THEN 0 ELSE log[last].reset
        ELSE log[last].at + Least(BASE * 2 ^ Least(n, EXP_CAP), ABSOLUTE_CAP_S)

(* Serve never launches a throttled agent early: each failure in a row makes  *)
(* it wait longer, across restarts, recovered events and month files.  This   *)
(* is so when serve routes around throttles, and in the back-off regime for   *)
(* a single agent whose wait fits in one sleep; and as long as no foreign     *)
(* round reports while serve is between a scan and the recovered events.      *)
NoEarlyRetry ==
    [][ /\ pc' = "round" /\ pc # "round" /\ ~raced
        /\ \/ regime = "skip"
           \/ regime # "launch" /\ Cardinality(used) = 1 /\ ~capped
        => now >= DueAt(ran', seen') ]_vars

(* What peek shows hangs together: it names a throttle exactly when some      *)
(* agent is throttled, and then one of those (two scans over two files); and  *)
(* the monitor alerts exactly when the gate of serve would hold a round back. *)
ViewCoherent ==
    LET v == EffectiveThrottleView
    IN  /\ v.scalar = NoState <=> DOMAIN v.active = {}
        /\ v.scalar # NoState => \E a \in DOMAIN v.active : v.scalar = v.active[a]
        /\ DetectRateLimitActive <=> CheckThrottleState # NoState

(* The one scan after a round finds what the separate scans of the gates do:  *)
(* the same agents throttled until the same time.                             *)
FoldAgrees == RoundScan = ActiveNow
=============================================================================
