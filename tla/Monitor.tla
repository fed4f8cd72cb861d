------------------------------ MODULE Monitor ------------------------------
(***************************************************************************)
(* The anomaly monitor (_observe.py, monitor.py, _monitor_state.py): it     *)
(* tails the events log, runs the detectors once per interval, acts once on *)
(* every alert episode, and may stop the service.  The supervisor it        *)
(* watches is here what its events and its process say of it.               *)
(***************************************************************************)
EXTENDS Detectors

CONSTANTS
    Scenarios,      \* [mode, busy, until, rounds, phases, exits, notes, pauses, readings,
                    \*  samples, crashing, allowed, hazards]: serve begins nothing after
                    \*  busy, the monitor polls on until until
    BUFFER,         \* _MONITOR_EVENT_BUFFER
    SEEN_CAP,       \* _MONITOR_SEEN_CAP
    MaxPauses,
    MaxFaults       \* bound: on the hazards of the scenario

ASSUME MonitorAssumption ==
    /\ BUFFER \in Nat
    /\ SEEN_CAP \in Nat /\ SEEN_CAP >= 2 * Cardinality(DetectorNames)
    /\ \A s \in Scenarios : s.crashing \subseteq DetectorNames

VARIABLES
    sc,         \* the scenario: the deployment and what happens in it
    now,
    files,      \* the events of last month's file and of this month's
    cur,        \* the file that emit appends to
    metrics,
    serve,      \* down, dead, idle, round, exited, paused
    term,       \* a SIGTERM reached this serve
    rn,         \* the last round
    mon,        \* off, sleep, alerts, stopping
    polled,     \* the poll of this interval is done
    offsets,    \* of the two files, in the monitor's memory
    buffer,     \* _EventTail.buffer
    alerts,     \* of this poll, still to be handled
    seen,       \* the OrderedDict of episodes: <<k, l>> is in it if k is not newer than l
    faults,
    \* history
    read_to,    \* events there were at the last read
    before,     \* what the poll before did with each of its alerts
    this,       \* what this poll did, so far
    alarmed     \* supervisor_stale was acted on since the last event of serve

svars == <<serve, term, rn, metrics>>
mvars == <<mon, polled, offsets, buffer, alerts, seen, read_to, before, this>>
vars == <<sc, now, files, cur, svars, mvars, faults, alarmed>>

Log == files[1] \o files[2]
Alive == serve \notin {"down", "dead"}
LastOf(seq, n) == SubSeq(seq, Largest({1, Len(seq) - n + 1}), Len(seq))
Nothing == [k \in {} |-> "none"]

(* An OrderedDict of keys alone is the order of its keys. *)
Keys(dict) == {p[1] : p \in dict}
Only(dict, keys) == {p \in dict : p[1] \in keys /\ p[2] \in keys}
Without(dict, key) == Only(dict, Keys(dict) \ {key})
PutLast(dict, key) ==
    Without(dict, key) \cup {<<k, key>> : k \in Keys(dict) \cup {key}}
Capped(dict) ==
    LET oldest == CHOOSE k \in Keys(dict) : \A l \in Keys(dict) : <<k, l>> \in dict
    IN  IF Cardinality(Keys(dict)) > SEEN_CAP THEN Without(dict, oldest) ELSE dict

Init ==
    /\ sc \in Scenarios
    /\ now = 1 /\ files = <<<<>>, <<>>>> /\ cur = 1 /\ metrics = <<>>
    /\ serve = "idle" /\ term = FALSE /\ rn = 0
    /\ mon = "off" /\ polled = FALSE /\ offsets = <<0, 0>> /\ buffer = <<>> /\ alerts = <<>>
    /\ seen = {} /\ faults = 0
    /\ read_to = 0 /\ before = Nothing /\ this = Nothing /\ alarmed = FALSE

Event(ev, round, what, resume) ==
    [ev |-> ev, ts |-> now, rn |-> round, what |-> what, resume |-> resume]
Emit(evs) == files' = [files EXCEPT ![cur] = @ \o evs]
EmitOwn(kinds, detector) ==
    Emit([i \in DOMAIN kinds |-> Event(kinds[i], 0, detector, 0)])

Hazard(h) == h \in sc.hazards /\ faults < MaxFaults /\ faults' = faults + 1

----------------------------------------------------------------------------
(* The supervisor. *)

(* What happens in an interval happens before the poll that ends it, or in the *)
(* confirm window of a stop; the rest of a poll takes no time.  A drain may    *)
(* end at once after the poll.                                                 *)
Unhurried == mon \in {"off", "stopping"} \/ (mon = "sleep" /\ (term \/ ~polled))

ServeEmits(ev, round, what, resume) ==
    /\ Unhurried
    /\ Emit(<<Event(ev, round, what, resume)>>)
    /\ alarmed' = FALSE
    /\ UNCHANGED <<sc, now, cur, metrics, mvars, faults>>

RoundStarts ==
    /\ serve = "idle" /\ ~term /\ now <= sc.busy /\ rn < sc.rounds
    /\ serve' = "round" /\ rn' = rn + 1
    /\ \E phase \in sc.phases : ServeEmits("round_start", rn', phase, 0)
    /\ UNCHANGED term

AgentExits ==
    /\ serve = "round" /\ (term \/ now <= sc.busy)
    /\ serve' = "exited"
    /\ \E outcome \in sc.exits : ServeEmits("agent_exit", rn, outcome, 0)
    /\ UNCHANGED <<term, rn>>

(* The stash of a dirty tree comes before the round_end, what the post-round  *)
(* hooks of the plugins report after it.                                      *)
RoundNotes ==
    /\ now <= sc.busy
    /\ \E ev \in sc.notes :
          /\ serve = (IF ev = "orphan_stashed" THEN "exited" ELSE "idle") /\ rn > 0
          /\ \A i \in DOMAIN Log : ~(Log[i].ev = ev /\ Log[i].rn = rn)
          /\ ServeEmits(ev, rn, "same", 0)
    /\ UNCHANGED <<serve, term, rn>>

RoundEnds ==
    /\ serve = "exited" /\ (term \/ now <= sc.busy)
    /\ serve' = "idle"
    /\ ServeEmits("round_end", rn, "none", 0)
    /\ UNCHANGED <<term, rn>>

Pauses ==
    /\ serve = "idle" /\ ~term /\ now <= sc.busy
    /\ Len(Of(Log, PauseKinds)) < MaxPauses
    /\ serve' = "paused"
    /\ \E ev \in sc.pauses :
          ServeEmits(ev, 0, "none", IF ev = "schedule_paused" THEN now + 1 ELSE 0)
    /\ UNCHANGED <<term, rn>>

(* A pause that a SIGTERM cuts short writes no resume event. *)
Resumes ==
    /\ serve = "paused" /\ ~term /\ now <= sc.busy
    /\ serve' = "idle"
    /\ ServeEmits(IF LastOf(Of(Log, PauseKinds), 1)[1].ev = "schedule_paused"
                  THEN "schedule_resumed" ELSE "round_resumed", 0, "none", 0)
    /\ UNCHANGED <<term, rn>>

Sample ==
    /\ Unhurried /\ Alive /\ now <= sc.busy /\ Len(metrics) < sc.readings
    /\ \E s \in sc.samples : metrics' = Append(metrics, [s EXCEPT !.ts = now])
    /\ UNCHANGED <<sc, now, files, cur, serve, term, rn, mvars, faults, alarmed>>

(* Serve honours the signal between rounds: it drains the one that runs. *)
ServeExits ==
    /\ Unhurried /\ term /\ serve \in {"idle", "paused"}
    /\ serve' = "down" /\ term' = FALSE
    /\ UNCHANGED <<sc, now, files, cur, rn, metrics, mvars, faults, alarmed>>

ServeDies ==
    /\ Unhurried /\ Alive /\ Hazard("serve_dies") /\ now <= sc.busy
    /\ serve' = "dead" /\ term' = FALSE
    /\ UNCHANGED <<sc, now, files, cur, rn, metrics, mvars, alarmed>>

ServeStarts ==
    /\ Unhurried /\ ~Alive /\ Hazard("serve_starts") /\ now <= sc.busy
    /\ serve' = "idle"
    /\ UNCHANGED <<sc, now, files, cur, term, rn, metrics, mvars, alarmed>>

MonthTurns ==
    /\ Unhurried /\ cur = 1 /\ Hazard("month")
    /\ cur' = 2
    /\ UNCHANGED <<sc, now, files, svars, mvars, alarmed>>

----------------------------------------------------------------------------
(* The monitor. *)

MonitorStarts ==
    /\ mon = "off"
    /\ mon' = "sleep" /\ polled' = FALSE
    /\ offsets' = <<0, 0>> /\ buffer' = <<>> /\ alerts' = <<>> /\ seen' = {}
    /\ read_to' = 0 /\ before' = Nothing /\ this' = Nothing
    /\ EmitOwn(<<"monitor_started">>, "none")
    /\ UNCHANGED <<sc, now, cur, svars, faults, alarmed>>

MonitorDies ==
    /\ mon # "off" /\ Hazard("monitor_dies") /\ now <= sc.busy
    /\ mon' = "off"
    /\ UNCHANGED <<sc, now, files, cur, svars, polled, offsets, buffer, alerts, seen,
                   read_to, before, this, alarmed>>

(* From the offset of each file to its end; from the start of a file that     *)
(* is shorter than its offset.                                                *)
NewIn(f) ==
    LET pos == IF Len(files[f]) < offsets[f] THEN 0 ELSE offsets[f]
    IN  SubSeq(files[f], pos + 1, Len(files[f]))
ReadNew == NewIn(1) \o NewIn(2)

TailRead ==
    /\ buffer' = LastOf(buffer \o ReadNew, BUFFER)
    /\ offsets' = <<Len(files[1]), Len(files[2])>>
    /\ read_to' = Len(Log)

(* A detector that raises costs its own verdict and a detector_error. *)
Poll ==
    /\ mon = "sleep" /\ ~polled
    /\ TailRead
    /\ alerts' = RunAllDetectors(buffer', metrics, now, sc.crashing)
    /\ mon' = "alerts" /\ before' = this /\ this' = Nothing
    /\ Emit([i \in 1..Cardinality(sc.crashing) |-> Event("detector_error", 0, "none", 0)])
    /\ UNCHANGED <<sc, now, cur, svars, polled, seen, faults, alarmed>>

PollFailsHalfway ==
    /\ mon = "sleep" /\ ~polled /\ now < sc.until /\ Hazard("poll")
    /\ offsets' = [offsets EXCEPT ![1] = Len(files[1])]
    /\ polled' = TRUE
    /\ UNCHANGED <<sc, now, files, cur, svars, mon, alerts, seen, buffer, read_to, before, this,
                   alarmed>>

(* The configuration, a file of events (whatever was read of the others), or  *)
(* later the metrics cannot be read: the loop sleeps and polls again.         *)
PollFails ==
    /\ mon = "sleep" /\ ~polled /\ now < sc.until /\ Hazard("poll")
    /\ TailRead \/ UNCHANGED <<buffer, offsets, read_to>>
    /\ polled' = TRUE
    /\ UNCHANGED <<sc, now, files, cur, svars, mon, alerts, seen, before, this, alarmed>>

Handle(verdict) ==
    /\ alerts' = Tail(alerts)
    /\ this' = [k \in DOMAIN this \cup {Head(alerts).key} |->
                    IF k = Head(alerts).key THEN verdict ELSE this[k]]

(* The episode is known: it moves to the end of the dict, nothing is done. *)
Suppress ==
    /\ mon = "alerts" /\ alerts # <<>>
    /\ LET key == Head(alerts).key
       IN  /\ key \in Keys(seen)
           /\ seen' = PutLast(seen, key)
    /\ Handle("suppressed")
    /\ UNCHANGED <<sc, now, files, cur, svars, mon, polled, offsets, buffer, faults, read_to,
                   before, alarmed>>

(* A new episode: it is remembered, the oldest evicted past the cap, and the  *)
(* alert yielded and recorded.  A stop is for a detector that asks for one    *)
(* and that the operator allows.                                              *)
NewEpisode ==
    /\ mon = "alerts" /\ alerts # <<>> /\ Head(alerts).key \notin Keys(seen)
    /\ seen' = Capped(PutLast(seen, Head(alerts).key))
    /\ EmitOwn(<<"alert_emitted">>, Head(alerts).detector)
    /\ alarmed' = (alarmed \/ Head(alerts).detector = "supervisor_stale")
    /\ UNCHANGED <<sc, now, cur, metrics, rn, polled, offsets, buffer, faults, read_to, before>>

StopWanted ==
    alerts # <<>> /\ Head(alerts).action = "stop_service" /\ Head(alerts).detector \in sc.allowed

RecordOnly ==
    /\ NewEpisode /\ ~StopWanted
    /\ Handle("none")
    /\ UNCHANGED <<serve, term, mon>>

(* api.stop: a SIGTERM to a plain serve, a queued stop job to its unit; a     *)
(* unit file that does not own the running serve reaches nobody.              *)
StopService ==
    /\ NewEpisode /\ StopWanted
    /\ mon' = "stopping"
    /\ term' = (Alive /\ (sc.mode # "stale_unit" \/ term))
    /\ UNCHANGED <<serve, alerts, this>>

(* What the status after the confirm window makes of it; raised: systemctl    *)
(* knows no such unit, or may not stop it.                                    *)
StopVerdict(active, raised) ==
    IF raised THEN "failed"
    ELSE IF ~active THEN "triggered"
    ELSE IF sc.mode = "pid_file" THEN "draining"
    ELSE "failed"

SeenWhateverVerdict(verdict, key) == seen

(* A drain is asked about again at the next poll, so its episode is forgotten. *)
SeenAfter(verdict, key) ==
    IF verdict = "draining" THEN Without(seen, key) ELSE seen

StopReturns ==
    /\ mon = "stopping"
    /\ \E raised \in {FALSE} \cup (IF sc.mode = "stale_unit" THEN {TRUE} ELSE {}) :
          LET verdict == StopVerdict(Alive, raised)
          IN  /\ Handle(verdict)
              /\ seen' = SeenAfter(verdict, Head(alerts).key)
              /\ EmitOwn(CASE verdict = "triggered" -> <<"auto_stop_triggered">>
                           [] verdict = "failed" -> <<"auto_stop_failed">>
                           [] verdict = "draining" -> <<>>, Head(alerts).detector)
    /\ mon' = "alerts"
    /\ UNCHANGED <<sc, now, cur, svars, polled, offsets, buffer, faults, read_to, before, alarmed>>

EndPollKeepsSeen ==
    /\ mon = "alerts" /\ alerts = <<>>
    /\ mon' = "sleep" /\ polled' = TRUE
    /\ UNCHANGED <<sc, now, files, cur, svars, offsets, buffer, alerts, faults, read_to, before,
                   this, alarmed, seen>>

(* An episode absent from this poll is over: its key is forgotten. *)
EndPoll ==
    /\ mon = "alerts" /\ alerts = <<>>
    /\ seen' = Only(seen, DOMAIN this)
    /\ mon' = "sleep" /\ polled' = TRUE
    /\ UNCHANGED <<sc, now, files, cur, svars, offsets, buffer, alerts, faults, read_to, before,
                   this, alarmed>>

(* The next interval.  A serve that has its SIGTERM exits at once when it is  *)
(* idle, and its round is over in time.                                       *)
Tick ==
    /\ now < sc.until \/ \E k \in DOMAIN this : this[k] = "draining"
    /\ mon = "off" \/ (mon = "sleep" /\ polled)
    /\ term => serve \notin {"idle", "paused"}
    /\ term /\ serve \in {"round", "exited"} =>
          \A i \in DOMAIN Log : Log[i].ev = "round_start" /\ Log[i].rn = rn => now < Log[i].ts + BUDGET
    /\ now' = now + 1 /\ polled' = FALSE
    /\ UNCHANGED <<sc, files, cur, svars, mon, offsets, buffer, alerts, seen, faults, read_to,
                   before, this, alarmed>>

ServeStep ==
    \/ RoundStarts \/ AgentExits \/ RoundNotes \/ RoundEnds \/ Pauses \/ Resumes \/ Sample
    \/ ServeExits \/ ServeDies \/ ServeStarts
MonitorStep ==
    \/ MonitorStarts \/ Poll \/ PollFails \/ Suppress \/ RecordOnly \/ StopService
    \/ StopReturns \/ EndPoll

Next == ServeStep \/ MonitorStep \/ MonitorDies \/ MonthTurns \/ Tick

(* The monitor is a process of its own that systemd restarts for ever; a      *)
(* drained round ends; time passes.                                           *)
Fairness ==
    /\ WF_vars(MonitorStep) /\ WF_vars(Tick)
    /\ WF_vars(term /\ (AgentExits \/ RoundEnds \/ ServeExits))

Spec == Init /\ [][Next]_vars /\ Fairness
----------------------------------------------------------------------------
(* Of the events read so far the monitor holds exactly the newest, in order:  *)
(* no poll that failed halfway, no month that turned and no restart loses or  *)
(* repeats one.                                                               *)
TailComplete ==
    mon # "off" => buffer = LastOf(SubSeq(Log, 1, read_to), BUFFER)

(* An alert is acted on in the first poll that finds it and, until it clears  *)
(* for a poll, not again; unless its stop was draining, then in the next poll.*)
(* (alerts of a poll that failed are nobody's)                                *)
OncePerEpisode ==
    (mon = "sleep") => \A k \in DOMAIN this :
        this[k] # "suppressed" <=> (k \notin DOMAIN before \/ before[k] = "draining")

(* A supervisor that dies is reported, also when it died in a pause, when a   *)
(* detector raises at every poll, and whatever the monitor itself writes into *)
(* the log.  (detect_supervisor_stale: "the monitor must not measure its own  *)
(* emissions, or a busy monitor over a dead supervisor never alarms".)        *)
DeathReported ==
    (serve = "dead" /\ Of(Log, {"round_start", "schedule_paused", "round_deferred"}) # <<>>)
        ~> (serve # "dead" \/ alarmed)

(* A stop that found serve draining gets its outcome on record, also when     *)
(* serve is started again; unless the alert clears first or the monitor dies. *)
DrainResolved ==
    LET verdicts == {this[k] : k \in DOMAIN this \cap {<<"disk_critical", 0>>, <<"oauth_fail", 0>>}}
    IN  (mon = "sleep" /\ "draining" \in verdicts)
          ~> (mon = "off" \/ (mon = "sleep" /\ verdicts \subseteq {"triggered", "failed"}))

=============================================================================
