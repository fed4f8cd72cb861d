----------------------------- MODULE Detectors -----------------------------
(***************************************************************************)
(* The monitor's detectors (_monitor_detectors.py, host_health.py): what an *)
(* events buffer, the metrics history and the clock make of an alert.  Each *)
(* returns a sequence of at most one alert.  rate_limit_active is with the  *)
(* events it shares with serve, in Throttle.                                *)
(*                                                                          *)
(* An event is [ev, ts, rn, what, resume]: what is the outcome of an        *)
(* agent_exit, the phase of a round_start, the detector of the monitor's    *)
(* own events; resume is the announced end of a schedule pause, or 0.       *)
(* A metrics sample is a record of integers, None where there is no reading.*)
(***************************************************************************)
EXTENDS Integers, Sequences, FiniteSets, SequencesExt

CONSTANTS
    WINDOW,             \* rounds a rate looks back over
    RATE_PCT,           \* and the rate that alarms, in percent
    ORPHANS,            \* consecutive stashes that alarm
    ANOMALY_ROUNDS,
    BUDGET,             \* round_budget_s
    PhaseBudgets,       \* [phase |-> its own budget]
    STALE_S,            \* supervisor_stale_threshold_s; 0 disables
    HORIZON_S,          \* 8 days: how long a pause that announces no end excuses silence
    Health              \* the [monitor.host_health] thresholds

ASSUME DetectorAssumption ==
    /\ {WINDOW, ORPHANS, ANOMALY_ROUNDS, BUDGET} \subseteq Nat \ {0}
    /\ {RATE_PCT, STALE_S, HORIZON_S} \subseteq Nat

None == -1

(* What a monitor writes into the stream it reads. *)
MonitorSelfKinds ==
    {"monitor_started", "alert_emitted", "auto_stop_failed", "auto_stop_triggered",
     "detector_error"}

Alert(detector, episode, action) ==
    <<[detector |-> detector, key |-> <<detector, episode>>, action |-> action]>>
NoAlert == <<>>

Largest(S) == CHOOSE x \in S : \A y \in S : y <= x
Of(events, kinds) == SelectSeq(events, LAMBDA e : e.ev \in kinds)
Where(events, Test(_)) == {i \in DOMAIN events : Test(events[i])}

LastNRoundExits(events) ==
    LET exits == Of(events, {"agent_exit"})
    IN  SubSeq(exits, Largest({1, Len(exits) - WINDOW + 1}), Len(exits))

(* A rate is judged over a full window only; hits are positions in it. *)
RateReached(recent, hits) ==
    /\ Len(recent) = WINDOW
    /\ Cardinality(hits) * 100 >= RATE_PCT * WINDOW

(* A grace kill (the agent had its result and lingered) is no timeout. *)
DetectTimeoutRate(events) ==
    LET recent == LastNRoundExits(events)
    IN  IF RateReached(recent, Where(recent, LAMBDA e : e.what = "timed_out"))
        THEN Alert("timeout_rate", 0, "none") ELSE NoAlert

PhaseTimeout(phase) == IF phase \in DOMAIN PhaseBudgets THEN PhaseBudgets[phase] ELSE BUDGET

(* Only the highest round that ever started can hang; an older one without   *)
(* its round_end was dropped by a crash.                                     *)
DetectHung(events, now) ==
    LET Starts(rn) == Where(events, LAMBDA e : e.ev = "round_start" /\ e.rn = rn)
        started == {events[i].rn : i \in Where(events, LAMBDA e : e.ev = "round_start")}
        rn == Largest(started)
        at == Largest(Starts(rn))
        ended == \E j \in at..Len(events) : events[j].ev = "round_end" /\ events[j].rn = rn
    IN  IF started = {} THEN NoAlert
        ELSE IF ended THEN NoAlert
        ELSE IF 2 * (now - events[at].ts) > 3 * PhaseTimeout(events[at].what)
        THEN Alert("hung", rn, "none") ELSE NoAlert

(* A stash lengthens the chain; a round_end breaks it unless some stash of   *)
(* the same round is on record.                                              *)
DetectOrphanChain(events) ==
    LET stashes == Where(events, LAMBDA e : e.ev = "orphan_stashed")
        breaks == Where(events, LAMBDA e : /\ e.ev = "round_end"
                                           /\ e.rn \notin {events[i].rn : i \in stashes})
        chain == {i \in stashes : \A b \in breaks : b < i}
    IN  IF Cardinality(chain) >= ORPHANS
        THEN Alert("orphan_chain", events[Largest(chain)].rn, "none") ELSE NoAlert

(* The newest reading of a key, skipping samples without one. *)
Latest(metrics, key) ==
    LET having == {i \in DOMAIN metrics : metrics[i][key] # None}
    IN  IF having = {} THEN None ELSE metrics[Largest(having)][key]

DetectDiskWarning(metrics) ==
    LET val == Latest(metrics, "disk")
    IN  IF val # None /\ val >= Health.disk_warning /\ val < Health.disk_critical
        THEN Alert("disk_warning", 0, "none") ELSE NoAlert

DetectDiskCritical(metrics) ==
    LET val == Latest(metrics, "disk")
    IN  IF val # None /\ val >= Health.disk_critical
        THEN Alert("disk_critical", 0, "stop_service") ELSE NoAlert

(* The rate over the widest baseline in the growth window; never a stop. *)
DetectDiskGrowth(metrics) ==
    LET latest == Latest(metrics, "ts")
        inwindow == {i \in DOMAIN metrics :
                        /\ metrics[i].disk # None
                        /\ latest - metrics[i].ts \in 0..Health.growth_window}
        base == metrics[CHOOSE i \in inwindow : \A j \in inwindow : i <= j]
        Fast(key) == /\ base[key] # None /\ Latest(metrics, key) # None
                     /\ Latest(metrics, key) - base[key] >= Health.growth_floor * (latest - base.ts)
    IN  IF Latest(metrics, "disk") = None \/ inwindow = {} THEN NoAlert
        ELSE IF base.ts >= latest THEN NoAlert
        ELSE IF Fast("disk") \/ Fast("inode") THEN Alert("disk_growth", 0, "none")
        ELSE NoAlert

NoSample == [ts |-> None, disk |-> None, inode |-> None, psi_some |-> None, psi_full |-> None,
             sout |-> None, free |-> None, avail |-> None]
LatestTwo(metrics) ==
    LET n == Len(metrics)
    IN  [cur |-> IF n >= 1 THEN metrics[n] ELSE NoSample,
         prev |-> IF n >= 2 THEN metrics[n - 1] ELSE NoSample]

HasSwapDelta(s) == s.cur.sout # None /\ s.prev.sout # None

SignalAvailable(s) ==
    \/ s.cur.psi_some # None
    \/ HasSwapDelta(s)
    \/ s.cur.free # None /\ s.cur.avail # None

(* The ladder: PSI is trusted when it is readable; a swap-out rate that says *)
(* nothing falls through to the combined low.                                *)
MemoryPressure(s) ==
    LET swapping == HasSwapDelta(s) /\ s.cur.sout - s.prev.sout > Health.swap_floor
        psi == s.cur.psi_full >= Health.full_critical \/ s.cur.psi_some >= Health.some_warning
        low == /\ s.cur.free # None /\ s.cur.avail # None
               /\ s.cur.free < Health.free_low /\ s.cur.avail < Health.avail_min
    IN  IF s.cur.psi_some # None THEN IF psi THEN "psi" ELSE "none"
        ELSE IF swapping THEN "swap_out_rate"
        ELSE IF low THEN "combined_low" ELSE "none"

(* The gate on available memory cannot fire although there is pressure. *)
ConfiguredGateInert(s) ==
    /\ s.cur.avail # None /\ s.cur.avail >= Health.avail_min
    /\ MemoryPressure(s) \in {"psi", "swap_out_rate"}

(* A sample of the old shape has none of the four keys: nothing sampled yet. *)
DetectMemPressure(metrics) ==
    LET s == LatestTwo(metrics)
        sampled == \E k \in {"free", "sout", "psi_some", "psi_full"} : s.cur[k] # None
    IN  IF ~sampled THEN NoAlert
        ELSE IF MemoryPressure(s) # "none" THEN Alert("mem_pressure", 0, "none")
        ELSE IF ~SignalAvailable(s) THEN Alert("mem_signal_unavailable", 0, "none")
        ELSE NoAlert

DetectMemPressureGateInert(metrics) ==
    IF ConfiguredGateInert(LatestTwo(metrics))
    THEN Alert("mem_pressure_gate_inert", 0, "none") ELSE NoAlert

(* Either the plugin said so, whatever the exit code, or a short failed exit *)
(* left an auth pattern in the round's log.  A round counts once.            *)
DetectOauthFail(events) ==
    LET recent == LastNRoundExits(events)
        reported == {e.rn : e \in ToSet(Of(events, {"agent_auth_error_detected"}))}
    IN  IF RateReached(recent, Where(recent, LAMBDA e : \/ e.rn \in reported
                                                        \/ e.what = "short_auth"))
        THEN Alert("oauth_fail", 0, "stop_service") ELSE NoAlert

DetectNetworkFail(events) ==
    LET recent == LastNRoundExits(events)
    IN  IF RateReached(recent, Where(recent, LAMBDA e : e.what = "short_net"))
        THEN Alert("network_fail", 0, "none") ELSE NoAlert

(* rn is 0 in an event that carries no round number. *)
DetectAnomalyRepetitiveActive(events) ==
    LET newest == Largest({0} \cup {e.rn : e \in ToSet(events)})
        recent == Where(events, LAMBDA e : /\ e.ev = "anomaly_repetitive_tool"
                                           /\ e.rn >= newest - ANOMALY_ROUNDS + 1)
    IN  IF newest > 0 /\ recent # {}
        THEN Alert("anomaly_repetitive_active", events[Largest(recent)].what, "none")
        ELSE NoAlert

PauseKinds == {"schedule_paused", "round_deferred"}
ResumeKinds == {"schedule_resumed", "round_resumed"}

(* How long the newest pause excuses silence; 0 when no pause is on. *)
ExcusedUntil(events) ==
    LET pauses == Of(events, PauseKinds \cup ResumeKinds)
        newest == pauses[Len(pauses)]
    IN  IF pauses = <<>> THEN 0
        ELSE IF newest.ev \in ResumeKinds THEN 0
        ELSE (IF newest.resume > 0 THEN newest.resume ELSE newest.ts + HORIZON_S) + STALE_S

DetectStaleOfAnyEvent(events, now) ==
    LET last == Largest({e.ts : e \in ToSet(events)})
    IN  IF STALE_S = 0 \/ events = <<>> THEN NoAlert
        ELSE IF now - last <= STALE_S \/ now <= ExcusedUntil(events) THEN NoAlert
        ELSE Alert("supervisor_stale", last, "none")

(* Silence: no event of the supervisor's own for longer than the threshold. *)
DetectSupervisorStale(events, now) ==
    LET supervised == SelectSeq(events, LAMBDA e : e.ev \notin MonitorSelfKinds)
        last == Largest({e.ts : e \in ToSet(supervised)})
    IN  IF STALE_S = 0 \/ supervised = <<>> THEN NoAlert
        ELSE IF now - last <= STALE_S \/ now <= ExcusedUntil(events) THEN NoAlert
        ELSE Alert("supervisor_stale", last, "none")

DetectorNames ==
    {"timeout_rate", "hung", "orphan_chain", "disk_warning", "disk_critical", "disk_growth",
     "mem_pressure", "mem_pressure_gate_inert", "oauth_fail", "network_fail",
     "anomaly_repetitive_active", "supervisor_stale"}

(* In the order in which the monitor runs them; one that raises is skipped. *)
RunAllDetectors(events, metrics, now, crashing) ==
    LET Run(name, verdict) == IF name \in crashing THEN <<>> ELSE verdict
    IN  Run("timeout_rate", DetectTimeoutRate(events))
        \o Run("hung", DetectHung(events, now))
        \o Run("orphan_chain", DetectOrphanChain(events))
        \o Run("disk_warning", DetectDiskWarning(metrics))
        \o Run("disk_critical", DetectDiskCritical(metrics))
        \o Run("disk_growth", DetectDiskGrowth(metrics))
        \o Run("mem_pressure", DetectMemPressure(metrics))
        \o Run("mem_pressure_gate_inert", DetectMemPressureGateInert(metrics))
        \o Run("oauth_fail", DetectOauthFail(events))
        \o Run("network_fail", DetectNetworkFail(events))
        \o Run("anomaly_repetitive_active", DetectAnomalyRepetitiveActive(events))
        \o Run("supervisor_stale", DetectSupervisorStale(events, now))
=============================================================================
