----------------------------- MODULE MCMonitor -----------------------------
(* Small deployments of the monitor, each with one kind of trouble.          *)
EXTENDS Monitor

MCPhaseBudgets == [slow |-> 2]

MCHealth ==
    [disk_warning |-> 1, disk_critical |-> 2, growth_window |-> 2, growth_floor |-> 1,
     full_critical |-> 1, some_warning |-> 1, swap_floor |-> 0, free_low |-> 1, avail_min |-> 1]

Quiet ==
    [mode |-> "pid_file", busy |-> 2, until |-> 3, rounds |-> 2, phases |-> {"plain"},
     exits |-> {"ok"}, notes |-> {}, pauses |-> {}, readings |-> 2, samples |-> {}, crashing |-> {},
     allowed |-> {"oauth_fail", "disk_critical"}, hazards |-> {}]

(* A reading of the disk, and one of the memory on its own. *)
Disk(d, i) == [NoSample EXCEPT !.disk = d, !.inode = i]
Memory(psi, sout, free, avail) ==
    [NoSample EXCEPT !.psi_some = psi, !.sout = sout, !.free = free, !.avail = avail]

(* The supervisor falls silent, in a round, between rounds or in a pause. *)
Silences ==
    {[Quiet EXCEPT !.until = 6, !.rounds = 1, !.pauses = {"schedule_paused", "round_deferred"},
                   !.hazards = {"serve_dies", "month", "poll"}],
     [Quiet EXCEPT !.until = 6, !.rounds = 1, !.crashing = {"hung"},
                   !.hazards = {"serve_dies", "monitor_dies"}]}

(* Rounds fail: the credential, the network, the clock; or leave a dirty tree. *)
BadRounds ==
    {[Quiet EXCEPT !.until = 4, !.exits = {"ok", "short_auth"}, !.hazards = {"serve_starts", "poll"}],
     [Quiet EXCEPT !.mode = "unit", !.exits = {"short_auth"}],
     [Quiet EXCEPT !.notes = {"agent_auth_error_detected"}],
     [Quiet EXCEPT !.exits = {"timed_out", "short_net", "grace"}],
     [Quiet EXCEPT !.until = 5, !.rounds = 1, !.phases = {"plain", "slow"}],
     [Quiet EXCEPT !.notes = {"orphan_stashed", "anomaly_repetitive_tool"}]}

(* A host in trouble; the second one's comes and goes. *)
BadHosts ==
    {[Quiet EXCEPT !.until = 4, !.rounds = 1, !.samples = {Disk(0, 0), Disk(1, None), Disk(2, 1)},
                   !.hazards = {"poll", "serve_starts"}],
     [Quiet EXCEPT !.busy = 3, !.rounds = 0, !.readings = 3, !.samples = {Disk(0, None), Disk(1, None)},
                   !.hazards = {"poll"}],
     [Quiet EXCEPT !.rounds = 0, !.mode = "stale_unit", !.samples = {Disk(1, None), Disk(2, 1)}],
     [Quiet EXCEPT !.rounds = 0, !.allowed = {},
          !.samples = {Memory(1, None, None, 1), Memory(None, 1, 0, 0), Memory(None, 2, None, 1),
                       NoSample}]}

MCScenarios == Silences \cup BadRounds \cup BadHosts

=============================================================================
