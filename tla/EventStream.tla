---------------------------- MODULE EventStream ----------------------------
(***************************************************************************)
(* The events log as a stream: emit appends and rings the doorbell          *)
(* (events.py, _notify.py), `events --tail` replays and follows the log     *)
(* (event_log.py, cli/events_cmd.py), and the relay on another machine       *)
(* keeps such a tail running over ssh and resumes it with --since            *)
(* (remote_relay.py).                                                        *)
(***************************************************************************)
EXTENDS Integers, Sequences

CONSTANTS
    Writers,        \* the processes that emit: serve, its round, the monitor
    TURN,           \* the first instant of the second month
    TOLERANCE_S,    \* remote_failure_tolerance_s
    Backoff,        \* _RECONNECT_BACKOFF_S
    TRIES,          \* attempts of Listener.__enter__
    MaxEvents,      \* bound: on the events
    MaxConns,       \* bound: on the connections
    LastFailure     \* bound: the link fails no later

ASSUME StreamAssumption ==
    /\ Writers # {} /\ TURN \in Nat \ {0} /\ TOLERANCE_S \in Nat
    /\ Backoff \in Seq(Nat \ {0}) /\ Backoff # <<>>
    /\ {TRIES, MaxEvents, MaxConns} \subseteq Nat \ {0} /\ LastFailure \in Nat

VARIABLES
    now,
    files,      \* the events [id, ts] of the two months' files
    stamped,    \* events that have a timestamp
    writer,     \* each writer's [pc, ev, paths, path] in emit
    fifo,       \* what the path of each connection's FIFO names: none, dead (no reader), open
    bell,       \* a byte is in the FIFO that the tail holds open
    link,       \* up, down
    conn,       \* the connections so far
    tail,       \* [pc, tries, live, offs, since, cur, todo, pos] of events --tail
    wire,       \* printed by the tail, not yet read by the relay
    relay,      \* [pc, last, blip, attempt, wake] of the relay
    out,        \* ids the relay has written to its stdout
    \* history
    printed,    \* what this tail printed
    owed,       \* ids appended since the relay's first line, in the order of their timestamps
    heard       \* when the relay last wrote a line

evars == <<files, stamped, writer>>
tvars == <<conn, tail, printed>>
rvars == <<relay, out, heard>>
vars == <<now, evars, fifo, bell, link, tvars, wire, rvars, owed>>

Months == 1..2
Conns == 1..MaxConns
MonthOf(t) == IF t < TURN THEN 1 ELSE 2
Log == files[1] \o files[2]
Never == -1
Least(a, b) == IF a < b THEN a ELSE b

Idle == [pc |-> "idle", ev |-> [id |-> 0, ts |-> 0], paths |-> {}, path |-> 0]
NoTail ==
    [pc |-> "off", tries |-> 0, live |-> FALSE, offs |-> <<0, 0>>, since |-> Never, cur |-> 0,
     todo |-> {}, pos |-> 0]

Init ==
    /\ now = 0 /\ files = [m \in Months |-> <<>>] /\ stamped = 0
    /\ writer = [w \in Writers |-> Idle]
    /\ fifo = [c \in Conns |-> "none"] /\ bell = FALSE
    /\ link = "up" /\ conn = 0 /\ tail = NoTail /\ wire = <<>>
    /\ relay = [pc |-> "spawn", last |-> Never, blip |-> Never, attempt |-> 0, wake |-> 0]
    /\ out = {} /\ printed = <<>> /\ owed = {} /\ heard = Never

----------------------------------------------------------------------------
(* events.emit, by several processes. *)

Stamp(w) ==
    /\ writer[w].pc = "idle" /\ stamped < MaxEvents
    /\ stamped' = stamped + 1
    /\ writer' = [writer EXCEPT ![w] =
                    [@ EXCEPT !.pc = "write", !.ev = [id |-> stamped + 1, ts |-> now]]]
    /\ UNCHANGED <<now, files, fifo, bell, link, tvars, wire, rvars, owed>>

AppendAndRecord(ev) ==
    /\ files' = [files EXCEPT ![MonthOf(ev.ts)] = Append(@, ev)]
    /\ owed' = IF heard # Never /\ \A i \in DOMAIN Log : Log[i].ts <= ev.ts
               THEN owed \cup {ev.id} ELSE owed

Write(w) ==
    /\ writer[w].pc = "write"
    /\ AppendAndRecord(writer[w].ev)
    /\ writer' = [writer EXCEPT ![w].pc = "scan"]
    /\ UNCHANGED <<now, stamped, fifo, bell, link, tvars, wire, rvars>>

(* ring: the FIFOs that are there now. *)
RingScan(w) ==
    /\ writer[w].pc = "scan"
    /\ LET paths == {c \in Conns : fifo[c] # "none"}
       IN  writer' = [writer EXCEPT ![w] =
                        IF paths = {} THEN Idle ELSE [@ EXCEPT !.pc = "ring", !.paths = paths]]
    /\ UNCHANGED <<now, files, stamped, fifo, bell, link, tvars, wire, rvars, owed>>

RungPath(w, c) ==
    IF writer[w].paths = {c} THEN Idle
    ELSE [writer[w] EXCEPT !.pc = "ring", !.paths = @ \ {c}, !.path = 0]

(* One byte for a FIFO with a reader; nothing for one that is gone; one       *)
(* without a reader (ENXIO) is to be unlinked.                                *)
RingOne(w) ==
    /\ writer[w].pc = "ring"
    /\ \E c \in writer[w].paths :
          /\ bell' = (bell \/ fifo[c] = "open")
          /\ writer' = [writer EXCEPT ![w] =
                IF fifo[c] = "dead" THEN [@ EXCEPT !.pc = "unlink", !.path = c] ELSE RungPath(w, c)]
    /\ UNCHANGED <<now, files, stamped, fifo, link, tvars, wire, rvars, owed>>

(* Whatever the path names by now. *)
RingUnlink(w) ==
    /\ writer[w].pc = "unlink"
    /\ fifo' = [fifo EXCEPT ![writer[w].path] = "none"]
    /\ writer' = [writer EXCEPT ![w] = RungPath(w, writer[w].path)]
    /\ UNCHANGED <<now, files, stamped, bell, link, tvars, wire, rvars, owed>>

----------------------------------------------------------------------------
(* events --tail [--since]. *)

TailOnly == UNCHANGED <<now, evars, link, conn, rvars, owed>>

MkFifo ==
    /\ tail.pc = "mkfifo"
    /\ fifo' = [fifo EXCEPT ![conn] = "dead"]
    /\ tail' = [tail EXCEPT !.pc = "open"]
    /\ TailOnly /\ UNCHANGED <<bell, wire, printed>>

(* A ring may have unlinked the FIFO that had no reader yet: try again, in    *)
(* the end do without (NullListener).                                         *)
OpenFifo ==
    /\ tail.pc = "open"
    /\ \/ /\ fifo[conn] = "dead"
          /\ fifo' = [fifo EXCEPT ![conn] = "open"] /\ bell' = FALSE
          /\ tail' = [tail EXCEPT !.pc = "seed", !.live = TRUE]
       \/ /\ fifo[conn] = "none" /\ tail.tries + 1 < TRIES
          /\ tail' = [tail EXCEPT !.pc = "mkfifo", !.tries = @ + 1]
          /\ UNCHANGED <<fifo, bell>>
       \/ /\ fifo[conn] = "none" /\ tail.tries + 1 = TRIES
          /\ tail' = [tail EXCEPT !.pc = "seed"]
          /\ UNCHANGED <<fifo, bell>>
    /\ TailOnly /\ UNCHANGED <<wire, printed>>

(* seed_at_eof of the newest two files; a replay follows if there is a since. *)
Seed ==
    /\ tail.pc = "seed"
    /\ tail' = [tail EXCEPT !.offs = [m \in Months |-> Len(files[m])],
                            !.pc = IF tail.since = Never THEN "follow" ELSE "current"]
    /\ TailOnly /\ UNCHANGED <<fifo, bell, wire, printed>>

(* replay_since: the current month, then the files there are. *)
ReplayCurrent ==
    /\ tail.pc = "current"
    /\ tail' = [tail EXCEPT !.pc = "list", !.cur = MonthOf(now)]
    /\ TailOnly /\ UNCHANGED <<fifo, bell, wire, printed>>

ReplayList ==
    /\ tail.pc = "list"
    /\ tail' = [tail EXCEPT !.pc = "replay",
                            !.todo = {m \in MonthOf(tail.since)..2 : files[m] # <<>>}]
    /\ TailOnly /\ UNCHANGED <<fifo, bell, wire, printed>>

Prints(evs) ==
    /\ wire' = IF link = "up" THEN wire \o evs ELSE wire
    /\ printed' = printed \o evs

Oldest(S) == CHOOSE m \in S : \A k \in S : m <= k

(* The next line of the oldest file left: printed, unless it is too old. *)
ReplayLine ==
    /\ tail.pc = "replay"
    /\ LET file == files[Oldest(tail.todo)]
           ev == file[tail.pos + 1]
       IN  /\ tail.pos < Len(file)
           /\ Prints(IF ev.ts >= tail.since THEN <<ev>> ELSE <<>>)
    /\ tail' = [tail EXCEPT !.pos = @ + 1]
    /\ TailOnly /\ UNCHANGED <<fifo, bell>>

ReplayEndKeepsSeed ==
    /\ tail.pc = "replay"
    /\ LET m == Oldest(tail.todo)
       IN  /\ tail.pos = Len(files[m])
           /\ tail' = [tail EXCEPT !.todo = @ \ {m}, !.pos = 0,
                                   !.pc = IF tail.todo = {m} THEN "follow" ELSE "replay"]
    /\ TailOnly /\ UNCHANGED <<fifo, bell, wire, printed>>

(* Its end; where the current one ended is where the follow begins in it. *)
ReplayEnd ==
    /\ tail.pc = "replay"
    /\ LET m == Oldest(tail.todo)
       IN  /\ tail.pos = Len(files[m])
           /\ tail' = [tail EXCEPT !.todo = @ \ {m}, !.pos = 0,
                                   !.pc = IF tail.todo = {m} THEN "follow" ELSE "replay",
                                   !.offs[m] = IF m = tail.cur THEN tail.pos ELSE @]
    /\ TailOnly /\ UNCHANGED <<fifo, bell, wire, printed>>

NewIn(m) == SubSeq(files[m], tail.offs[m] + 1, Len(files[m]))
Unread == NewIn(1) \o NewIn(2)

FollowBeforeDrain ==
    \/ /\ tail.pc = "follow" /\ Unread = <<>>
       /\ tail' = [tail EXCEPT !.pc = "drain"]
       /\ TailOnly /\ UNCHANGED <<fifo, bell, wire, printed>>
    \/ /\ tail.pc = "drain"
       /\ bell' = FALSE
       /\ tail' = [tail EXCEPT !.pc = "wait"]
       /\ TailOnly /\ UNCHANGED <<fifo, wire, printed>>
    \/ /\ tail.pc = "follow" /\ Unread # <<>>
       /\ Prints(Unread)
       /\ tail' = [tail EXCEPT !.offs = [m \in Months |-> Len(files[m])]]
       /\ TailOnly /\ UNCHANGED <<fifo, bell>>

(* read_new_raw; with nothing new the tail goes to wait. *)
Follow ==
    /\ tail.pc = "follow"
    /\ Prints(Unread)
    /\ tail' = [tail EXCEPT !.offs = [m \in Months |-> Len(files[m])],
                            !.pc = IF Unread = <<>> THEN "wait" ELSE "follow"]
    /\ TailOnly /\ UNCHANGED <<fifo, bell>>

(* The wake drains the FIFO. *)
Woken ==
    /\ tail.pc = "wait" /\ tail.live /\ bell
    /\ bell' = FALSE
    /\ tail' = [tail EXCEPT !.pc = "follow"]
    /\ TailOnly /\ UNCHANGED <<fifo, wire, printed>>

(* The second is over; a NullListener knows nothing else. *)
WaitTimesOut ==
    /\ tail.pc = "wait" /\ Unread # <<>>
    /\ tail' = [tail EXCEPT !.pc = "follow"]
    /\ TailOnly /\ UNCHANGED <<fifo, bell, wire, printed>>

----------------------------------------------------------------------------
(* The link, and the relay at its other end. *)

(* ssh ends: what was on the wire is lost, the tail dies and removes its      *)
(* FIFO, or was killed and leaves it without a reader.                        *)
TailEnds ==
    /\ tail' = NoTail /\ printed' = <<>> /\ wire' = <<>>
    /\ fifo' \in IF conn > 0 /\ fifo[conn] # "none"
                 THEN {[fifo EXCEPT ![conn] = s] : s \in {"none", "dead"}}
                 ELSE {fifo}
    /\ bell' = FALSE

SpawnWithoutSince ==
    /\ relay.pc = "spawn"
    /\ relay' = [relay EXCEPT !.pc = "up"]
    /\ IF link = "up"
       THEN /\ conn < MaxConns /\ conn' = conn + 1
            /\ tail' = [NoTail EXCEPT !.pc = "mkfifo"]
       ELSE UNCHANGED <<conn, tail>>
    /\ UNCHANGED <<now, evars, fifo, bell, link, printed, wire, out, heard, owed>>

(* ssh, and the tail at the other end of a link that is up. *)
Spawn ==
    /\ relay.pc = "spawn"
    /\ relay' = [relay EXCEPT !.pc = "up"]
    /\ IF link = "up"
       THEN /\ conn < MaxConns /\ conn' = conn + 1
            /\ tail' = [NoTail EXCEPT !.pc = "mkfifo", !.since = relay.last]
       ELSE UNCHANGED <<conn, tail>>
    /\ UNCHANGED <<now, evars, fifo, bell, link, printed, wire, out, heard, owed>>

RelayLineKeepsBlip ==
    /\ relay.pc = "up" /\ wire # <<>>
    /\ LET ev == Head(wire)
       IN  /\ out' = out \cup {ev.id}
           /\ relay' = [relay EXCEPT !.last = IF ev.ts > @ THEN ev.ts ELSE @, !.attempt = 0]
    /\ wire' = Tail(wire) /\ heard' = now
    /\ UNCHANGED <<now, evars, fifo, bell, link, tvars, owed>>

(* Written out, remembered as the resume point if it is the latest so far;    *)
(* the outage is over.                                                        *)
RelayLine ==
    /\ relay.pc = "up" /\ wire # <<>>
    /\ LET ev == Head(wire)
       IN  /\ out' = out \cup {ev.id}
           /\ relay' = [relay EXCEPT !.last = IF ev.ts > @ THEN ev.ts ELSE @,
                                     !.blip = Never, !.attempt = 0]
    /\ wire' = Tail(wire) /\ heard' = now
    /\ UNCHANGED <<now, evars, fifo, bell, link, tvars, owed>>

(* End of ssh's output: its process group is torn down, the outage's age      *)
(* decides between giving up and another attempt after a pause.               *)
SshEnds ==
    /\ relay.pc = "up" /\ link = "down"
    /\ LET blip == IF relay.blip = Never THEN now ELSE relay.blip
           left == TOLERANCE_S - (now - blip)
       IN  relay' = [relay EXCEPT !.blip = blip, !.attempt = @ + 1,
                        !.pc = IF left <= 0 THEN "gave_up" ELSE "sleep",
                        !.wake = now + Least(Backoff[Least(relay.attempt + 1, Len(Backoff))], left)]
    /\ TailEnds
    /\ UNCHANGED <<now, evars, link, conn, out, heard, owed>>

BackoffEnds ==
    /\ relay.pc = "sleep" /\ now >= relay.wake
    /\ relay' = [relay EXCEPT !.pc = "spawn"]
    /\ UNCHANGED <<now, evars, fifo, bell, link, tvars, wire, out, heard, owed>>

(* SIGINT or SIGTERM: the process group is torn down on the way out. *)
Interrupted ==
    /\ relay.pc \in {"spawn", "up", "sleep"}
    /\ relay' = [relay EXCEPT !.pc = "interrupted"]
    /\ TailEnds
    /\ UNCHANGED <<now, evars, link, conn, out, heard, owed>>

LinkFails ==
    /\ link = "up" /\ now <= LastFailure
    /\ link' = "down"
    /\ UNCHANGED <<now, evars, fifo, bell, tvars, wire, rvars, owed>>

LinkHeals ==
    /\ link = "down" /\ relay.pc # "up" /\ conn < MaxConns
    /\ link' = "up"
    /\ UNCHANGED <<now, evars, fifo, bell, tvars, wire, rvars, owed>>

(* The relay's own steps take no time: ssh reports a link that failed, a pause *)
(* ends when it is over.                                                      *)
Tick ==
    /\ now < LastFailure + TOLERANCE_S
    /\ relay.pc = "up" => link = "up"
    /\ relay.pc = "sleep" => now < relay.wake
    /\ relay.pc # "spawn"
    /\ now' = now + 1
    /\ UNCHANGED <<evars, fifo, bell, link, tvars, wire, rvars, owed>>

Emits(w) == Stamp(w) \/ Write(w) \/ RingScan(w) \/ RingOne(w) \/ RingUnlink(w)
Tails ==
    \/ MkFifo \/ OpenFifo \/ Seed \/ ReplayCurrent \/ ReplayList \/ ReplayLine \/ ReplayEnd
    \/ Follow \/ Woken \/ WaitTimesOut
Relays == Spawn \/ RelayLine \/ SshEnds \/ BackoffEnds

Over == relay.pc \in {"gave_up", "interrupted"}

(* Nothing is asked of what happens after the relay is gone. *)
Next ==
    /\ ~Over
    /\ \/ \E w \in Writers : Emits(w)
       \/ Tails \/ Relays \/ Interrupted \/ LinkFails \/ LinkHeals \/ Tick

Spec == Init /\ [][Next]_vars
----------------------------------------------------------------------------
(* A tail that waits with events unread has a byte in its FIFO or a writer    *)
(* about to put one there, unless a ring that had found the FIFO without a    *)
(* reader unlinked it after the tail opened it.  (_tail_events: "a ring()     *)
(* from events.emit lands within milliseconds".)                              *)
WakeNotLost ==
    tail.pc = "wait" /\ tail.live /\ fifo[conn] = "open" /\ Unread # <<>> =>
        \/ bell
        \/ \E w \in Writers :
              \/ writer[w].pc = "scan"
              \/ writer[w].pc \in {"ring", "unlink"} /\ conn \in writer[w].paths

(* A tail prints no event of the month it took for the current one twice:     *)
(* the follow begins at the byte where the replay stopped.                    *)
HandoffExact ==
    \A i, j \in DOMAIN printed :
        printed[i] = printed[j] /\ MonthOf(printed[i].ts) = tail.cur => i = j

(* The link is up, and everything there is has been read and relayed. *)
CaughtUp == link = "up" /\ tail.pc = "wait" /\ Unread = <<>> /\ wire = <<>>

(* Whatever was appended, in the order of its timestamps, since the relay     *)
(* first relayed a line is in its output whenever it has caught up, through   *)
(* every outage it survives.                                                  *)
NoneLostInOrder == CaughtUp => owed \subseteq out

(* The relay gives up only after the whole tolerance without a line.          *)
GiveUpIsEarned ==
    relay.pc = "gave_up" => heard = Never \/ now - heard >= TOLERANCE_S
=============================================================================
