------------------------- MODULE EventStreamProofs -------------------------
(***************************************************************************)
(* Proofs about EventStream for every set of writers, every tolerance and   *)
(* back-off: the doorbell loses no wake, the relay gives up no sooner than  *)
(* it may, a replay hands over to the follow at the right byte, and what    *)
(* the relay owes survives every outage.                                    *)
(***************************************************************************)
EXTENDS EventStream, TLAPS

Events == [id : Int, ts : Int]
WriterStates == {"idle", "write", "scan", "ring", "unlink"}

ClockTypes == now \in Nat /\ heard \in Int /\ stamped \in Nat

LogTypes == files \in [Months -> Seq(Events)]

WriterTypes ==
    writer \in [Writers -> [pc : WriterStates, ev : Events, paths : SUBSET Conns, path : Conns \cup {0}]]

FifoTypes == fifo \in [Conns -> {"none", "dead", "open"}]

(* The types of what the two arguments need, one lemma each.                *)
LEMMA ClockStep == ClockTypes /\ [Next]_vars => ClockTypes'
<1> SUFFICES ASSUME ClockTypes, [Next]_vars PROVE ClockTypes'
    OBVIOUS
<1> USE DEF ClockTypes, evars, rvars, TailOnly
<1>1. CASE UNCHANGED vars
    BY <1>1 DEF vars
<1>2. ASSUME NEW w \in Writers, Emits(w) PROVE ClockTypes'
    <2>1. UNCHANGED <<now, heard>> /\ (stamped' = stamped + 1 \/ UNCHANGED stamped)
        BY <1>2, Zenon DEF Emits, Stamp, Write, RingScan, RingOne, RingUnlink
    <2> QED
        BY <2>1
<1>3. CASE Tails
    BY <1>3
    DEF Tails, MkFifo, OpenFifo, Seed, ReplayCurrent, ReplayList, ReplayLine, ReplayEnd, Follow, Woken,
        WaitTimesOut
<1>4. CASE Relays \/ Interrupted
    <2>1. CASE RelayLine
        BY <2>1 DEF RelayLine
    <2>2. CASE Spawn \/ SshEnds \/ BackoffEnds \/ Interrupted
        BY <2>2 DEF Spawn, SshEnds, BackoffEnds, Interrupted
    <2> QED
        BY <1>4, <2>1, <2>2 DEF Relays
<1>5. CASE LinkFails \/ LinkHeals \/ Tick
    BY <1>5 DEF LinkFails, LinkHeals, Tick
<1> QED
    BY <1>1, <1>2, <1>3, <1>4, <1>5 DEF Next

(* What the tail, the relay and the link leave to the writers.              *)
LEMMA OthersStep ==
    Tails \/ Relays \/ Interrupted \/ LinkFails \/ LinkHeals \/ Tick => UNCHANGED evars
<1>1. Tails => UNCHANGED evars
    BY DEF Tails, MkFifo, OpenFifo, Seed, ReplayCurrent, ReplayList, ReplayLine, ReplayEnd, Follow, Woken,
        WaitTimesOut, TailOnly
<1>2. Relays \/ Interrupted => UNCHANGED evars
    BY DEF Relays, Spawn, RelayLine, SshEnds, BackoffEnds, Interrupted
<1>3. LinkFails \/ LinkHeals \/ Tick => UNCHANGED evars
    BY DEF LinkFails, LinkHeals, Tick
<1> QED
    BY <1>1, <1>2, <1>3

LEMMA WriterStep == ClockTypes /\ WriterTypes /\ [Next]_vars => WriterTypes'
<1> SUFFICES ASSUME ClockTypes, WriterTypes, [Next]_vars PROVE WriterTypes'
    OBVIOUS
<1> DEFINE Records == [pc : WriterStates, ev : Events, paths : SUBSET Conns, path : Conns \cup {0}]
<1>a. ASSUME NEW w \in Writers, NEW r \in Records, writer' = [writer EXCEPT ![w] = r]
      PROVE  WriterTypes'
    BY <1>a DEF WriterTypes
<1>b. ASSUME NEW w \in Writers PROVE writer[w] \in Records
    BY DEF WriterTypes
<1>c. Idle \in Records
    BY DEF Idle, Events, WriterStates
<1>1. CASE UNCHANGED evars
    BY <1>1 DEF evars, WriterTypes
<1>2. ASSUME NEW w \in Writers, Stamp(w) PROVE WriterTypes'
    <2>1. [id |-> stamped + 1, ts |-> now] \in Events
        BY DEF ClockTypes, Events
    <2>2. [writer[w] EXCEPT !.pc = "write", !.ev = [id |-> stamped + 1, ts |-> now]] \in Records
        BY <1>b, <2>1 DEF WriterStates
    <2> QED
        BY <1>2, <1>a, <2>2 DEF Stamp
<1>3. ASSUME NEW w \in Writers, Write(w) PROVE WriterTypes'
    <2>1. [writer[w] EXCEPT !.pc = "scan"] \in Records
        BY <1>b DEF WriterStates
    <2> QED
        BY <1>3, <1>a, <2>1 DEF Write
<1>4. ASSUME NEW w \in Writers, RingScan(w) PROVE WriterTypes'
    <2> DEFINE paths == {c \in Conns : fifo[c] # "none"}
    <2>1. [writer[w] EXCEPT !.pc = "ring", !.paths = paths] \in Records
        BY <1>b DEF WriterStates
    <2> QED
        BY <1>4, <1>a, <1>c, <2>1 DEF RingScan
<1>d. ASSUME NEW w \in Writers, NEW c \in Conns PROVE RungPath(w, c) \in Records
    <2>1. [writer[w] EXCEPT !.pc = "ring", !.paths = @ \ {c}, !.path = 0] \in Records
        BY <1>b DEF WriterStates
    <2> QED
        BY <1>c, <2>1 DEF RungPath
<1>5. ASSUME NEW w \in Writers, RingOne(w) PROVE WriterTypes'
    <2>1. PICK c \in writer[w].paths :
             writer' = [writer EXCEPT ![w] =
                IF fifo[c] = "dead" THEN [@ EXCEPT !.pc = "unlink", !.path = c] ELSE RungPath(w, c)]
        BY <1>5 DEF RingOne
    <2>2. c \in Conns
        BY <1>b
    <2>3. [writer[w] EXCEPT !.pc = "unlink", !.path = c] \in Records
        BY <1>b, <2>2 DEF WriterStates
    <2> QED
        BY <1>a, <1>d, <2>1, <2>2, <2>3
<1>6. ASSUME NEW w \in Writers, RingUnlink(w) PROVE WriterTypes'
    <2> DEFINE c == writer[w].path
    <2>1. [writer[w] EXCEPT !.pc = "ring", !.paths = @ \ {c}, !.path = 0] \in Records
        BY <1>b DEF WriterStates
    <2>2. RungPath(w, c) \in Records
        BY <1>c, <2>1 DEF RungPath
    <2> QED
        BY <1>6, <1>a, <2>2 DEF RingUnlink
<1> QED
    BY <1>1, <1>2, <1>3, <1>4, <1>5, <1>6, OthersStep DEF Next, Emits, vars

-----------------------------------------------------------------------------
(* The outage began after the last line that was written, so its age never  *)
(* exceeds the silence.                                                     *)
RelayTypes ==
    /\ relay = [pc |-> relay.pc, last |-> relay.last, blip |-> relay.blip,
                attempt |-> relay.attempt, wake |-> relay.wake]
    /\ relay.blip \in Int

EarnedInv ==
    /\ RelayTypes
    /\ heard <= now
    /\ relay.blip # Never => heard <= relay.blip /\ relay.blip <= now
    /\ relay.pc = "gave_up" => heard = Never \/ now - heard >= TOLERANCE_S

LEMMA EarnedStep == ClockTypes /\ EarnedInv /\ [Next]_vars => EarnedInv'
<1> SUFFICES ASSUME ClockTypes, EarnedInv, [Next]_vars PROVE EarnedInv'
    OBVIOUS
<1> USE StreamAssumption DEF ClockTypes, EarnedInv, RelayTypes, Never
<1>1. CASE UNCHANGED <<now, heard, relay>>
    BY <1>1
<1>2. (\E w \in Writers : Emits(w)) \/ Tails \/ LinkFails \/ LinkHeals
          => UNCHANGED <<now, heard, relay>>
    <2>1. ASSUME NEW w \in Writers, Emits(w) PROVE UNCHANGED <<now, heard, relay>>
        BY <2>1, Zenon DEF Emits, Stamp, Write, RingScan, RingOne, RingUnlink, rvars
    <2>2. Tails => UNCHANGED <<now, heard, relay>>
        BY Zenon
        DEF Tails, MkFifo, OpenFifo, Seed, ReplayCurrent, ReplayList, ReplayLine, ReplayEnd, Follow, Woken,
            WaitTimesOut, TailOnly, rvars
    <2>3. LinkFails \/ LinkHeals => UNCHANGED <<now, heard, relay>>
        BY Zenon DEF LinkFails, LinkHeals, rvars
    <2> QED
        BY <2>1, <2>2, <2>3
<1>3. CASE Spawn
    <2>1. relay.pc = "spawn" /\ relay' = [relay EXCEPT !.pc = "up"] /\ UNCHANGED <<now, heard>>
        BY <1>3 DEF Spawn
    <2>2. relay' = [pc |-> "up", last |-> relay.last, blip |-> relay.blip,
                    attempt |-> relay.attempt, wake |-> relay.wake]
        BY <2>1
    <2> QED
        BY <2>1, <2>2
<1>4. CASE RelayLine
    <2>1. PICK last : relay' = [relay EXCEPT !.last = last, !.blip = Never, !.attempt = 0]
        BY <1>4 DEF RelayLine
    <2>2. relay.pc = "up" /\ heard' = now /\ now' = now
        BY <1>4 DEF RelayLine
    <2>3. relay' = [pc |-> relay.pc, last |-> last, blip |-> Never, attempt |-> 0, wake |-> relay.wake]
        BY <2>1
    <2> QED
        BY <2>2, <2>3
<1>5. CASE SshEnds
    <2> DEFINE blip == IF relay.blip = Never THEN now ELSE relay.blip
               left == TOLERANCE_S - (now - blip)
               to == IF left <= 0 THEN "gave_up" ELSE "sleep"
    <2>1. PICK wake : relay' = [relay EXCEPT !.blip = blip, !.attempt = @ + 1, !.pc = to, !.wake = wake]
        BY <1>5 DEF SshEnds
    <2>2. UNCHANGED <<now, heard>>
        BY <1>5 DEF SshEnds
    <2>3. relay' = [pc |-> to, last |-> relay.last, blip |-> blip, attempt |-> relay.attempt + 1,
                    wake |-> wake]
        BY <2>1
    <2>4. blip \in Int /\ heard <= blip /\ blip <= now
        OBVIOUS
    <2> QED
        BY <2>2, <2>3, <2>4
<1>6. CASE BackoffEnds
    <2>1. relay' = [relay EXCEPT !.pc = "spawn"] /\ UNCHANGED <<now, heard>>
        BY <1>6 DEF BackoffEnds
    <2>2. relay' = [pc |-> "spawn", last |-> relay.last, blip |-> relay.blip,
                    attempt |-> relay.attempt, wake |-> relay.wake]
        BY <2>1
    <2> QED
        BY <2>1, <2>2
<1>7. CASE Interrupted
    <2>1. relay' = [relay EXCEPT !.pc = "interrupted"] /\ UNCHANGED <<now, heard>>
        BY <1>7 DEF Interrupted
    <2>2. relay' = [pc |-> "interrupted", last |-> relay.last, blip |-> relay.blip,
                    attempt |-> relay.attempt, wake |-> relay.wake]
        BY <2>1
    <2> QED
        BY <2>1, <2>2
<1>8. CASE Tick
    <2>1. now' = now + 1 /\ UNCHANGED <<relay, heard>>
        BY <1>8, Zenon DEF Tick, rvars
    <2> QED
        BY <2>1
<1> QED
    BY <1>1, <1>2, <1>3, <1>4, <1>5, <1>6, <1>7, <1>8 DEF Next, Relays, vars, rvars

(* The relay gives up only when it has heard nothing for the whole           *)
(* tolerance, whatever the tolerance and the back-off (GiveUpIsEarned).     *)
THEOREM GiveUpWaitsForTolerance == Spec => []GiveUpIsEarned
<1>1. Init => ClockTypes /\ EarnedInv
    BY DEF Init, ClockTypes, EarnedInv, RelayTypes, Never
<1>2. EarnedInv => GiveUpIsEarned
    BY DEF EarnedInv, GiveUpIsEarned
<1> QED
    BY <1>1, <1>2, ClockStep, EarnedStep, PTL DEF Spec

-----------------------------------------------------------------------------
(* What the tail has still to read, and who will wake it.                   *)
Rings(w) ==
    \/ writer[w].pc = "scan"
    \/ writer[w].pc \in {"ring", "unlink"} /\ conn \in writer[w].paths

Listening == tail.pc = "wait" /\ tail.live /\ fifo[conn] = "open"
WakeInv == Listening /\ Unread # <<>> => bell \/ \E w \in Writers : Rings(w)

LEMMA NothingUnread ==
    ASSUME NEW s \in Seq(Events) PROVE SubSeq(s, Len(s) + 1, Len(s)) = <<>>
<1>1. Len(s) \in Nat
    OBVIOUS
<1> QED
    BY <1>1

(* tail has the fields of NoTail, and belongs to a connection unless it is off. *)
Shape(t) ==
    t = [pc |-> t.pc, tries |-> t.tries, live |-> t.live, offs |-> t.offs, since |-> t.since,
         cur |-> t.cur, todo |-> t.todo, pos |-> t.pos]

TailTypes ==
    /\ Shape(tail)
    /\ conn \in 0..MaxConns
    /\ tail.pc # "off" => conn \in Conns

(* Only a read that finds nothing takes the tail to its wait.               *)
LEMMA TailMoves ==
    ASSUME Shape(tail), Tails
    PROVE  /\ Shape(tail') /\ tail.pc # "off" /\ tail'.pc # "off"
           /\ tail'.pc = "wait" => /\ Unread = <<>>
                                   /\ tail'.offs = [m \in Months |-> Len(files[m])]
<1> USE DEF Shape
<1>1. CASE MkFifo
    <2>1. tail.pc = "mkfifo" /\ tail' = [tail EXCEPT !.pc = "open"]
        BY <1>1, Zenon DEF MkFifo
    <2> QED
        BY <2>1
<1>2. CASE OpenFifo
    <2>1. /\ tail.pc = "open"
          /\ \/ tail' = [tail EXCEPT !.pc = "seed", !.live = TRUE]
             \/ tail' = [tail EXCEPT !.pc = "mkfifo", !.tries = @ + 1]
             \/ tail' = [tail EXCEPT !.pc = "seed"]
        BY <1>2, Zenon DEF OpenFifo
    <2> QED
        BY <2>1
<1>3. CASE Seed
    <2>1. PICK offs, to : /\ tail.pc = "seed" /\ to \in {"follow", "current"}
                          /\ tail' = [tail EXCEPT !.offs = offs, !.pc = to]
        BY <1>3 DEF Seed
    <2> QED
        BY <2>1
<1>4. CASE ReplayCurrent \/ ReplayList
    <2>1. \/ /\ tail.pc = "current"
             /\ \E cur : tail' = [tail EXCEPT !.pc = "list", !.cur = cur]
          \/ /\ tail.pc = "list"
             /\ \E todo : tail' = [tail EXCEPT !.pc = "replay", !.todo = todo]
        BY <1>4 DEF ReplayCurrent, ReplayList
    <2> QED
        BY <2>1
<1>5. CASE ReplayLine \/ ReplayEnd
    <2>1. CASE ReplayLine
        <3>1. tail.pc = "replay" /\ tail' = [tail EXCEPT !.pos = @ + 1]
            BY <2>1, Zenon DEF ReplayLine
        <3> QED
            BY <3>1
    <2>2. CASE ReplayEnd
        <3>1. PICK todo, to, m, end :
                 /\ tail.pc = "replay" /\ to \in {"follow", "replay"}
                 /\ tail' = [tail EXCEPT !.todo = todo, !.pos = 0, !.pc = to, !.offs[m] = end]
            BY <2>2 DEF ReplayEnd
        <3> QED
            BY <3>1
    <2> QED
        BY <1>5, <2>1, <2>2
<1>6. CASE Follow
    <2>1. /\ tail.pc = "follow"
          /\ tail' = [tail EXCEPT !.offs = [m \in Months |-> Len(files[m])],
                                  !.pc = IF Unread = <<>> THEN "wait" ELSE "follow"]
        BY <1>6, Zenon DEF Follow
    <2> QED
        BY <2>1
<1>7. CASE Woken \/ WaitTimesOut
    <2>1. tail.pc = "wait" /\ tail' = [tail EXCEPT !.pc = "follow"]
        BY <1>7, Zenon DEF Woken, WaitTimesOut
    <2> QED
        BY <2>1
<1> QED
    BY <1>1, <1>2, <1>3, <1>4, <1>5, <1>6, <1>7 DEF Tails

LEMMA TailStep == TailTypes /\ [Next]_vars => TailTypes'
<1> SUFFICES ASSUME TailTypes, [Next]_vars PROVE TailTypes'
    OBVIOUS
<1>1. CASE UNCHANGED <<tail, conn>>
    BY <1>1 DEF TailTypes, Shape
<1>2. CASE Tails
    <2>1. UNCHANGED conn
        BY <1>2, Zenon
        DEF Tails, MkFifo, OpenFifo, Seed, ReplayCurrent, ReplayList, ReplayLine, ReplayEnd, Follow, Woken,
            WaitTimesOut, TailOnly
    <2> QED
        BY <1>2, <2>1, TailMoves DEF TailTypes
<1>3. CASE Spawn
    <2>1. CASE link = "up"
        <3>1. PICK since : tail' = [NoTail EXCEPT !.pc = "mkfifo", !.since = since]
            BY <1>3, <2>1 DEF Spawn
        <3>2. conn < MaxConns /\ conn' = conn + 1
            BY <1>3, <2>1 DEF Spawn
        <3>3. Shape(tail')
            BY <3>1 DEF Shape, NoTail
        <3> QED
            BY <3>2, <3>3, StreamAssumption DEF TailTypes, Conns
    <2> QED
        BY <1>1, <1>3, <2>1 DEF Spawn
<1>4. CASE SshEnds \/ Interrupted
    <2>1. tail' = NoTail /\ UNCHANGED conn
        BY <1>4, Zenon DEF SshEnds, Interrupted, TailEnds
    <2> QED
        BY <2>1 DEF TailTypes, Shape, NoTail
<1>5. (\E w \in Writers : Emits(w)) \/ RelayLine \/ BackoffEnds \/ LinkFails \/ LinkHeals \/ Tick
          => UNCHANGED <<tail, conn>>
    BY Zenon DEF Emits, Stamp, Write, RingScan, RingOne, RingUnlink, RelayLine, BackoffEnds,
        LinkFails, LinkHeals, Tick, tvars
<1>6. UNCHANGED vars => UNCHANGED <<tail, conn>>
    BY Zenon DEF vars, tvars
<1> QED
    BY <1>1, <1>2, <1>3, <1>4, <1>5, <1>6 DEF Next, Relays

LEMMA LogStep == LogTypes /\ WriterTypes /\ [Next]_vars => LogTypes'
<1> SUFFICES ASSUME LogTypes, WriterTypes, [Next]_vars PROVE LogTypes'
    OBVIOUS
<1>1. CASE UNCHANGED files
    BY <1>1 DEF LogTypes
<1>2. ASSUME NEW w \in Writers, Write(w) PROVE LogTypes'
    <2>1. writer[w].ev \in Events /\ MonthOf(writer[w].ev.ts) \in Months
        BY DEF WriterTypes, MonthOf, Months
    <2>2. files' = [files EXCEPT ![MonthOf(writer[w].ev.ts)] = Append(@, writer[w].ev)]
        BY <1>2, Zenon DEF Write, AppendAndRecord
    <2> HIDE DEF Events, MonthOf
    <2> QED
        BY <2>1, <2>2 DEF LogTypes
<1>3. ASSUME NEW w \in Writers, Stamp(w) \/ RingScan(w) \/ RingOne(w) \/ RingUnlink(w)
      PROVE  UNCHANGED files
    BY <1>3, Zenon DEF Stamp, RingScan, RingOne, RingUnlink
<1> QED
    BY <1>1, <1>2, <1>3, OthersStep DEF Next, Emits, vars, evars

LEMMA FifoStep == FifoTypes /\ TailTypes /\ [Next]_vars => FifoTypes'
<1> SUFFICES ASSUME FifoTypes, TailTypes, [Next]_vars PROVE FifoTypes'
    OBVIOUS
<1>1. CASE UNCHANGED fifo
    BY <1>1 DEF FifoTypes
<1>2. CASE \E c, v : v \in {"none", "dead", "open"} /\ fifo' = [fifo EXCEPT ![c] = v]
    BY <1>2 DEF FifoTypes
<1>3. ASSUME NEW w \in Writers, RingUnlink(w) PROVE FifoTypes'
    BY <1>2, <1>3 DEF RingUnlink
<1>4. ASSUME NEW w \in Writers, Stamp(w) \/ Write(w) \/ RingScan(w) \/ RingOne(w)
      PROVE  UNCHANGED fifo
    BY <1>4, Zenon DEF Stamp, Write, RingScan, RingOne
<1>5. CASE MkFifo
    <2>1. fifo' = [fifo EXCEPT ![conn] = "dead"]
        BY <1>5, Zenon DEF MkFifo
    <2> QED
        BY <1>2, <2>1
<1>6. CASE OpenFifo
    <2>1. fifo' = [fifo EXCEPT ![conn] = "open"] \/ UNCHANGED fifo
        BY <1>6, Zenon DEF OpenFifo
    <2> QED
        BY <1>1, <1>2, <2>1
<1>7. Seed \/ ReplayCurrent \/ ReplayList \/ ReplayLine \/ ReplayEnd \/ Follow \/ Woken \/ WaitTimesOut
          => UNCHANGED fifo
    BY Zenon DEF Seed, ReplayCurrent, ReplayList, ReplayLine, ReplayEnd, Follow, Woken, WaitTimesOut
<1>8. CASE SshEnds \/ Interrupted
    <2>1. TailEnds
        BY <1>8, Zenon DEF SshEnds, Interrupted
    <2>2. UNCHANGED fifo \/ \E v \in {"none", "dead"} : fifo' = [fifo EXCEPT ![conn] = v]
        BY <2>1 DEF TailEnds
    <2> QED
        BY <1>1, <1>2, <2>2
<1>9. Spawn \/ RelayLine \/ BackoffEnds \/ LinkFails \/ LinkHeals \/ Tick \/ UNCHANGED vars
          => UNCHANGED fifo
    BY Zenon DEF Spawn, RelayLine, BackoffEnds, LinkFails, LinkHeals, Tick, vars
<1> QED
    BY <1>1, <1>3, <1>4, <1>5, <1>6, <1>7, <1>8, <1>9 DEF Next, Emits, Tails, Relays

(* The tail's own steps leave the writers' promises alone, and the steps of  *)
(* a writer that has not yet rung this FIFO pass its promise on.            *)
LEMMA WakeStep ==
    /\ ClockTypes /\ LogTypes /\ WriterTypes /\ FifoTypes /\ TailTypes
    /\ WakeInv /\ [Next]_vars
    => WakeInv'
<1> SUFFICES ASSUME ClockTypes, LogTypes, WriterTypes, FifoTypes, TailTypes, WakeInv, [Next]_vars,
                    Listening', Unread' # <<>>
             PROVE  bell' \/ \E w \in Writers : Rings(w)'
    BY DEF WakeInv
<1>1. CASE UNCHANGED <<files, writer, fifo, bell, tail, conn>>
    BY <1>1, Zenon DEF WakeInv, Listening, Unread, NewIn, Rings
<1>2. CASE Tails
    <2>1. tail'.pc = "wait"
        BY DEF Listening
    <2>2. tail'.offs = [m \in Months |-> Len(files[m])]
        BY <1>2, <2>1, TailMoves DEF TailTypes
    <2>3. UNCHANGED files
        BY <1>2, OthersStep DEF evars
    <2>4. ASSUME NEW m \in Months PROVE SubSeq(files[m], Len(files[m]) + 1, Len(files[m])) = <<>>
        BY <2>4, NothingUnread DEF LogTypes
    <2>5. ASSUME NEW m \in Months
          PROVE  SubSeq(files'[m], tail'.offs[m] + 1, Len(files'[m])) = <<>>
        BY <2>2, <2>3, <2>4, Zenon
    <2>6. 1 \in Months /\ 2 \in Months
        BY DEF Months
    <2>7. Unread' = <<>> \o <<>>
        BY <2>5, <2>6, Zenon DEF Unread, NewIn
    <2> QED
        BY <2>7
<1>3. CASE Spawn
    <2>1. CASE link = "up"
        <3>1. PICK since : tail' = [NoTail EXCEPT !.pc = "mkfifo", !.since = since]
            BY <1>3, <2>1 DEF Spawn
        <3> QED
            BY <3>1 DEF NoTail, Listening
    <2>2. CASE link # "up"
        BY <1>1, <1>3, <2>2, Zenon DEF Spawn, evars
    <2> QED
        BY <2>1, <2>2
<1>4. CASE SshEnds \/ Interrupted
    <2>1. tail' = NoTail
        BY <1>4, Zenon DEF SshEnds, Interrupted, TailEnds
    <2> QED
        BY <2>1 DEF NoTail, Listening
<1>5. RelayLine \/ BackoffEnds \/ LinkFails \/ LinkHeals \/ Tick \/ UNCHANGED vars
          => UNCHANGED <<files, writer, fifo, bell, tail, conn>>
    BY Zenon DEF RelayLine, BackoffEnds, LinkFails, LinkHeals, Tick, vars, evars, tvars
<1>6. ASSUME NEW w \in Writers, Emits(w) PROVE bell' \/ \E v \in Writers : Rings(v)'
    <2>1. UNCHANGED <<tail, conn>>
        BY <1>6, Zenon DEF Emits, Stamp, Write, RingScan, RingOne, RingUnlink, tvars
    <2>2. tail.pc = "wait" /\ tail.live /\ conn \in Conns /\ fifo'[conn] = "open"
        BY <2>1 DEF Listening, TailTypes
    <2>3. ASSUME NEW v \in Writers, v # w PROVE writer'[v] = writer[v]
        BY <1>6, <2>3 DEF Emits, Stamp, Write, RingScan, RingOne, RingUnlink, WriterTypes
    <2>4. ASSUME NEW v \in Writers, v # w, Rings(v) PROVE Rings(v)'
        BY <2>1, <2>3, <2>4 DEF Rings
    <2>5. CASE Write(w)
        <3>1. writer'[w].pc = "scan"
            BY <2>5 DEF Write, WriterTypes
        <3> QED
            BY <3>1 DEF Rings
    <2>6. CASE ~Write(w)
        <3>1. UNCHANGED files
            BY <1>6, <2>6, Zenon DEF Emits, Stamp, RingScan, RingOne, RingUnlink
        <3>2. fifo[conn] = "open"
            <4>1. CASE RingUnlink(w)
                <5>1. fifo' = [fifo EXCEPT ![writer[w].path] = "none"]
                    BY <4>1, Zenon DEF RingUnlink
                <5> QED
                    BY <2>2, <5>1 DEF FifoTypes
            <4>2. CASE ~RingUnlink(w)
                <5>1. UNCHANGED fifo
                    BY <1>6, <2>6, <4>2, Zenon DEF Emits, Stamp, RingScan, RingOne
                <5> QED
                    BY <2>2, <5>1
            <4> QED
                BY <4>1, <4>2
        <3>3. Unread # <<>>
            BY <2>1, <3>1 DEF Unread, NewIn
        <3>4. bell \/ \E v \in Writers : Rings(v)
            BY <2>2, <3>2, <3>3 DEF WakeInv, Listening
        <3>5. bell => bell'
            BY <1>6, <2>6, Zenon DEF Emits, Stamp, RingScan, RingOne, RingUnlink
        <3>6. ASSUME Rings(w) PROVE bell' \/ Rings(w)'
            <4>1. CASE Stamp(w)
                BY <3>6, <4>1 DEF Stamp, Rings
            <4>2. CASE RingScan(w)
                <5> DEFINE paths == {c \in Conns : fifo[c] # "none"}
                <5>1. conn \in paths
                    BY <2>2, <3>2
                <5>2. writer' = [writer EXCEPT ![w] = [writer[w] EXCEPT !.pc = "ring", !.paths = paths]]
                    BY <4>2, <5>1 DEF RingScan
                <5>3. writer'[w].pc = "ring" /\ writer'[w].paths = paths
                    BY <5>2 DEF WriterTypes
                <5> QED
                    BY <2>1, <5>1, <5>3 DEF Rings
            <4>3. ASSUME NEW c, c # conn, conn \in writer[w].paths, writer'[w] = RungPath(w, c)
                  PROVE  Rings(w)'
                <5>1. writer'[w] = [writer[w] EXCEPT !.pc = "ring", !.paths = @ \ {c}, !.path = 0]
                    BY <4>3 DEF RungPath
                <5>2. writer'[w].pc = "ring" /\ conn \in writer'[w].paths
                    BY <4>3, <5>1 DEF WriterTypes
                <5> QED
                    BY <2>1, <5>2 DEF Rings
            <4>4. CASE RingOne(w)
                <5>1. PICK c \in writer[w].paths :
                         /\ bell' = (bell \/ fifo[c] = "open")
                         /\ writer' = [writer EXCEPT ![w] =
                               IF fifo[c] = "dead" THEN [@ EXCEPT !.pc = "unlink", !.path = c]
                               ELSE RungPath(w, c)]
                    BY <4>4, Zenon DEF RingOne
                <5>2. writer[w].pc = "ring" /\ conn \in writer[w].paths
                    BY <3>6, <4>4 DEF RingOne, Rings
                <5>3. CASE c = conn
                    BY <3>2, <5>1, <5>3, Zenon
                <5>4. CASE c # conn /\ fifo[c] = "dead"
                    <6>1. writer'[w] = [writer[w] EXCEPT !.pc = "unlink", !.path = c]
                        BY <5>1, <5>4 DEF WriterTypes
                    <6>2. writer'[w].pc = "unlink" /\ conn \in writer'[w].paths
                        BY <5>2, <6>1 DEF WriterTypes
                    <6> QED
                        BY <2>1, <6>2 DEF Rings
                <5>5. CASE c # conn /\ fifo[c] # "dead"
                    <6>1. writer'[w] = RungPath(w, c)
                        BY <5>1, <5>5 DEF WriterTypes
                    <6> QED
                        BY <4>3, <5>2, <5>5, <6>1
                <5> QED
                    BY <5>3, <5>4, <5>5
            <4>5. CASE RingUnlink(w)
                <5>1. /\ fifo' = [fifo EXCEPT ![writer[w].path] = "none"]
                      /\ writer' = [writer EXCEPT ![w] = RungPath(w, writer[w].path)]
                    BY <4>5, Zenon DEF RingUnlink
                <5>2. writer[w].path # conn
                    BY <2>2, <5>1 DEF FifoTypes
                <5>3. conn \in writer[w].paths
                    BY <3>6, <4>5 DEF RingUnlink, Rings
                <5>4. writer'[w] = RungPath(w, writer[w].path)
                    BY <5>1 DEF WriterTypes
                <5> QED
                    BY <4>3, <5>2, <5>3, <5>4
            <4> QED
                BY <1>6, <2>6, <4>1, <4>2, <4>4, <4>5 DEF Emits
        <3> QED
            BY <2>4, <3>4, <3>5, <3>6
    <2> QED
        BY <2>5, <2>6
<1> QED
    BY <1>1, <1>2, <1>3, <1>4, <1>5, <1>6 DEF Next, Relays

(* Whoever waits at its doorbell with events unread is about to be woken,    *)
(* for any number of writers, connections and attempts (WakeNotLost).       *)
THEOREM DoorbellIsHeard == Spec => []WakeNotLost
<1>1. Init => ClockTypes /\ WriterTypes /\ FifoTypes
    <2>1. Init => ClockTypes /\ FifoTypes
        BY DEF Init, ClockTypes, FifoTypes, Never
    <2>2. Idle \in [pc : WriterStates, ev : Events, paths : SUBSET Conns, path : Conns \cup {0}]
        BY DEF Idle, WriterStates, Events
    <2>3. Init => WriterTypes
        BY <2>2 DEF Init, WriterTypes
    <2> QED
        BY <2>1, <2>3
<1>2. Init => LogTypes /\ TailTypes /\ WakeInv
    <2>1. <<>> \in Seq(Events)
        OBVIOUS
    <2>2. Init => LogTypes
        BY <2>1 DEF Init, LogTypes, Months
    <2>3. Init => TailTypes
        <3>1. MaxConns \in Nat
            BY StreamAssumption
        <3>2. Shape(NoTail) /\ NoTail.pc = "off"
            BY DEF Shape, NoTail
        <3> QED
            BY <3>1, <3>2 DEF Init, TailTypes
    <2>4. Init => WakeInv
        BY DEF Init, NoTail, WakeInv, Listening
    <2> QED
        BY <2>2, <2>3, <2>4
<1>3. WakeInv => WakeNotLost
    BY DEF WakeInv, WakeNotLost, Listening, Rings
<1> QED
    BY <1>1, <1>2, <1>3, ClockStep, WriterStep, LogStep, FifoStep, TailStep, WakeStep, PTL DEF Spec

-----------------------------------------------------------------------------
(* The log: an event is in the file of its month, and its id is its own.    *)
Slots == {s \in Months \X Nat : s[2] \in DOMAIN files[s[1]]}
At(s) == files[s[1]][s[2]]

LogInv ==
    /\ \A s \in Slots : At(s).ts \in Nat /\ MonthOf(At(s).ts) = s[1] /\ At(s).id <= stamped
    /\ \A s, t \in Slots : At(s).id = At(t).id => s = t
    /\ \A w \in Writers : writer[w].pc = "write" =>
          /\ writer[w].ev.ts \in Nat /\ writer[w].ev.id <= stamped
          /\ \A s \in Slots : At(s).id # writer[w].ev.id
    /\ \A v, w \in Writers :
          v # w /\ writer[v].pc = "write" /\ writer[w].pc = "write" => writer[v].ev.id # writer[w].ev.id

(* What the tail has of the files.                                          *)
Starting == {"mkfifo", "open", "seed", "current", "list"}

PlaceInv ==
    /\ tail.offs \in [Months -> Nat] /\ tail.pos \in Nat /\ tail.todo \subseteq Months
    /\ \A m \in Months : tail.offs[m] <= Len(files[m])
    /\ tail.pc # "replay" => tail.pos = 0
    /\ tail.pc = "replay" => /\ tail.todo # {}
                             /\ tail.pos <= Len(files[Oldest(tail.todo)])
                             /\ \A m \in tail.todo : files[m] # <<>>

(* The relay resumes at the time of an event, and the wire carries events.  *)
ResumeInv ==
    /\ relay.last \in Nat \cup {Never} /\ tail.since \in Nat \cup {Never}
    /\ \A q \in DOMAIN wire : \E s \in Slots : wire[q] = At(s)
    /\ heard = Never <=> relay.last = Never
    /\ relay.last # Never => \E s \in Slots : At(s).ts = relay.last
    /\ tail.since # Never => \E s \in Slots : At(s).ts = tail.since
    /\ tail.since <= relay.last
    /\ relay.pc # "up" => tail.pc = "off"
    /\ tail.pc \in {"off"} \cup Starting => wire = <<>>
    /\ tail.pc \in {"mkfifo", "open", "seed"} /\ tail.since = Never => heard = Never
    /\ tail.pc \in {"current", "list", "replay"} => tail.since # Never

(* The tail has still to come to the event of a slot.                       *)
Pending(s) ==
    \/ tail.pc \in Starting
    \/ /\ tail.pc = "replay"
       /\ \/ s[1] \in tail.todo /\ (s[1] = Oldest(tail.todo) => tail.pos < s[2])
          \/ (\A m \in tail.todo : m < s[1]) /\ tail.offs[s[1]] < s[2]
    \/ tail.pc \in {"follow", "wait"} /\ tail.offs[s[1]] < s[2]

(* Nothing later than the event of a slot goes before it.                   *)
InTurn(s) ==
    /\ relay.last <= At(s).ts
    /\ \A q \in DOMAIN wire : wire[q].ts > At(s).ts => \E p \in 1..q : wire[p] = At(s)

OnItsWay(s) == (\E p \in DOMAIN wire : wire[p] = At(s)) \/ Pending(s)

OwedInv ==
    /\ \A id \in owed : \E s \in Slots : At(s).id = id
    /\ \A s \in Slots : At(s).id \in owed =>
          /\ heard # Never
          /\ \A r \in Slots : r[1] = s[1] /\ r[2] < s[2] => At(r).ts <= At(s).ts
          /\ At(s).id \notin out =>
                InTurn(s) /\ (link = "up" /\ tail.pc # "off" => OnItsWay(s))

(* The lines of its current month that the tail has printed, or skipped.    *)
Front ==
    IF tail.pc # "replay" \/ tail.cur \notin tail.todo THEN tail.offs[tail.cur]
    ELSE IF tail.cur = Oldest(tail.todo) THEN tail.pos ELSE 0

(* Printed of the current month, up to a line of its file.                  *)
Printed(n) ==
    /\ \A i \in DOMAIN printed :
          MonthOf(printed[i].ts) = tail.cur => \E k \in 1..n : printed[i] = files[tail.cur][k]
    /\ HandoffExact

HandInv ==
    /\ tail.cur \in {0} \cup Months
    /\ tail.pc \in {"off"} \cup Starting => printed = <<>>
    /\ Printed(Front)

-----------------------------------------------------------------------------
(* The log only grows: a write adds one slot, no other step any.            *)
NewSlot(w) == <<MonthOf(writer[w].ev.ts), Len(files[MonthOf(writer[w].ev.ts)]) + 1>>

LEMMA SlotFacts ==
    ASSUME LogTypes, NEW s \in Slots
    PROVE  /\ s[1] \in Months /\ s[2] \in 1..Len(files[s[1]]) /\ s = <<s[1], s[2]>>
           /\ At(s) \in Events /\ At(s).ts \in Int /\ At(s).id \in Int
<1>1. s[1] \in Months /\ s[2] \in DOMAIN files[s[1]] /\ s = <<s[1], s[2]>>
    BY DEF Slots
<1>2. files[s[1]] \in Seq(Events)
    BY <1>1 DEF LogTypes
<1>3. s[2] \in 1..Len(files[s[1]]) /\ files[s[1]][s[2]] \in Events
    BY <1>1, <1>2
<1> QED
    BY <1>1, <1>3 DEF At, Events

LEMMA SlotIntro ==
    ASSUME LogTypes, NEW m \in Months, NEW k \in 1..Len(files[m])
    PROVE  <<m, k>> \in Slots /\ At(<<m, k>>) = files[m][k]
<1>1. files[m] \in Seq(Events) /\ Len(files[m]) \in Nat
    BY DEF LogTypes
<1>2. k \in Nat /\ k \in DOMAIN files[m]
    BY <1>1
<1> QED
    BY <1>2 DEF Slots, At

LEMMA FilesFrame ==
    ASSUME UNCHANGED files PROVE Slots' = Slots /\ \A s : At(s)' = At(s)
BY DEF Slots, At

LEMMA AppendFacts ==
    ASSUME NEW S, NEW q \in Seq(S), NEW e \in S
    PROVE  /\ DOMAIN Append(q, e) = DOMAIN q \cup {Len(q) + 1} /\ Len(q) + 1 \notin DOMAIN q
           /\ \A k \in DOMAIN q : Append(q, e)[k] = q[k]
           /\ Append(q, e)[Len(q) + 1] = e
<1>1. DOMAIN q = 1..Len(q) /\ Len(q) \in Nat
    OBVIOUS
<1>2. DOMAIN Append(q, e) = 1..(Len(q) + 1)
    OBVIOUS
<1>3. ASSUME NEW n \in Nat PROVE 1..(n + 1) = 1..n \cup {n + 1} /\ n + 1 \notin 1..n
    OBVIOUS
<1>4. ASSUME NEW k \in DOMAIN q PROVE Append(q, e)[k] = q[k]
    OBVIOUS
<1>5. Append(q, e)[Len(q) + 1] = e
    OBVIOUS
<1> QED
    BY <1>1, <1>2, <1>3, <1>4, <1>5

LEMMA Grow ==
    ASSUME LogTypes, WriterTypes, NEW w \in Writers, Write(w)
    PROVE  /\ NewSlot(w) \notin Slots
           /\ Slots' = Slots \cup {NewSlot(w)}
           /\ \A s \in Slots : At(s)' = At(s)
           /\ files'[NewSlot(w)[1]][NewSlot(w)[2]] = writer[w].ev
<1> DEFINE ev == writer[w].ev
           m == MonthOf(ev.ts)
           n == Len(files[m])
<1>1. ev \in Events /\ m \in Months
    BY DEF WriterTypes, MonthOf, Months
<1>2. files' = [files EXCEPT ![m] = Append(@, ev)]
    BY Zenon DEF Write, AppendAndRecord
<1>3. files[m] \in Seq(Events) /\ n \in Nat
    BY <1>1 DEF LogTypes
<1>4. files'[m] = Append(files[m], ev)
    BY <1>1, <1>2 DEF LogTypes
<1>5. ASSUME NEW k \in Months, k # m PROVE files'[k] = files[k]
    BY <1>2, <1>5 DEF LogTypes
<1> HIDE DEF m, ev
<1>6. /\ DOMAIN Append(files[m], ev) = DOMAIN files[m] \cup {n + 1} /\ n + 1 \notin DOMAIN files[m]
      /\ \A k \in DOMAIN files[m] : Append(files[m], ev)[k] = files[m][k]
      /\ Append(files[m], ev)[n + 1] = ev
    BY <1>1, <1>3, AppendFacts
<1>7. NewSlot(w) = <<m, n + 1>>
    BY DEF NewSlot, m, ev
<1> HIDE DEF n
<1>8. ASSUME NEW s \in Slots PROVE At(s)' = At(s) /\ s \in Slots' /\ s # <<m, n + 1>>
    BY <1>4, <1>5, <1>6 DEF Slots, At
<1>9. n + 1 \in Nat
    BY <1>3 DEF n
<1>10. ASSUME NEW s \in Slots' PROVE s \in Slots \/ s = <<m, n + 1>>
    BY <1>4, <1>5, <1>6 DEF Slots
<1>11. <<m, n + 1>> \in Slots'
    BY <1>1, <1>4, <1>6, <1>9 DEF Slots
<1> QED
    BY <1>4, <1>6, <1>7, <1>8, <1>10, <1>11 DEF ev

LEMMA LogInvStep == ClockTypes /\ WriterTypes /\ LogTypes /\ LogInv /\ [Next]_vars => LogInv'
<1> SUFFICES ASSUME ClockTypes, WriterTypes, LogTypes, LogInv, [Next]_vars PROVE LogInv'
    OBVIOUS
<1>1. ASSUME UNCHANGED files, stamped' \in Nat, stamped <= stamped',
             \A v \in Writers : writer'[v].pc = "write" => writer'[v] = writer[v]
      PROVE  LogInv'
    <2>1. Slots' = Slots /\ \A s : At(s)' = At(s)
        BY <1>1, FilesFrame
    <2>2. \A s \in Slots : At(s).id \in Int
        BY SlotFacts
    <2>3. \A v \in Writers : writer[v].ev.id \in Int
        BY DEF WriterTypes, Events
    <2> HIDE DEF Slots, At
    <2>4. \A s \in Slots' : At(s)'.ts \in Nat /\ MonthOf(At(s)'.ts) = s[1] /\ At(s)'.id <= stamped'
        BY <1>1, <2>1, <2>2 DEF LogInv, ClockTypes
    <2>5. \A s, t \in Slots' : At(s)'.id = At(t)'.id => s = t
        BY <2>1 DEF LogInv
    <2>6. ASSUME NEW v \in Writers, writer'[v].pc = "write"
          PROVE  /\ writer'[v].ev.ts \in Nat /\ writer'[v].ev.id <= stamped'
                 /\ \A s \in Slots' : At(s)'.id # writer'[v].ev.id
        BY <1>1, <2>1, <2>3, <2>6 DEF LogInv, ClockTypes
    <2>7. ASSUME NEW v \in Writers, NEW w \in Writers,
                 v # w, writer'[v].pc = "write", writer'[w].pc = "write"
          PROVE  writer'[v].ev.id # writer'[w].ev.id
        BY <1>1, <2>7 DEF LogInv
    <2> QED
        BY <2>4, <2>5, <2>6, <2>7 DEF LogInv
<1>2. ASSUME NEW w \in Writers, Stamp(w) PROVE LogInv'
    <2> DEFINE ev == [id |-> stamped + 1, ts |-> now]
    <2>1. /\ writer' = [writer EXCEPT ![w] = [writer[w] EXCEPT !.pc = "write", !.ev = ev]]
          /\ stamped' = stamped + 1 /\ UNCHANGED files
        BY <1>2 DEF Stamp
    <2>2. Slots' = Slots /\ \A s : At(s)' = At(s)
        BY <2>1, FilesFrame
    <2>3. \A s \in Slots : At(s).id \in Int
        BY SlotFacts
    <2>4. writer'[w].ev = ev /\ \A v \in Writers : v # w => writer'[v] = writer[v]
        BY <2>1 DEF WriterTypes
    <2>5. \A v \in Writers : writer[v].ev.id \in Int
        BY DEF WriterTypes, Events
    <2>6. ev.id = stamped + 1 /\ ev.ts \in Nat /\ stamped \in Nat
        BY DEF ClockTypes
    <2> HIDE DEF Slots, At, ev
    <2>7. \A s \in Slots' : At(s)'.ts \in Nat /\ MonthOf(At(s)'.ts) = s[1] /\ At(s)'.id <= stamped'
        BY <2>1, <2>2, <2>3, <2>6 DEF LogInv
    <2>8. \A s, t \in Slots' : At(s)'.id = At(t)'.id => s = t
        BY <2>2 DEF LogInv
    <2>9. ASSUME NEW v \in Writers, writer'[v].pc = "write"
          PROVE  /\ writer'[v].ev.ts \in Nat /\ writer'[v].ev.id <= stamped'
                 /\ \A s \in Slots' : At(s)'.id # writer'[v].ev.id
        BY <2>1, <2>2, <2>3, <2>4, <2>5, <2>6, <2>9 DEF LogInv
    <2>10. ASSUME NEW v \in Writers, NEW u \in Writers,
                  v # u, writer'[v].pc = "write", writer'[u].pc = "write"
           PROVE  writer'[v].ev.id # writer'[u].ev.id
        BY <2>4, <2>5, <2>6, <2>10 DEF LogInv
    <2> QED
        BY <2>7, <2>8, <2>9, <2>10 DEF LogInv
<1>3. ASSUME NEW w \in Writers, Write(w) PROVE LogInv'
    <2>a. PICK ev, new : ev = writer[w].ev /\ new = NewSlot(w)
        OBVIOUS
    <2>1. writer' = [writer EXCEPT ![w] = [writer[w] EXCEPT !.pc = "scan"]] /\ UNCHANGED stamped
        BY <1>3, Zenon DEF Write
    <2>2. writer'[w].pc = "scan" /\ \A v \in Writers : v # w => writer'[v] = writer[v]
        BY <2>1 DEF WriterTypes
    <2>3. /\ Slots' = Slots \cup {new} /\ new[1] = MonthOf(ev.ts)
          /\ At(new)' = ev /\ \A s \in Slots : At(s)' = At(s)
        BY <1>3, <2>a, Grow DEF At, NewSlot
    <2>4. /\ ev.ts \in Nat /\ ev.id <= stamped /\ \A s \in Slots : At(s).id # ev.id
          /\ \A v \in Writers : v # w /\ writer[v].pc = "write" => writer[v].ev.id # ev.id
        BY <1>3, <2>a DEF LogInv, Write
    <2> HIDE DEF Slots, At
    <2>5. \A s \in Slots' : At(s)'.ts \in Nat /\ MonthOf(At(s)'.ts) = s[1] /\ At(s)'.id <= stamped'
        BY <2>1, <2>3, <2>4 DEF LogInv
    <2>6. \A s, t \in Slots' : At(s)'.id = At(t)'.id => s = t
        BY <2>3, <2>4 DEF LogInv
    <2>7. ASSUME NEW v \in Writers, writer'[v].pc = "write"
          PROVE  /\ writer'[v].ev.ts \in Nat /\ writer'[v].ev.id <= stamped'
                 /\ \A s \in Slots' : At(s)'.id # writer'[v].ev.id
        BY <2>1, <2>2, <2>3, <2>4, <2>7 DEF LogInv
    <2>8. ASSUME NEW v \in Writers, NEW u \in Writers,
                 v # u, writer'[v].pc = "write", writer'[u].pc = "write"
          PROVE  writer'[v].ev.id # writer'[u].ev.id
        BY <2>2, <2>8 DEF LogInv
    <2> QED
        BY <2>5, <2>6, <2>7, <2>8 DEF LogInv
<1>4. ASSUME NEW w \in Writers, RingScan(w) \/ RingOne(w) \/ RingUnlink(w) PROVE LogInv'
    <2>1. UNCHANGED <<files, stamped>>
        BY <1>4, Zenon DEF RingScan, RingOne, RingUnlink
    <2>2. PICK r : writer' = [writer EXCEPT ![w] = r] /\ r.pc # "write"
        <3>1. ASSUME NEW c PROVE RungPath(w, c).pc # "write"
            BY DEF RungPath, Idle, WriterTypes
        <3>2. CASE RingScan(w)
            <4> DEFINE paths == {c \in Conns : fifo[c] # "none"}
            <4>1. writer' = [writer EXCEPT ![w] =
                        IF paths = {} THEN Idle ELSE [writer[w] EXCEPT !.pc = "ring", !.paths = paths]]
                BY <3>2 DEF RingScan
            <4>2. Idle.pc # "write" /\ [writer[w] EXCEPT !.pc = "ring", !.paths = paths].pc # "write"
                BY DEF Idle, WriterTypes
            <4> QED
                BY <4>1, <4>2
        <3>3. CASE RingOne(w)
            BY <3>1, <3>3 DEF RingOne, WriterTypes
        <3>4. CASE RingUnlink(w)
            BY <3>1, <3>4 DEF RingUnlink
        <3> QED
            BY <1>4, <3>2, <3>3, <3>4
    <2>3. \A v \in Writers : writer'[v].pc = "write" => writer'[v] = writer[v]
        BY <2>2 DEF WriterTypes
    <2> QED
        BY <1>1, <2>1, <2>3 DEF ClockTypes
<1>5. CASE UNCHANGED evars
    BY <1>1, <1>5 DEF evars, ClockTypes
<1> QED
    BY <1>2, <1>3, <1>4, <1>5, OthersStep DEF Next, Emits, vars

LEMMA FilesGrow ==
    ASSUME LogTypes, WriterTypes, [Next]_vars, NEW m \in Months
    PROVE  /\ Len(files[m]) \in Nat /\ Len(files'[m]) \in Nat /\ Len(files[m]) <= Len(files'[m])
           /\ files[m] = <<>> <=> Len(files[m]) = 0
           /\ files'[m] = <<>> <=> Len(files'[m]) = 0
<1>1. files[m] \in Seq(Events) /\ files'[m] \in Seq(Events)
    BY LogStep DEF LogTypes
<1>2. ASSUME NEW q \in Seq(Events) PROVE Len(q) \in Nat /\ (q = <<>> <=> Len(q) = 0)
    OBVIOUS
<1>3. UNCHANGED files => Len(files[m]) <= Len(files'[m])
    BY <1>1, <1>2
<1>4. ASSUME NEW w \in Writers, Write(w) PROVE Len(files[m]) <= Len(files'[m])
    <2> DEFINE ev == writer[w].ev
    <2>1. ev \in Events
        BY DEF WriterTypes
    <2>2. files' = [files EXCEPT ![MonthOf(ev.ts)] = Append(@, ev)]
        BY <1>4, Zenon DEF Write, AppendAndRecord
    <2> HIDE DEF ev, Events
    <2>3. files'[m] = files[m] \/ files'[m] = Append(files[m], ev)
        BY <2>2 DEF LogTypes
    <2> QED
        BY <1>1, <1>2, <2>1, <2>3
<1>5. ASSUME NEW w \in Writers, Stamp(w) \/ RingScan(w) \/ RingOne(w) \/ RingUnlink(w)
      PROVE  UNCHANGED files
    BY <1>5, Zenon DEF Stamp, RingScan, RingOne, RingUnlink
<1> QED
    BY <1>1, <1>2, <1>3, <1>4, <1>5, OthersStep DEF Next, Emits, vars, evars

(* What each step of the tail does to its offsets and to its replay.        *)
LEMMA OpenEffect ==
    ASSUME Shape(tail), MkFifo \/ OpenFifo
    PROVE  /\ tail.pc \in {"mkfifo", "open"} /\ tail'.pc \in {"mkfifo", "open", "seed"}
           /\ tail'.offs = tail.offs /\ tail'.since = tail.since /\ tail'.cur = tail.cur
           /\ tail'.todo = tail.todo /\ tail'.pos = tail.pos
<1>1. CASE MkFifo
    <2>1. tail.pc = "mkfifo" /\ tail' = [tail EXCEPT !.pc = "open"]
        BY <1>1, Zenon DEF MkFifo
    <2> QED
        BY <2>1 DEF Shape
<1>2. CASE OpenFifo
    <2>1. /\ tail.pc = "open"
          /\ \/ tail' = [tail EXCEPT !.pc = "seed", !.live = TRUE]
             \/ tail' = [tail EXCEPT !.pc = "mkfifo", !.tries = @ + 1]
             \/ tail' = [tail EXCEPT !.pc = "seed"]
        BY <1>2, Zenon DEF OpenFifo
    <2> QED
        BY <2>1 DEF Shape
<1> QED
    BY <1>1, <1>2

LEMMA SeedEffect ==
    ASSUME Shape(tail), Seed
    PROVE  /\ tail.pc = "seed" /\ tail'.pc = IF tail.since = Never THEN "follow" ELSE "current"
           /\ tail'.offs = [m \in Months |-> Len(files[m])] /\ tail'.since = tail.since
           /\ tail'.cur = tail.cur /\ tail'.todo = tail.todo /\ tail'.pos = tail.pos
<1> DEFINE offs == [m \in Months |-> Len(files[m])]
           to == IF tail.since = Never THEN "follow" ELSE "current"
<1>1. tail.pc = "seed" /\ tail' = [tail EXCEPT !.offs = offs, !.pc = to]
    BY Zenon DEF Seed
<1> HIDE DEF offs, to
<1>2. /\ tail'.offs = offs /\ tail'.pc = to /\ tail'.since = tail.since
      /\ tail'.cur = tail.cur /\ tail'.todo = tail.todo /\ tail'.pos = tail.pos
    BY <1>1 DEF Shape
<1> QED
    BY <1>1, <1>2 DEF offs, to

LEMMA CurrentEffect ==
    ASSUME Shape(tail), ReplayCurrent
    PROVE  /\ tail.pc = "current" /\ tail'.pc = "list" /\ tail'.cur = MonthOf(now)
           /\ tail'.offs = tail.offs /\ tail'.since = tail.since
           /\ tail'.todo = tail.todo /\ tail'.pos = tail.pos
<1> DEFINE cur == MonthOf(now)
<1>1. tail.pc = "current" /\ tail' = [tail EXCEPT !.pc = "list", !.cur = cur]
    BY Zenon DEF ReplayCurrent
<1> HIDE DEF cur
<1>2. /\ tail'.pc = "list" /\ tail'.cur = cur /\ tail'.offs = tail.offs /\ tail'.since = tail.since
      /\ tail'.todo = tail.todo /\ tail'.pos = tail.pos
    BY <1>1 DEF Shape
<1> QED
    BY <1>1, <1>2 DEF cur

LEMMA ListEffect ==
    ASSUME Shape(tail), ReplayList
    PROVE  /\ tail.pc = "list" /\ tail'.pc = "replay"
           /\ tail'.todo = {m \in MonthOf(tail.since)..2 : files[m] # <<>>}
           /\ tail'.offs = tail.offs /\ tail'.since = tail.since /\ tail'.cur = tail.cur
           /\ tail'.pos = tail.pos
<1> DEFINE todo == {m \in MonthOf(tail.since)..2 : files[m] # <<>>}
<1>1. tail.pc = "list" /\ tail' = [tail EXCEPT !.pc = "replay", !.todo = todo]
    BY Zenon DEF ReplayList
<1> HIDE DEF todo
<1>2. /\ tail'.pc = "replay" /\ tail'.todo = todo /\ tail'.offs = tail.offs
      /\ tail'.since = tail.since /\ tail'.cur = tail.cur /\ tail'.pos = tail.pos
    BY <1>1 DEF Shape
<1> QED
    BY <1>1, <1>2 DEF todo

LEMMA LineEffect ==
    ASSUME Shape(tail), ReplayLine
    PROVE  /\ tail.pc = "replay" /\ tail'.pc = "replay" /\ tail'.pos = tail.pos + 1
           /\ tail'.offs = tail.offs /\ tail'.since = tail.since /\ tail'.cur = tail.cur
           /\ tail'.todo = tail.todo
<1>1. tail.pc = "replay" /\ tail' = [tail EXCEPT !.pos = @ + 1]
    BY Zenon DEF ReplayLine
<1> QED
    BY <1>1 DEF Shape

LEMMA FollowEffect ==
    ASSUME Shape(tail), Follow
    PROVE  /\ tail.pc = "follow" /\ tail'.pc \in {"wait", "follow"}
           /\ tail'.offs = [m \in Months |-> Len(files[m])] /\ tail'.since = tail.since
           /\ tail'.cur = tail.cur /\ tail'.todo = tail.todo /\ tail'.pos = tail.pos
<1> DEFINE offs == [m \in Months |-> Len(files[m])]
           to == IF Unread = <<>> THEN "wait" ELSE "follow"
<1>1. tail.pc = "follow" /\ tail' = [tail EXCEPT !.offs = offs, !.pc = to]
    BY Zenon DEF Follow
<1>2. to \in {"wait", "follow"}
    OBVIOUS
<1> HIDE DEF offs, to
<1>3. /\ tail'.offs = offs /\ tail'.pc = to /\ tail'.since = tail.since
      /\ tail'.cur = tail.cur /\ tail'.todo = tail.todo /\ tail'.pos = tail.pos
    BY <1>1 DEF Shape
<1> QED
    BY <1>1, <1>2, <1>3 DEF offs

LEMMA WakeEffect ==
    ASSUME Shape(tail), Woken \/ WaitTimesOut
    PROVE  /\ tail.pc = "wait" /\ tail'.pc = "follow"
           /\ tail'.offs = tail.offs /\ tail'.since = tail.since /\ tail'.cur = tail.cur
           /\ tail'.todo = tail.todo /\ tail'.pos = tail.pos
<1>1. tail.pc = "wait" /\ tail' = [tail EXCEPT !.pc = "follow"]
    BY Zenon DEF Woken, WaitTimesOut
<1> QED
    BY <1>1 DEF Shape

LEMMA ReplayEndEffect ==
    ASSUME Shape(tail), ReplayEnd, NEW m, m = Oldest(tail.todo), tail.offs \in [Months -> Nat]
    PROVE  /\ tail.pc = "replay" /\ tail.pos = Len(files[m])
           /\ tail'.pc = IF tail.todo = {m} THEN "follow" ELSE "replay"
           /\ tail'.todo = tail.todo \ {m} /\ tail'.pos = 0
           /\ tail'.since = tail.since /\ tail'.cur = tail.cur
           /\ tail'.offs = [tail.offs EXCEPT ![m] = IF m = tail.cur THEN tail.pos ELSE @]
<1> DEFINE to == IF tail.todo = {m} THEN "follow" ELSE "replay"
           todo == tail.todo \ {m}
<1>1. /\ tail.pc = "replay" /\ tail.pos = Len(files[m])
      /\ tail' = [tail EXCEPT !.todo = todo, !.pos = 0, !.pc = to,
                              !.offs[m] = IF m = tail.cur THEN tail.pos ELSE @]
    BY DEF ReplayEnd
<1> HIDE DEF to, todo
<1>2. /\ tail'.todo = todo /\ tail'.pos = 0 /\ tail'.pc = to
      /\ tail'.since = tail.since /\ tail'.cur = tail.cur
    BY <1>1 DEF Shape
<1>3. tail'.offs = [tail.offs EXCEPT ![m] = IF m = tail.cur THEN tail.pos ELSE @]
    BY <1>1 DEF Shape
<1> QED
    BY <1>1, <1>2, <1>3 DEF to, todo

LEMMA OldestFacts ==
    ASSUME NEW S, S \subseteq Months, S # {}
    PROVE  Oldest(S) \in S /\ \A k \in S : Oldest(S) <= k
<1>1. \E m \in S : \A k \in S : m <= k
    <2>1. CASE 1 \in S
        BY <2>1 DEF Months
    <2>2. CASE 1 \notin S
        <3>1. \A k \in S : k \in 1..2 /\ k # 1
            BY <2>2 DEF Months
        <3>2. \A k \in S : k = 2
            BY <3>1
        <3> QED
            BY <3>2
    <2> QED
        BY <2>1, <2>2
<1> QED
    BY <1>1 DEF Oldest

LEMMA PlaceStep ==
    LogTypes /\ WriterTypes /\ TailTypes /\ LogInv /\ ResumeInv /\ PlaceInv /\ [Next]_vars => PlaceInv'
<1> SUFFICES ASSUME LogTypes, WriterTypes, TailTypes, LogInv, ResumeInv, PlaceInv, [Next]_vars
             PROVE  PlaceInv'
    OBVIOUS
<1>a. \A m \in Months : /\ Len(files[m]) \in Nat /\ Len(files'[m]) \in Nat
                        /\ Len(files[m]) <= Len(files'[m])
                        /\ files[m] = <<>> <=> Len(files[m]) = 0
                        /\ files'[m] = <<>> <=> Len(files'[m]) = 0
    BY FilesGrow
<1>b. Shape(tail)
    BY DEF TailTypes
<1>1. ASSUME tail'.offs = tail.offs, tail'.todo = tail.todo, tail'.pos = tail.pos,
             tail'.pc = tail.pc \/ (tail.pc # "replay" /\ tail'.pc # "replay")
      PROVE  PlaceInv'
    <2>1. tail'.offs \in [Months -> Nat] /\ tail'.pos \in Nat /\ tail'.todo \subseteq Months
        BY <1>1 DEF PlaceInv
    <2>2. \A m \in Months : tail'.offs[m] <= Len(files'[m])
        BY <1>1, <1>a DEF PlaceInv
    <2>3. tail'.pc # "replay" => tail'.pos = 0
        BY <1>1 DEF PlaceInv
    <2>4. ASSUME tail'.pc = "replay"
          PROVE  /\ tail'.todo # {} /\ tail'.pos <= Len(files'[Oldest(tail'.todo)])
                 /\ \A m \in tail'.todo : files'[m] # <<>>
        <3>1. /\ tail.todo # {} /\ tail.todo \subseteq Months /\ tail.pos \in Nat
              /\ tail.pos <= Len(files[Oldest(tail.todo)]) /\ \A m \in tail.todo : files[m] # <<>>
            BY <1>1, <2>4 DEF PlaceInv
        <3>2. Oldest(tail.todo) \in tail.todo
            BY <3>1, OldestFacts
        <3> HIDE DEF Oldest
        <3>3. tail.pos <= Len(files'[Oldest(tail.todo)])
            BY <1>a, <3>1, <3>2
        <3>4. \A m \in tail.todo : files'[m] # <<>>
            BY <1>a, <3>1
        <3> QED
            BY <1>1, <3>1, <3>3, <3>4
    <2> QED
        BY <2>1, <2>2, <2>3, <2>4 DEF PlaceInv
<1>2. CASE MkFifo \/ OpenFifo \/ ReplayCurrent \/ Woken \/ WaitTimesOut
    BY <1>1, <1>2, <1>b, OpenEffect, CurrentEffect, WakeEffect
<1>3. CASE Seed \/ Follow
    <2>1. /\ tail.pc # "replay" /\ tail'.pc # "replay"
          /\ tail'.offs = [m \in Months |-> Len(files[m])] /\ tail'.todo = tail.todo
          /\ tail'.pos = tail.pos
        BY <1>3, <1>b, SeedEffect, FollowEffect
    <2>2. tail'.offs \in [Months -> Nat] /\ \A m \in Months : tail'.offs[m] <= Len(files'[m])
        BY <1>a, <2>1
    <2> QED
        BY <2>1, <2>2 DEF PlaceInv
<1>4. CASE ReplayList
    <2> DEFINE todo == {m \in MonthOf(tail.since)..2 : files[m] # <<>>}
    <2>1. /\ tail.pc = "list" /\ tail'.pc = "replay" /\ tail'.todo = todo
          /\ tail'.offs = tail.offs /\ tail'.pos = tail.pos
        BY <1>4, <1>b, ListEffect
    <2>2. UNCHANGED files
        BY <1>4, OthersStep DEF Tails, evars
    <2>3. PICK s \in Slots : At(s).ts = tail.since
        BY <2>1 DEF ResumeInv
    <2>4. s[1] = MonthOf(tail.since) /\ s[1] \in Months /\ s[2] \in 1..Len(files[s[1]])
        BY <2>3, SlotFacts DEF LogInv
    <2>5. todo \subseteq Months /\ s[1] \in todo
        <3>1. files[s[1]] # <<>>
            BY <1>a, <2>4
        <3> QED
            BY <2>4, <3>1 DEF Months
    <2>6. tail'.pos = 0 /\ \A m \in Months : tail'.offs[m] <= Len(files'[m])
        BY <2>1, <2>2 DEF PlaceInv
    <2>7. Oldest(todo) \in todo
        BY <2>5, OldestFacts
    <2>8. \A m \in todo : files'[m] # <<>>
        BY <2>2
    <2>9. 0 <= Len(files'[Oldest(todo)])
        BY <1>a, <2>5, <2>7
    <2> HIDE DEF todo
    <2> QED
        BY <2>1, <2>5, <2>6, <2>8, <2>9 DEF PlaceInv
<1>5. CASE ReplayLine
    <2> DEFINE o == Oldest(tail.todo)
    <2>1. /\ tail.pc = "replay" /\ tail'.pc = "replay" /\ tail'.pos = tail.pos + 1
          /\ tail'.offs = tail.offs /\ tail'.todo = tail.todo
        BY <1>5, <1>b, LineEffect
    <2>2. UNCHANGED files /\ tail.pos < Len(files[o])
        BY <1>5, OthersStep DEF Tails, evars, ReplayLine
    <2>3. o \in tail.todo /\ tail.todo \subseteq Months /\ tail.pos \in Nat
        BY <2>1, OldestFacts DEF PlaceInv
    <2> HIDE DEF o
    <2>4. tail'.pos \in Nat /\ tail'.pos <= Len(files'[o])
        BY <1>a, <2>1, <2>2, <2>3
    <2> QED
        BY <2>1, <2>2, <2>4 DEF PlaceInv, o
<1>6. CASE ReplayEnd
    <2>a. PICK o : o = Oldest(tail.todo)
        OBVIOUS
    <2>b. tail.offs \in [Months -> Nat]
        BY DEF PlaceInv
    <2>1. /\ tail.pc = "replay" /\ tail.pos = Len(files[o])
          /\ tail'.pc = IF tail.todo = {o} THEN "follow" ELSE "replay"
          /\ tail'.todo = tail.todo \ {o} /\ tail'.pos = 0
          /\ tail'.offs = [tail.offs EXCEPT ![o] = IF o = tail.cur THEN tail.pos ELSE @]
        BY <1>6, <1>b, <2>a, <2>b, ReplayEndEffect
    <2>2. UNCHANGED files
        BY <1>6, OthersStep DEF Tails, evars
    <2>3. o \in tail.todo /\ tail.todo \subseteq Months /\ tail.pos \in Nat
        BY <2>1, <2>a, OldestFacts DEF PlaceInv
    <2>4. tail'.offs \in [Months -> Nat]
        BY <2>1, <2>3, <2>b
    <2>5. ASSUME NEW m \in Months PROVE tail'.offs[m] <= Len(files'[m])
        BY <1>a, <2>1, <2>2, <2>3, <2>b DEF PlaceInv
    <2>6. ASSUME tail'.pc = "replay"
          PROVE  /\ tail'.todo # {} /\ tail'.pos <= Len(files'[Oldest(tail'.todo)])
                 /\ \A m \in tail'.todo : files'[m] # <<>>
        <3>1. tail'.todo # {} /\ tail'.todo \subseteq tail.todo
            BY <2>1, <2>3, <2>6
        <3>2. Oldest(tail'.todo) \in Months
            BY <2>3, <3>1, OldestFacts
        <3>3. 0 <= Len(files'[Oldest(tail'.todo)])
            BY <1>a, <3>2
        <3>4. \A m \in tail.todo : files[m] # <<>>
            BY <2>1 DEF PlaceInv
        <3> QED
            BY <2>1, <2>2, <3>1, <3>3, <3>4
    <2> QED
        BY <2>1, <2>3, <2>4, <2>5, <2>6 DEF PlaceInv
<1>7. CASE tail' = NoTail \/ \E since : tail' = [NoTail EXCEPT !.pc = "mkfifo", !.since = since]
    <2>1. tail'.offs = <<0, 0>> /\ tail'.todo = {} /\ tail'.pos = 0 /\ tail'.pc # "replay"
        <3>1. CASE tail' = NoTail
            BY <3>1 DEF NoTail
        <3>2. ASSUME NEW since, tail' = [NoTail EXCEPT !.pc = "mkfifo", !.since = since]
              PROVE  tail'.offs = <<0, 0>> /\ tail'.todo = {} /\ tail'.pos = 0 /\ tail'.pc # "replay"
            BY <3>2 DEF NoTail
        <3> QED
            BY <1>7, <3>1, <3>2
    <2>2. tail'.offs \in [Months -> Nat] /\ \A m \in Months : tail'.offs[m] <= Len(files'[m])
        <3>1. \A m \in Months : tail'.offs[m] = 0
            BY <2>1 DEF Months
        <3> QED
            BY <1>a, <2>1, <3>1 DEF Months
    <2> QED
        BY <2>1, <2>2 DEF PlaceInv
<1>8. SshEnds \/ Interrupted => tail' = NoTail
    BY DEF SshEnds, Interrupted, TailEnds
<1>9. Spawn => UNCHANGED tail \/ \E since : tail' = [NoTail EXCEPT !.pc = "mkfifo", !.since = since]
    BY DEF Spawn
<1>10. (\E w \in Writers : Emits(w)) \/ RelayLine \/ BackoffEnds \/ LinkFails \/ LinkHeals \/ Tick
          \/ UNCHANGED vars => UNCHANGED tail
    BY Zenon DEF Emits, Stamp, Write, RingScan, RingOne, RingUnlink, RelayLine, BackoffEnds,
        LinkFails, LinkHeals, Tick, tvars, vars
<1>11. CASE UNCHANGED tail
    BY <1>1, <1>11
<1>12. Next \/ UNCHANGED vars
    OBVIOUS
<1> QED
    BY <1>2, <1>3, <1>4, <1>5, <1>6, <1>7, <1>8, <1>9, <1>10, <1>11, <1>12 DEF Next, Tails, Relays

LEMMA SlotsKept ==
    ASSUME LogTypes, WriterTypes, [Next]_vars
    PROVE  \A s \in Slots : s \in Slots' /\ At(s)' = At(s)
<1>1. CASE UNCHANGED files
    BY <1>1, FilesFrame
<1>2. ASSUME NEW w \in Writers, Write(w) PROVE \A s \in Slots : s \in Slots' /\ At(s)' = At(s)
    BY <1>2, Grow
<1>3. ASSUME NEW w \in Writers, Stamp(w) \/ RingScan(w) \/ RingOne(w) \/ RingUnlink(w)
      PROVE  UNCHANGED files
    BY <1>3, Zenon DEF Stamp, RingScan, RingOne, RingUnlink
<1> QED
    BY <1>1, <1>2, <1>3, OthersStep DEF Next, Emits, vars, evars

(* Sequences, once for all.                                                 *)
LEMMA ConcatFacts ==
    ASSUME NEW S, NEW a \in Seq(S), NEW b \in Seq(S)
    PROVE  /\ a \o b \in Seq(S) /\ Len(a \o b) = Len(a) + Len(b)
           /\ Len(a) \in Nat /\ Len(b) \in Nat
           /\ \A q \in 1..Len(a) : (a \o b)[q] = a[q]
           /\ \A q \in (Len(a) + 1)..(Len(a) + Len(b)) : (a \o b)[q] = b[q - Len(a)]
OBVIOUS

LEMMA RestFacts ==
    ASSUME NEW S, NEW a \in Seq(S), NEW i \in 0..Len(a)
    PROVE  /\ SubSeq(a, i + 1, Len(a)) \in Seq(S)
           /\ Len(SubSeq(a, i + 1, Len(a))) = Len(a) - i
           /\ \A q \in 1..(Len(a) - i) : SubSeq(a, i + 1, Len(a))[q] = a[i + q]
<1>1. Len(a) \in Nat /\ i \in Nat /\ i <= Len(a)
    OBVIOUS
<1>2. \A k \in (i + 1)..Len(a) : a[k] \in S
    BY <1>1
<1>3. SubSeq(a, i + 1, Len(a)) \in Seq(S)
    BY <1>1, <1>2
<1>4. Len(SubSeq(a, i + 1, Len(a))) = Len(a) - i
    BY <1>1
<1>5. ASSUME NEW q \in 1..(Len(a) - i) PROVE SubSeq(a, i + 1, Len(a))[q] = a[i + q]
    BY <1>1
<1> QED
    BY <1>3, <1>4, <1>5

LEMMA TailFacts ==
    ASSUME NEW S, NEW a \in Seq(S), a # <<>>
    PROVE  /\ Tail(a) \in Seq(S) /\ Len(Tail(a)) = Len(a) - 1 /\ Len(a) \in Nat \ {0}
           /\ Head(a) = a[1] /\ Head(a) \in S
           /\ \A q \in 1..(Len(a) - 1) : Tail(a)[q] = a[q + 1]
OBVIOUS

(* What is unread: of each file, what is beyond the offset.                 *)
Behind(m) == Len(files[m]) - tail.offs[m]

LEMMA UnreadFacts ==
    ASSUME LogTypes, PlaceInv
    PROVE  /\ Unread \in Seq(Events) /\ Len(Unread) = Behind(1) + Behind(2)
           /\ Behind(1) \in Nat /\ Behind(2) \in Nat
           /\ \A q \in 1..Behind(1) : Unread[q] = files[1][tail.offs[1] + q]
           /\ \A q \in (Behind(1) + 1)..(Behind(1) + Behind(2)) :
                 Unread[q] = files[2][tail.offs[2] + (q - Behind(1))]
<1>1. ASSUME NEW m \in Months
      PROVE  /\ files[m] \in Seq(Events) /\ tail.offs[m] \in 0..Len(files[m])
             /\ Len(files[m]) \in Nat /\ Behind(m) \in Nat
    <2>1. files[m] \in Seq(Events)
        BY DEF LogTypes
    <2>2. Len(files[m]) \in Nat
        BY <2>1
    <2>3. tail.offs[m] \in Nat /\ tail.offs[m] <= Len(files[m])
        BY DEF PlaceInv
    <2> QED
        BY <2>1, <2>2, <2>3 DEF Behind
<1>2. ASSUME NEW m \in Months
      PROVE  /\ NewIn(m) \in Seq(Events) /\ Len(NewIn(m)) = Behind(m)
             /\ \A q \in 1..Behind(m) : NewIn(m)[q] = files[m][tail.offs[m] + q]
    BY <1>1, RestFacts, Zenon DEF NewIn, Behind
<1>3. 1 \in Months /\ 2 \in Months
    BY DEF Months
<1>4. Behind(1) \in Nat /\ Behind(2) \in Nat
    BY <1>1, <1>3
<1>5. /\ NewIn(1) \in Seq(Events) /\ NewIn(2) \in Seq(Events)
      /\ Len(NewIn(1)) = Behind(1) /\ Len(NewIn(2)) = Behind(2)
      /\ \A q \in 1..Behind(1) : NewIn(1)[q] = files[1][tail.offs[1] + q]
      /\ \A q \in 1..Behind(2) : NewIn(2)[q] = files[2][tail.offs[2] + q]
    BY <1>2, <1>3, Zenon
<1>6. /\ Unread \in Seq(Events) /\ Len(Unread) = Behind(1) + Behind(2)
      /\ \A q \in 1..Behind(1) : Unread[q] = NewIn(1)[q]
      /\ \A q \in (Behind(1) + 1)..(Behind(1) + Behind(2)) : Unread[q] = NewIn(2)[q - Behind(1)]
    <2>1. PICK a, b : a = NewIn(1) /\ b = NewIn(2)
        OBVIOUS
    <2>2. a \in Seq(Events) /\ b \in Seq(Events) /\ Len(a) = Behind(1) /\ Len(b) = Behind(2)
        BY <1>5, <2>1
    <2>3. Unread = a \o b
        BY <2>1 DEF Unread
    <2>4. /\ a \o b \in Seq(Events) /\ Len(a \o b) = Len(a) + Len(b)
          /\ \A q \in 1..Len(a) : (a \o b)[q] = a[q]
          /\ \A q \in (Len(a) + 1)..(Len(a) + Len(b)) : (a \o b)[q] = b[q - Len(a)]
        BY <2>2, ConcatFacts
    <2> QED
        BY <2>1, <2>2, <2>3, <2>4, Zenon
<1>7. ASSUME NEW q \in (Behind(1) + 1)..(Behind(1) + Behind(2))
      PROVE  Unread[q] = files[2][tail.offs[2] + (q - Behind(1))]
    <2>1. q - Behind(1) \in 1..Behind(2)
        BY <1>4 DEF Behind
    <2> QED
        BY <1>5, <1>6, <2>1, Zenon
<1> QED
    BY <1>4, <1>5, <1>6, <1>7, Zenon

(* An unread slot and its place among what is unread.                       *)
Place(s) == IF s[1] = 1 THEN s[2] - tail.offs[1] ELSE Behind(1) + (s[2] - tail.offs[2])

LEMMA UnreadToSlot ==
    ASSUME LogTypes, PlaceInv, NEW q \in DOMAIN Unread
    PROVE  \E s \in Slots : tail.offs[s[1]] < s[2] /\ Unread[q] = At(s) /\ Place(s) = q
<1>1. /\ Behind(1) \in Nat /\ Behind(2) \in Nat /\ q \in 1..(Behind(1) + Behind(2))
      /\ \A k \in 1..Behind(1) : Unread[k] = files[1][tail.offs[1] + k]
      /\ \A k \in (Behind(1) + 1)..(Behind(1) + Behind(2)) :
            Unread[k] = files[2][tail.offs[2] + (k - Behind(1))]
    BY UnreadFacts
<1>2. 1 \in Months /\ 2 \in Months
    BY DEF Months
<1>3. ASSUME NEW m \in Months PROVE tail.offs[m] \in Nat /\ Len(files[m]) \in Nat
    BY DEF PlaceInv, LogTypes
<1>4. CASE q <= Behind(1)
    <2>1. tail.offs[1] \in Nat /\ Len(files[1]) \in Nat /\ q \in Int /\ 1 <= q
        BY <1>1, <1>2, <1>3
    <2>2. /\ tail.offs[1] + q \in 1..Len(files[1]) /\ tail.offs[1] < tail.offs[1] + q
          /\ (tail.offs[1] + q) - tail.offs[1] = q
        BY <1>4, <2>1 DEF Behind
    <2>3. <<1, tail.offs[1] + q>> \in Slots /\ At(<<1, tail.offs[1] + q>>) = files[1][tail.offs[1] + q]
        BY <1>2, <2>2, SlotIntro
    <2>4. Unread[q] = files[1][tail.offs[1] + q]
        BY <1>1, <1>4
    <2>5. Place(<<1, tail.offs[1] + q>>) = q
        BY <2>2 DEF Place
    <2>6. PICK s : s = <<1, tail.offs[1] + q>>
        OBVIOUS
    <2>7. s \in Slots /\ tail.offs[s[1]] < s[2] /\ Unread[q] = At(s) /\ Place(s) = q
        BY <2>2, <2>3, <2>4, <2>5, <2>6
    <2> QED
        BY <2>7
<1>5. CASE q > Behind(1)
    <2> DEFINE k == tail.offs[2] + (q - Behind(1))
    <2>1. tail.offs[2] \in Nat /\ Len(files[2]) \in Nat /\ q \in Int /\ q <= Behind(1) + Behind(2)
        BY <1>1, <1>2, <1>3
    <2>2. k \in 1..Len(files[2]) /\ tail.offs[2] < k /\ Behind(1) + (k - tail.offs[2]) = q
        <3>1. Behind(2) = Len(files[2]) - tail.offs[2] /\ Behind(1) \in Nat
            BY <1>1 DEF Behind
        <3> HIDE DEF Behind
        <3> QED
            BY <1>5, <2>1, <3>1
    <2>3. <<2, k>> \in Slots /\ At(<<2, k>>) = files[2][k]
        BY <1>2, <2>2, SlotIntro
    <2>4. Unread[q] = files[2][k]
        BY <1>1, <1>5
    <2>5. Place(<<2, k>>) = q
        BY <2>2 DEF Place
    <2> HIDE DEF k
    <2>6. PICK s : s = <<2, k>>
        OBVIOUS
    <2>7. s \in Slots /\ tail.offs[s[1]] < s[2] /\ Unread[q] = At(s) /\ Place(s) = q
        BY <2>2, <2>3, <2>4, <2>5, <2>6
    <2> QED
        BY <2>7
<1> QED
    BY <1>1, <1>4, <1>5

LEMMA SlotToUnread ==
    ASSUME LogTypes, PlaceInv, NEW s \in Slots, tail.offs[s[1]] < s[2]
    PROVE  Place(s) \in DOMAIN Unread /\ Unread[Place(s)] = At(s)
<1>1. /\ Behind(1) \in Nat /\ Behind(2) \in Nat /\ DOMAIN Unread = 1..(Behind(1) + Behind(2))
      /\ \A k \in 1..Behind(1) : Unread[k] = files[1][tail.offs[1] + k]
      /\ \A k \in (Behind(1) + 1)..(Behind(1) + Behind(2)) :
            Unread[k] = files[2][tail.offs[2] + (k - Behind(1))]
    BY UnreadFacts
<1>2. s[1] \in Months /\ s[2] \in 1..Len(files[s[1]]) /\ s[1] \in {1, 2}
    BY SlotFacts DEF Months
<1>3. tail.offs[s[1]] \in Nat /\ Len(files[s[1]]) \in Nat
    BY <1>2 DEF PlaceInv, LogTypes
<1>4. CASE s[1] = 1
    <2>1. Place(s) = s[2] - tail.offs[1]
        BY <1>4 DEF Place
    <2>2. Place(s) \in 1..Behind(1) /\ tail.offs[1] + Place(s) = s[2]
        BY <1>2, <1>3, <1>4, <2>1 DEF Behind
    <2>3. Unread[Place(s)] = files[1][s[2]]
        BY <1>1, <2>2
    <2> HIDE DEF Place
    <2> QED
        BY <1>1, <1>4, <2>2, <2>3 DEF At
<1>5. CASE s[1] = 2
    <2>1. Place(s) = Behind(1) + (s[2] - tail.offs[2])
        BY <1>5 DEF Place
    <2>2. Behind(2) = Len(files[2]) - tail.offs[2]
        BY DEF Behind
    <2> HIDE DEF Behind
    <2>3. /\ Place(s) \in (Behind(1) + 1)..(Behind(1) + Behind(2))
          /\ tail.offs[2] + (Place(s) - Behind(1)) = s[2]
        BY <1>1, <1>2, <1>3, <1>5, <2>1, <2>2
    <2>4. Unread[Place(s)] = files[2][s[2]]
        BY <1>1, <2>3
    <2>5. Place(s) \in 1..(Behind(1) + Behind(2))
        BY <1>1, <2>3
    <2> QED
        BY <1>1, <1>5, <2>4, <2>5 DEF At
<1> QED
    BY <1>2, <1>4, <1>5

(* What a replayed line prints.                                             *)
NextLine == <<Oldest(tail.todo), tail.pos + 1>>

LEMMA LinePrints ==
    ASSUME LogTypes, PlaceInv, ReplayLine
    PROVE  /\ NextLine \in Slots /\ NextLine[1] = Oldest(tail.todo) /\ NextLine[2] = tail.pos + 1
           /\ Prints(IF At(NextLine).ts >= tail.since THEN <<At(NextLine)>> ELSE <<>>)
<1>1. /\ tail.pc = "replay" /\ tail.pos < Len(files[Oldest(tail.todo)])
      /\ Prints(IF files[Oldest(tail.todo)][tail.pos + 1].ts >= tail.since
                THEN <<files[Oldest(tail.todo)][tail.pos + 1]>> ELSE <<>>)
    BY DEF ReplayLine
<1>2. Oldest(tail.todo) \in Months /\ tail.pos \in Nat
    BY <1>1, OldestFacts DEF PlaceInv
<1>3. Len(files[Oldest(tail.todo)]) \in Nat
    BY <1>2 DEF LogTypes
<1>4. tail.pos + 1 \in 1..Len(files[Oldest(tail.todo)])
    BY <1>1, <1>2, <1>3
<1> HIDE DEF Oldest
<1>5. NextLine \in Slots /\ At(NextLine) = files[Oldest(tail.todo)][tail.pos + 1]
    BY <1>2, <1>4, SlotIntro DEF NextLine
<1> QED
    BY <1>1, <1>5 DEF NextLine

(* A step prints events of the log.                                         *)
StreamTypes == wire \in Seq(Events) /\ printed \in Seq(Events)

LEMMA PrintFacts ==
    ASSUME LogTypes, PlaceInv, ReplayLine \/ Follow
    PROVE  \E evs \in Seq(Events) :
              Prints(evs) /\ \A q \in DOMAIN evs : \E s \in Slots : evs[q] = At(s)
<1>1. CASE ReplayLine
    <2>1. PICK e : e = At(NextLine)
        OBVIOUS
    <2>2. NextLine \in Slots /\ Prints(IF e.ts >= tail.since THEN <<e>> ELSE <<>>) /\ e \in Events
        BY <1>1, <2>1, LinePrints, SlotFacts
    <2> HIDE DEF Slots, At, NextLine, Events, Prints
    <2>3. CASE e.ts >= tail.since
        <3>1. <<e>> \in Seq(Events) /\ \A q \in DOMAIN <<e>> : <<e>>[q] = e
            BY <2>2
        <3>2. Prints(<<e>>) /\ \A q \in DOMAIN <<e>> : \E s \in Slots : <<e>>[q] = At(s)
            BY <2>1, <2>2, <2>3, <3>1
        <3> QED
            BY <3>1, <3>2
    <2>4. CASE ~(e.ts >= tail.since)
        <3>1. <<>> \in Seq(Events) /\ DOMAIN <<>> = {}
            OBVIOUS
        <3>2. Prints(<<>>)
            BY <2>2, <2>4
        <3> QED
            BY <3>1, <3>2
    <2> QED
        BY <2>3, <2>4
<1>2. CASE Follow
    <2>1. Prints(Unread) /\ Unread \in Seq(Events)
        BY <1>2, UnreadFacts DEF Follow
    <2>2. \A q \in DOMAIN Unread : \E s \in Slots : Unread[q] = At(s)
        BY UnreadToSlot
    <2> HIDE DEF Slots, At, Unread, Prints, Events
    <2> QED
        BY <2>1, <2>2
<1> QED
    BY <1>1, <1>2

(* What leaves the wire and the tail's output alone.                        *)
LEMMA WireFrame ==
    ASSUME [Next]_vars, ~ReplayLine, ~Follow, ~RelayLine, ~SshEnds, ~Interrupted
    PROVE  UNCHANGED <<wire, printed>>
<1>1. ASSUME NEW w \in Writers, Emits(w) PROVE UNCHANGED <<wire, printed>>
    BY <1>1, Zenon DEF Emits, Stamp, Write, RingScan, RingOne, RingUnlink, tvars
<1>2. CASE Tails
    BY <1>2, Zenon
    DEF Tails, MkFifo, OpenFifo, Seed, ReplayCurrent, ReplayList, ReplayEnd, Woken, WaitTimesOut
<1>3. CASE Spawn \/ BackoffEnds \/ LinkFails \/ LinkHeals \/ Tick \/ UNCHANGED vars
    BY <1>3, Zenon DEF Spawn, BackoffEnds, LinkFails, LinkHeals, Tick, tvars, vars
<1> QED
    BY <1>1, <1>2, <1>3, Zenon DEF Next, Relays

LEMMA StreamStep == LogTypes /\ PlaceInv /\ StreamTypes /\ [Next]_vars => StreamTypes'
<1> SUFFICES ASSUME LogTypes, PlaceInv, StreamTypes, [Next]_vars PROVE StreamTypes'
    OBVIOUS
<1>1. CASE UNCHANGED <<wire, printed>>
    BY <1>1 DEF StreamTypes
<1>2. CASE ReplayLine \/ Follow
    <2>1. PICK evs \in Seq(Events) : Prints(evs)
        BY <1>2, PrintFacts
    <2>2. wire \o evs \in Seq(Events) /\ printed \o evs \in Seq(Events)
        BY ConcatFacts DEF StreamTypes
    <2> QED
        BY <2>1, <2>2 DEF Prints, StreamTypes
<1>3. CASE RelayLine
    <2>1. wire # <<>> /\ wire' = Tail(wire) /\ UNCHANGED printed
        BY <1>3 DEF RelayLine, tvars
    <2> QED
        BY <2>1, TailFacts DEF StreamTypes
<1>4. CASE SshEnds \/ Interrupted
    <2>1. wire' = <<>> /\ printed' = <<>>
        BY <1>4 DEF SshEnds, Interrupted, TailEnds
    <2> QED
        BY <2>1 DEF StreamTypes
<1> QED
    BY <1>1, <1>2, <1>3, <1>4, WireFrame

(* What the relay's steps do to its resume point.                           *)
LEMMA RelayKeeps ==
    ASSUME RelayTypes, Spawn \/ SshEnds \/ BackoffEnds \/ Interrupted
    PROVE  relay'.last = relay.last /\ UNCHANGED <<heard, files, out, owed>>
<1>1. CASE Spawn \/ BackoffEnds \/ Interrupted
    <2>1. PICK to : relay' = [relay EXCEPT !.pc = to]
        BY <1>1, Zenon DEF Spawn, BackoffEnds, Interrupted
    <2>2. relay'.last = relay.last
        BY <2>1 DEF RelayTypes
    <2> QED
        BY <1>1, <2>2 DEF Spawn, BackoffEnds, Interrupted, evars
<1>2. CASE SshEnds
    <2>1. PICK blip, to, wake :
             relay' = [relay EXCEPT !.blip = blip, !.attempt = @ + 1, !.pc = to, !.wake = wake]
        BY <1>2 DEF SshEnds
    <2>2. relay'.last = relay.last
        BY <2>1 DEF RelayTypes
    <2> QED
        BY <1>2, <2>2 DEF SshEnds, evars
<1> QED
    BY <1>1, <1>2

LEMMA RelayLineEffect ==
    ASSUME RelayTypes, RelayLine
    PROVE  /\ relay.pc = "up" /\ relay'.pc = "up" /\ wire # <<>> /\ wire' = Tail(wire) /\ heard' = now
           /\ relay'.last = IF Head(wire).ts > relay.last THEN Head(wire).ts ELSE relay.last
           /\ out' = out \cup {Head(wire).id}
           /\ UNCHANGED <<files, stamped, writer, tail, link, printed, owed>>
<1>1. /\ relay.pc = "up" /\ wire # <<>> /\ wire' = Tail(wire) /\ heard' = now
      /\ out' = out \cup {Head(wire).id} /\ UNCHANGED <<files, stamped, writer, tail, link, printed, owed>>
    BY DEF RelayLine, evars, tvars
<1>2. PICK last : /\ last = IF Head(wire).ts > relay.last THEN Head(wire).ts ELSE relay.last
                  /\ relay' = [relay EXCEPT !.last = last, !.blip = Never, !.attempt = 0]
    BY DEF RelayLine
<1>3. relay'.pc = relay.pc /\ relay'.last = last
    BY <1>2 DEF RelayTypes
<1> QED
    BY <1>1, <1>2, <1>3

(* The steps that leave the tail, the wire and the relay alone.             *)
LEMMA Bystanders ==
    (\E w \in Writers : Emits(w)) \/ LinkFails \/ LinkHeals \/ Tick \/ UNCHANGED vars
        => UNCHANGED <<tail, wire, relay, heard, printed, out>>
BY Zenon DEF Emits, Stamp, Write, RingScan, RingOne, RingUnlink, LinkFails, LinkHeals, Tick,
    tvars, rvars, vars

LEMMA TailsKeep == Tails => UNCHANGED <<relay, heard, files, out, owed, link, conn>>
BY Zenon
DEF Tails, MkFifo, OpenFifo, Seed, ReplayCurrent, ReplayList, ReplayLine, ReplayEnd, Follow, Woken,
    WaitTimesOut, TailOnly, evars, rvars

LEMMA ResumeStep ==
    /\ ClockTypes /\ LogTypes /\ WriterTypes /\ TailTypes /\ RelayTypes /\ StreamTypes
    /\ LogInv /\ PlaceInv /\ ResumeInv /\ [Next]_vars
    => ResumeInv'
<1> SUFFICES ASSUME ClockTypes, LogTypes, WriterTypes, TailTypes, RelayTypes, StreamTypes,
                    LogInv, PlaceInv, ResumeInv, [Next]_vars
             PROVE  ResumeInv'
    OBVIOUS
<1>a. \A s \in Slots : s \in Slots' /\ At(s)' = At(s)
    BY SlotsKept
<1>b. Shape(tail)
    BY DEF TailTypes
<1> HIDE DEF Slots, At
<1>c. \A q \in DOMAIN wire : \E s \in Slots' : wire[q] = At(s)'
    BY <1>a DEF ResumeInv
<1>1. CASE UNCHANGED <<tail, wire, relay, heard>>
    <2>1. \A q \in DOMAIN wire' : \E s \in Slots' : wire'[q] = At(s)'
        BY <1>1, <1>c
    <2> QED
        BY <1>1, <1>a, <2>1 DEF ResumeInv
<1>2. ASSUME UNCHANGED <<wire, relay, heard>>, tail'.since = tail.since,
             tail.pc # "off", tail'.pc # "off",
             tail'.pc \in Starting => tail.pc \in Starting,
             tail'.pc \in {"mkfifo", "open", "seed"} => tail.pc \in {"mkfifo", "open", "seed"},
             tail'.pc \in {"current", "list", "replay"} => tail.since # Never
      PROVE  ResumeInv'
    <2>1. \A q \in DOMAIN wire' : \E s \in Slots' : wire'[q] = At(s)'
        BY <1>2, <1>c
    <2>2. relay'.pc = "up"
        BY <1>2 DEF ResumeInv
    <2> QED
        BY <1>2, <1>a, <2>1, <2>2 DEF ResumeInv
<1>3. CASE MkFifo \/ OpenFifo \/ Seed \/ ReplayCurrent \/ ReplayList \/ ReplayEnd \/ Woken \/ WaitTimesOut
    <2>1. UNCHANGED <<relay, heard>>
        BY <1>3, TailsKeep DEF Tails
    <2>2. UNCHANGED wire
        BY <1>3, Zenon
        DEF MkFifo, OpenFifo, Seed, ReplayCurrent, ReplayList, ReplayEnd, Woken, WaitTimesOut
    <2>3. CASE MkFifo \/ OpenFifo
        BY <1>2, <1>b, <2>1, <2>2, <2>3, OpenEffect DEF Starting
    <2>4. CASE Seed
        BY <1>2, <1>b, <2>1, <2>2, <2>4, SeedEffect DEF Starting
    <2>5. CASE ReplayCurrent \/ ReplayList
        <3>1. /\ tail'.since = tail.since /\ tail.pc \in {"current", "list"}
              /\ tail'.pc \in {"list", "replay"}
            BY <1>b, <2>5, CurrentEffect, ListEffect
        <3>2. tail.since # Never
            BY <3>1 DEF ResumeInv
        <3> QED
            BY <1>2, <2>1, <2>2, <3>1, <3>2 DEF Starting
    <2>6. CASE ReplayEnd
        <3>1. /\ tail'.since = tail.since /\ tail.pc = "replay" /\ tail'.pc \in {"follow", "replay"}
            BY <1>b, <2>6, ReplayEndEffect DEF PlaceInv
        <3>2. tail.since # Never
            BY <3>1 DEF ResumeInv
        <3> QED
            BY <1>2, <2>1, <2>2, <3>1, <3>2 DEF Starting
    <2>7. CASE Woken \/ WaitTimesOut
        BY <1>2, <1>b, <2>1, <2>2, <2>7, WakeEffect DEF Starting
    <2> QED
        BY <1>3, <2>3, <2>4, <2>5, <2>6, <2>7
<1>4. CASE ReplayLine \/ Follow
    <2>1. UNCHANGED <<relay, heard>>
        BY <1>4, TailsKeep DEF Tails
    <2>2. /\ tail'.since = tail.since /\ tail.pc \in {"replay", "follow"}
          /\ tail'.pc \in {"replay", "follow", "wait"} /\ (tail'.pc = "replay" => tail.pc = "replay")
        BY <1>4, <1>b, LineEffect, FollowEffect
    <2>3. PICK evs \in Seq(Events) :
             Prints(evs) /\ \A q \in DOMAIN evs : \E s \in Slots : evs[q] = At(s)
        BY <1>4, PrintFacts
    <2>4. \A q \in DOMAIN wire' : \E s \in Slots' : wire'[q] = At(s)'
        <3>1. wire' = wire \/ wire' = wire \o evs
            BY <2>3 DEF Prints
        <3>2. CASE wire' = wire
            BY <1>c, <3>2
        <3>3. CASE wire' = wire \o evs
            <4>1. wire \in Seq(Events) /\ Len(wire) \in Nat /\ Len(evs) \in Nat
                BY DEF StreamTypes
            <4>2. /\ Len(wire') = Len(wire) + Len(evs) /\ DOMAIN wire' = 1..(Len(wire) + Len(evs))
                  /\ \A q \in 1..Len(wire) : wire'[q] = wire[q]
                  /\ \A q \in (Len(wire) + 1)..(Len(wire) + Len(evs)) : wire'[q] = evs[q - Len(wire)]
                BY <3>3, <4>1, ConcatFacts
            <4>3. ASSUME NEW q \in DOMAIN wire' PROVE \E s \in Slots' : wire'[q] = At(s)'
                <5>1. CASE q <= Len(wire)
                    <6>1. q \in DOMAIN wire /\ wire'[q] = wire[q]
                        BY <4>1, <4>2, <5>1
                    <6> QED
                        BY <1>c, <6>1
                <5>2. CASE q > Len(wire)
                    <6>1. q - Len(wire) \in 1..Len(evs)
                        BY <4>1, <4>2, <5>2
                    <6>2. q - Len(wire) \in DOMAIN evs
                        BY <6>1
                    <6>3. wire'[q] = evs[q - Len(wire)]
                        BY <4>1, <4>2, <5>2
                    <6> QED
                        BY <1>a, <2>3, <6>2, <6>3
                <5> QED
                    BY <4>1, <4>2, <5>1, <5>2
            <4> QED
                BY <4>3
        <3> QED
            BY <3>1, <3>2, <3>3
    <2>5. relay.pc = "up" /\ (tail'.pc = "replay" => tail.since # Never)
        BY <2>2 DEF ResumeInv
    <2> QED
        BY <1>a, <2>1, <2>2, <2>4, <2>5 DEF ResumeInv, Starting
<1>5. CASE Spawn
    <2>1. relay'.last = relay.last /\ UNCHANGED <<heard, wire>> /\ relay.pc = "spawn"
        BY <1>5, RelayKeeps DEF Spawn
    <2>2. relay'.pc = "up"
        BY <1>5 DEF Spawn, RelayTypes
    <2>3. tail.pc = "off" /\ wire = <<>>
        BY <2>1 DEF ResumeInv
    <2>4. UNCHANGED tail \/ (tail'.since = relay.last /\ tail'.pc = "mkfifo")
        BY <1>5 DEF Spawn, NoTail
    <2>5. DOMAIN wire' = {} /\ wire' = <<>>
        BY <2>1, <2>3
    <2>6. relay'.last # Never => \E s \in Slots' : At(s)'.ts = relay'.last
        BY <1>a, <2>1 DEF ResumeInv
    <2>7. CASE UNCHANGED tail
        BY <1>a, <2>1, <2>2, <2>3, <2>5, <2>6, <2>7 DEF ResumeInv
    <2>8. CASE tail'.since = relay.last /\ tail'.pc = "mkfifo"
        <3>1. tail'.since = relay'.last /\ tail'.since <= relay'.last
            BY <2>1, <2>8 DEF ResumeInv, Never
        <3>2. heard' = Never <=> relay'.last = Never
            BY <2>1 DEF ResumeInv
        <3>3. relay'.last \in Nat \cup {Never}
            BY <2>1 DEF ResumeInv
        <3> QED
            BY <2>2, <2>5, <2>6, <2>8, <3>1, <3>2, <3>3 DEF ResumeInv
    <2> QED
        BY <2>4, <2>7, <2>8
<1>6. CASE SshEnds \/ Interrupted
    <2>1. relay'.last = relay.last /\ UNCHANGED heard /\ wire' = <<>> /\ tail' = NoTail
        BY <1>6, RelayKeeps DEF SshEnds, Interrupted, TailEnds
    <2>2. tail'.pc = "off" /\ tail'.since = Never
        BY <2>1 DEF NoTail
    <2>3. DOMAIN wire' = {}
        BY <2>1
    <2>4. Never <= relay.last
        BY DEF ResumeInv, Never
    <2> QED
        BY <1>a, <2>1, <2>2, <2>3, <2>4 DEF ResumeInv, Starting
<1>7. CASE BackoffEnds
    <2>1. relay'.last = relay.last /\ UNCHANGED <<heard, wire, tail>> /\ relay.pc = "sleep"
        BY <1>7, RelayKeeps DEF BackoffEnds, tvars
    <2> QED
        BY <1>a, <1>c, <2>1 DEF ResumeInv
<1>8. CASE RelayLine
    <2> DEFINE ev == Head(wire)
    <2>1. /\ relay.pc = "up" /\ relay'.pc = "up" /\ wire # <<>> /\ wire' = Tail(wire) /\ heard' = now
          /\ relay'.last = IF ev.ts > relay.last THEN ev.ts ELSE relay.last
          /\ UNCHANGED tail
        BY <1>8, RelayLineEffect
    <2>2. /\ Len(Tail(wire)) = Len(wire) - 1 /\ Len(wire) \in Nat \ {0} /\ ev = wire[1]
          /\ \A q \in 1..(Len(wire) - 1) : Tail(wire)[q] = wire[q + 1]
          /\ Tail(wire) \in Seq(Events)
        BY <2>1, TailFacts DEF StreamTypes
    <2>3. \A q \in DOMAIN wire' : \E s \in Slots' : wire'[q] = At(s)'
        <3>1. ASSUME NEW q \in DOMAIN wire' PROVE wire'[q] = wire[q + 1] /\ q + 1 \in DOMAIN wire
            <4>1. q \in 1..(Len(wire) - 1)
                BY <2>1, <2>2
            <4>2. q + 1 \in 1..Len(wire)
                BY <2>2, <4>1
            <4> QED
                BY <2>1, <2>2, <4>1, <4>2 DEF StreamTypes
        <3> QED
            BY <1>c, <3>1
    <2>4. 1 \in DOMAIN wire
        BY <2>2 DEF StreamTypes
    <2>5. PICK s \in Slots : wire[1] = At(s)
        BY <2>4 DEF ResumeInv
    <2>6. ev.ts \in Nat /\ ev.ts = At(s).ts
        BY <2>2, <2>5 DEF LogInv
    <2>7. tail.pc \notin {"off"} \cup Starting
        BY <2>1 DEF ResumeInv
    <2> HIDE DEF ev
    <2>8. /\ relay'.last \in Nat /\ relay.last <= relay'.last /\ heard' # Never
          /\ relay'.last = relay.last \/ relay'.last = At(s).ts
        BY <2>1, <2>6 DEF ResumeInv, ClockTypes, Never
    <2>9. relay'.last # Never => \E r \in Slots' : At(r)'.ts = relay'.last
        <3>1. CASE relay'.last = At(s).ts
            BY <1>a, <3>1
        <3>2. CASE relay'.last = relay.last
            BY <1>a, <3>2 DEF ResumeInv
        <3> QED
            BY <2>8, <3>1, <3>2
    <2>10. tail'.since <= relay'.last /\ tail'.since \in Nat \cup {Never}
        BY <2>1, <2>8 DEF ResumeInv, Never
    <2>11. tail'.since # Never => \E r \in Slots' : At(r)'.ts = tail'.since
        BY <1>a, <2>1 DEF ResumeInv
    <2>12. relay'.last # Never
        BY <2>8 DEF Never
    <2>13. /\ tail'.pc \notin {"off"} \cup Starting
           /\ tail'.pc \in {"current", "list", "replay"} => tail'.since # Never
        BY <2>1, <2>7 DEF ResumeInv
    <2> QED
        BY <2>1, <2>3, <2>8, <2>9, <2>10, <2>11, <2>12, <2>13 DEF ResumeInv, Starting
<1> QED
    BY <1>1, <1>3, <1>4, <1>5, <1>6, <1>7, <1>8, Bystanders DEF Next, Tails, Relays

-----------------------------------------------------------------------------
(* The argument for NoneLostInOrder.                                        *)
TailPcs == tail.pc \in {"off", "replay", "follow", "wait"} \cup Starting

LEMMA TailPcsStep == TailTypes /\ PlaceInv /\ TailPcs /\ [Next]_vars => TailPcs'
<1> SUFFICES ASSUME TailTypes, PlaceInv, TailPcs, [Next]_vars PROVE TailPcs'
    OBVIOUS
<1>a. Shape(tail) /\ tail.offs \in [Months -> Nat]
    BY DEF TailTypes, PlaceInv
<1>1. CASE UNCHANGED tail
    BY <1>1 DEF TailPcs
<1>2. CASE Tails
    <2>1. tail'.pc \in {"mkfifo", "open", "seed", "current", "list", "replay", "follow", "wait"}
        <3>1. CASE ReplayEnd
            BY <1>a, <3>1, ReplayEndEffect
        <3>2. CASE Seed \/ ReplayCurrent \/ ReplayList \/ ReplayLine
            BY <1>a, <3>2, SeedEffect, CurrentEffect, ListEffect, LineEffect
        <3>3. CASE MkFifo \/ OpenFifo \/ Follow \/ Woken \/ WaitTimesOut
            BY <1>a, <3>3, OpenEffect, FollowEffect, WakeEffect
        <3> QED
            BY <1>2, <3>1, <3>2, <3>3 DEF Tails
    <2> QED
        BY <2>1 DEF TailPcs, Starting
<1>3. CASE Spawn
    <2>1. UNCHANGED tail \/ tail'.pc = "mkfifo"
        BY <1>3 DEF Spawn, NoTail
    <2> QED
        BY <1>1, <2>1 DEF TailPcs, Starting
<1>4. CASE SshEnds \/ Interrupted
    <2>1. tail'.pc = "off"
        BY <1>4 DEF SshEnds, Interrupted, TailEnds, NoTail
    <2> QED
        BY <2>1 DEF TailPcs
<1>5. RelayLine \/ BackoffEnds => UNCHANGED tail
    BY Zenon DEF RelayLine, BackoffEnds, tvars
<1> QED
    BY <1>1, <1>2, <1>3, <1>4, <1>5, Bystanders DEF Next, Relays

(* Whoever is owed stays in turn and on its way while the log is as it is.  *)
LEMMA OwedFrame ==
    ASSUME UNCHANGED <<files, owed>>, OwedInv, out \subseteq out', heard # Never => heard' # Never,
           \A s \in Slots : At(s).id \in owed /\ At(s).id \notin out' /\ heard # Never /\ InTurn(s)
                            /\ (link = "up" /\ tail.pc # "off" => OnItsWay(s))
               => InTurn(s)' /\ (link' = "up" /\ tail'.pc # "off" => OnItsWay(s)')
    PROVE  OwedInv'
<1>1. Slots' = Slots /\ \A s : At(s)' = At(s)
    BY FilesFrame
<1> HIDE DEF Slots, At, InTurn, OnItsWay
<1>2. \A id \in owed' : \E s \in Slots' : At(s)'.id = id
    BY <1>1 DEF OwedInv
<1>3. ASSUME NEW s \in Slots', At(s)'.id \in owed'
      PROVE  /\ heard' # Never
             /\ \A r \in Slots' : r[1] = s[1] /\ r[2] < s[2] => At(r)'.ts <= At(s)'.ts
             /\ At(s)'.id \notin out' =>
                   InTurn(s)' /\ (link' = "up" /\ tail'.pc # "off" => OnItsWay(s)')
    <2>1. s \in Slots /\ At(s).id \in owed /\ At(s)' = At(s)
        BY <1>1, <1>3
    <2>2. /\ heard # Never
          /\ \A r \in Slots : r[1] = s[1] /\ r[2] < s[2] => At(r).ts <= At(s).ts
          /\ At(s).id \notin out =>
                InTurn(s) /\ (link = "up" /\ tail.pc # "off" => OnItsWay(s))
        BY <2>1 DEF OwedInv
    <2>3. \A r \in Slots' : r[1] = s[1] /\ r[2] < s[2] => At(r)'.ts <= At(s)'.ts
        BY <1>1, <2>1, <2>2
    <2> QED
        BY <2>1, <2>2, <2>3
<1> QED
    BY <1>2, <1>3 DEF OwedInv

(* In the order of the wire or of the files, an earlier month comes first.  *)
LEMMA Earlier ==
    ASSUME LogTypes, LogInv, NEW r \in Slots, NEW s \in Slots, r[1] < s[1]
    PROVE  At(r).ts < At(s).ts
<1>1. At(r).ts \in Nat /\ At(s).ts \in Nat /\ MonthOf(At(r).ts) = r[1] /\ MonthOf(At(s).ts) = s[1]
    BY DEF LogInv
<1>2. r[1] \in Months /\ s[1] \in Months
    BY SlotFacts
<1> QED
    BY <1>1, <1>2, StreamAssumption DEF MonthOf, Months

(* A tail that begins, ends a file, or wakes.                               *)
LEMMA OwedQuiet ==
    ASSUME LogTypes, TailTypes, LogInv, PlaceInv, ResumeInv, NEW s \in Slots, heard # Never,
           InTurn(s), Pending(s),
           \/ MkFifo \/ OpenFifo \/ Seed \/ ReplayCurrent
           \/ ReplayList \/ ReplayEnd \/ Woken \/ WaitTimesOut
    PROVE  Pending(s)'
<1>a. Shape(tail) /\ tail.offs \in [Months -> Nat]
    BY DEF TailTypes, PlaceInv
<1>b. s[1] \in Months /\ s[2] \in 1..Len(files[s[1]]) /\ Len(files[s[1]]) \in Nat
    BY SlotFacts DEF LogTypes
<1>1. CASE MkFifo \/ OpenFifo
    <2>1. tail'.pc \in Starting
        BY <1>1, <1>a, OpenEffect DEF Starting
    <2> QED
        BY <2>1 DEF Pending
<1>2. CASE Seed
    <2>1. tail.pc = "seed" /\ tail'.pc = IF tail.since = Never THEN "follow" ELSE "current"
        BY <1>2, <1>a, SeedEffect
    <2>2. tail'.pc \in Starting
        BY <2>1 DEF ResumeInv, Starting
    <2> QED
        BY <2>2 DEF Pending
<1>3. CASE ReplayCurrent
    <2>1. tail'.pc \in Starting
        BY <1>3, <1>a, CurrentEffect DEF Starting
    <2> QED
        BY <2>1 DEF Pending
<1>4. CASE ReplayList
    <2>1. /\ tail'.pc = "replay" /\ tail.pc = "list" /\ tail'.pos = tail.pos
          /\ tail'.todo = {m \in MonthOf(tail.since)..2 : files[m] # <<>>}
        BY <1>4, <1>a, ListEffect
    <2>2. tail.pos = 0
        BY <2>1 DEF PlaceInv
    <2>3. tail.since \in Nat /\ tail.since <= At(s).ts /\ At(s).ts \in Nat
        BY <2>1 DEF ResumeInv, InTurn, LogInv, Never
    <2>4. MonthOf(tail.since) \in 1..2 /\ MonthOf(tail.since) <= s[1]
        <3>1. MonthOf(At(s).ts) = s[1]
            BY DEF LogInv
        <3> QED
            BY <2>3, <3>1, StreamAssumption DEF MonthOf
    <2>5. files[s[1]] # <<>>
        <3>1. files[s[1]] \in Seq(Events)
            BY <1>b DEF LogTypes
        <3> QED
            BY <1>b, <3>1
    <2>6. s[1] \in tail'.todo
        BY <1>b, <2>1, <2>4, <2>5 DEF Months
    <2>7. tail'.pos < s[2]
        BY <1>b, <2>1, <2>2
    <2> QED
        BY <2>1, <2>6, <2>7 DEF Pending
<1>5. CASE ReplayEnd
    <2>a. PICK o : o = Oldest(tail.todo)
        OBVIOUS
    <2>1. /\ tail.pc = "replay" /\ tail.pos = Len(files[o])
          /\ tail'.pc = IF tail.todo = {o} THEN "follow" ELSE "replay"
          /\ tail'.todo = tail.todo \ {o} /\ tail'.pos = 0
          /\ tail'.offs = [tail.offs EXCEPT ![o] = IF o = tail.cur THEN tail.pos ELSE @]
        BY <1>5, <1>a, <2>a, ReplayEndEffect
    <2>2. o \in tail.todo /\ tail.todo \subseteq Months
        BY <2>1, <2>a, OldestFacts DEF PlaceInv
    <2>3. \/ s[1] \in tail.todo /\ (s[1] = o => tail.pos < s[2])
          \/ (\A m \in tail.todo : m < s[1]) /\ tail.offs[s[1]] < s[2]
        BY <2>1, <2>a DEF Pending, Starting
    <2>4. s[1] # o
        <3>1. CASE s[1] = o /\ tail.pos < s[2]
            BY <1>b, <2>1, <3>1
        <3>2. CASE \A m \in tail.todo : m < s[1]
            BY <1>b, <2>2, <3>2 DEF Months
        <3> QED
            BY <2>3, <3>1, <3>2
    <2>5. CASE s[1] \in tail.todo
        <3>1. tail'.pc = "replay" /\ s[1] \in tail'.todo /\ tail'.pos < s[2]
            BY <1>b, <2>1, <2>2, <2>4, <2>5
        <3> QED
            BY <3>1 DEF Pending
    <2>6. CASE (\A m \in tail.todo : m < s[1]) /\ tail.offs[s[1]] < s[2]
        <3>1. tail'.offs[s[1]] < s[2]
            BY <1>a, <1>b, <2>1, <2>4, <2>6
        <3>2. \A m \in tail'.todo : m < s[1]
            BY <2>1, <2>6
        <3>3. tail'.pc \in {"follow", "replay"}
            BY <2>1
        <3> QED
            BY <3>1, <3>2, <3>3 DEF Pending
    <2> QED
        BY <2>3, <2>5, <2>6
<1>6. CASE Woken \/ WaitTimesOut
    <2>1. tail.pc = "wait" /\ tail'.pc = "follow" /\ tail'.offs = tail.offs
        BY <1>6, <1>a, WakeEffect
    <2> QED
        BY <2>1 DEF Pending, Starting
<1> QED
    BY <1>1, <1>2, <1>3, <1>4, <1>5, <1>6

OnWire(s) == \E p \in DOMAIN wire : wire[p] = At(s)

(* What is printed behind what is on the wire.                              *)
LEMMA PrintedInTurn ==
    ASSUME StreamTypes, UNCHANGED <<files, relay>>, NEW evs \in Seq(Events), wire' = wire \o evs,
           NEW s \in Slots, InTurn(s),
           \A q \in DOMAIN evs : evs[q].ts > At(s).ts => OnWire(s) \/ \E p \in 1..q : evs[p] = At(s)
    PROVE  InTurn(s)'
<1> DEFINE n == Len(wire)
<1>1. At(s)' = At(s)
    BY FilesFrame
<1>2. wire \in Seq(Events) /\ n \in Nat /\ Len(evs) \in Nat /\ DOMAIN wire = 1..n /\ DOMAIN evs = 1..Len(evs)
    BY DEF StreamTypes
<1>3. /\ DOMAIN wire' = 1..(n + Len(evs))
      /\ \A q \in 1..n : wire'[q] = wire[q]
      /\ \A q \in (n + 1)..(n + Len(evs)) : wire'[q] = evs[q - n]
    BY <1>2, ConcatFacts
<1> HIDE DEF n, At
<1>4. ASSUME NEW q \in DOMAIN wire', wire'[q].ts > At(s).ts PROVE \E p \in 1..q : wire'[p] = At(s)
    <2>1. CASE q <= n
        <3>1. q \in 1..n /\ wire[q].ts > At(s).ts
            BY <1>2, <1>3, <1>4, <2>1
        <3>2. PICK p \in 1..q : wire[p] = At(s)
            BY <1>2, <3>1 DEF InTurn
        <3>3. p \in 1..n
            BY <1>2, <3>1
        <3> QED
            BY <1>3, <3>2, <3>3
    <2>2. CASE q > n
        <3>1. q - n \in 1..Len(evs) /\ wire'[q] = evs[q - n] /\ q \in Nat
            BY <1>2, <1>3, <2>2
        <3>2. OnWire(s) \/ \E p \in 1..(q - n) : evs[p] = At(s)
            BY <1>2, <1>4, <3>1
        <3>3. CASE OnWire(s)
            <4>1. PICK p \in 1..n : wire[p] = At(s)
                BY <1>2, <3>3 DEF OnWire
            <4>2. p \in 1..q
                BY <1>2, <2>2, <3>1
            <4> QED
                BY <1>3, <4>1, <4>2
        <3>4. ASSUME NEW p \in 1..(q - n), evs[p] = At(s) PROVE \E k \in 1..q : wire'[k] = At(s)
            <4>1. n + p \in (n + 1)..(n + Len(evs)) /\ n + p \in 1..q /\ (n + p) - n = p
                BY <1>2, <3>1
            <4>2. wire'[n + p] = evs[p]
                BY <1>3, <4>1
            <4> QED
                BY <3>4, <4>1, <4>2
        <3> QED
            BY <3>2, <3>3, <3>4
    <2> QED
        BY <1>2, <1>3, <2>1, <2>2
<1>5. relay'.last <= At(s).ts
    BY DEF InTurn
<1> QED
    BY <1>1, <1>4, <1>5 DEF InTurn

LEMMA PrintedOnWire ==
    ASSUME StreamTypes, UNCHANGED files, NEW evs \in Seq(Events), wire' = wire \o evs,
           NEW s \in Slots, OnWire(s) \/ \E p \in DOMAIN evs : evs[p] = At(s)
    PROVE  OnWire(s)'
<1> DEFINE n == Len(wire)
<1>1. At(s)' = At(s)
    BY FilesFrame
<1>2. wire \in Seq(Events) /\ n \in Nat /\ Len(evs) \in Nat /\ DOMAIN wire = 1..n /\ DOMAIN evs = 1..Len(evs)
    BY DEF StreamTypes
<1>3. /\ DOMAIN wire' = 1..(n + Len(evs))
      /\ \A q \in 1..n : wire'[q] = wire[q]
      /\ \A q \in (n + 1)..(n + Len(evs)) : wire'[q] = evs[q - n]
    BY <1>2, ConcatFacts
<1> HIDE DEF n, At
<1>4. CASE OnWire(s)
    <2>1. PICK p \in 1..n : wire[p] = At(s)
        BY <1>2, <1>4 DEF OnWire
    <2>2. p \in DOMAIN wire' /\ wire'[p] = At(s)'
        BY <1>1, <1>2, <1>3, <2>1
    <2> QED
        BY <2>2 DEF OnWire
<1>5. ASSUME NEW p \in DOMAIN evs, evs[p] = At(s) PROVE OnWire(s)'
    <2>1. n + p \in (n + 1)..(n + Len(evs)) /\ n + p \in 1..(n + Len(evs)) /\ (n + p) - n = p
        BY <1>2
    <2>2. n + p \in DOMAIN wire' /\ wire'[n + p] = At(s)'
        BY <1>1, <1>3, <1>5, <2>1
    <2> QED
        BY <2>2 DEF OnWire
<1> QED
    BY <1>4, <1>5

(* A line of the replay, over a link that is up.                            *)
LEMMA OwedLine ==
    ASSUME LogTypes, TailTypes, StreamTypes, LogInv, PlaceInv, ResumeInv, ReplayLine, link = "up",
           NEW s \in Slots, InTurn(s), OnWire(s) \/ Pending(s),
           \A r \in Slots : r[1] = s[1] /\ r[2] < s[2] => At(r).ts <= At(s).ts
    PROVE  InTurn(s)' /\ (OnWire(s)' \/ Pending(s)')
<1>a. PICK r, e : r = NextLine /\ e = At(r)
    OBVIOUS
<1>b. /\ r \in Slots /\ r[1] = Oldest(tail.todo) /\ r[2] = tail.pos + 1
      /\ Prints(IF e.ts >= tail.since THEN <<e>> ELSE <<>>)
    BY <1>a, LinePrints
<1>c. UNCHANGED <<files, relay>>
    BY TailsKeep DEF Tails
<1>d. /\ tail.pc = "replay" /\ tail'.pc = "replay" /\ tail'.pos = tail.pos + 1
      /\ tail'.offs = tail.offs /\ tail'.todo = tail.todo
    BY LineEffect DEF TailTypes
<1>e. /\ s[1] \in Months /\ s[2] \in Nat /\ s = <<s[1], s[2]>> /\ r = <<r[1], r[2]>> /\ r[1] \in Months
      /\ e \in Events /\ e.ts \in Int /\ At(s).ts \in Int
    BY <1>a, <1>b, SlotFacts
<1>f. tail.pos \in Nat /\ r[1] \in tail.todo /\ \A m \in tail.todo : m \in Months /\ r[1] <= m
    BY <1>b, <1>d, OldestFacts DEF PlaceInv
<1> HIDE DEF NextLine
<1>1. Pending(s) => \/ s[1] \in tail.todo /\ (s[1] = r[1] => tail.pos < s[2])
                    \/ (\A m \in tail.todo : m < s[1]) /\ tail.offs[s[1]] < s[2]
    BY <1>b, <1>d DEF Pending, Starting
<1>2. Pending(s) => s = r \/ At(r).ts <= At(s).ts
    <2> SUFFICES ASSUME Pending(s), s # r PROVE At(r).ts <= At(s).ts
        OBVIOUS
    <2>1. CASE s[1] = r[1]
        <3>1. tail.pos < s[2]
            BY <1>1, <1>e, <1>f, <2>1 DEF Months
        <3>2. r[2] < s[2]
            BY <1>b, <1>e, <1>f, <2>1, <3>1
        <3> QED
            BY <1>b, <2>1, <3>2
    <2>2. CASE s[1] # r[1]
        <3>1. r[1] < s[1]
            BY <1>1, <1>e, <1>f, <2>2 DEF Months
        <3>2. At(r).ts < At(s).ts
            BY <1>b, <3>1, Earlier
        <3> QED
            BY <1>a, <1>e, <3>2
    <2> QED
        BY <2>1, <2>2
<1>3. Pending(s) => s = r \/ Pending(s)'
    <2> SUFFICES ASSUME Pending(s), s # r PROVE Pending(s)'
        OBVIOUS
    <2>1. CASE s[1] \in tail.todo
        <3>1. s[1] = r[1] => tail'.pos < s[2]
            BY <1>1, <1>b, <1>d, <1>e, <1>f DEF Months
        <3> QED
            BY <1>b, <1>d, <2>1, <3>1 DEF Pending
    <2>2. CASE s[1] \notin tail.todo
        BY <1>1, <1>d, <2>2 DEF Pending
    <2> QED
        BY <2>1, <2>2
<1>4. s = r => e.ts >= tail.since
    <2>1. tail.since <= relay.last /\ relay.last <= At(s).ts /\ tail.since \in Int /\ relay.last \in Int
        BY DEF ResumeInv, InTurn, Never
    <2> QED
        BY <1>a, <1>e, <2>1
<1>5. CASE e.ts >= tail.since
    <2>1. wire' = wire \o <<e>>
        BY <1>5, <1>b DEF Prints
    <2> HIDE DEF Events, At, Slots, Pending, InTurn
    <2>2. <<e>> \in Seq(Events) /\ DOMAIN <<e>> = {1} /\ <<e>>[1] = e
        BY <1>e
    <2>3. \A q \in DOMAIN <<e>> : <<e>>[q].ts > At(s).ts =>
             OnWire(s) \/ \E p \in 1..q : <<e>>[p] = At(s)
        <3>1. ASSUME e.ts > At(s).ts PROVE OnWire(s)
            <4>1. s # r /\ ~(At(r).ts <= At(s).ts)
                BY <1>a, <1>e, <3>1
            <4> QED
                BY <1>2, <4>1
        <3> QED
            BY <2>2, <3>1
    <2>4. InTurn(s)'
        BY <1>c, <2>1, <2>2, <2>3, PrintedInTurn
    <2>5. OnWire(s) \/ s = r => OnWire(s)'
        <3>1. s = r => \E p \in DOMAIN <<e>> : <<e>>[p] = At(s)
            BY <1>a, <2>2
        <3> QED
            BY <1>c, <2>1, <2>2, <3>1, PrintedOnWire
    <2> QED
        BY <1>3, <2>4, <2>5
<1>6. CASE ~(e.ts >= tail.since)
    <2>1. wire' = wire \o <<>>
        BY <1>6, <1>b DEF Prints
    <2> HIDE DEF Events, At, Slots, Pending, InTurn
    <2>2. <<>> \in Seq(Events) /\ DOMAIN <<>> = {}
        OBVIOUS
    <2>3. InTurn(s)'
        BY <1>c, <2>1, <2>2, PrintedInTurn
    <2>4. OnWire(s) => OnWire(s)'
        BY <1>c, <2>1, <2>2, PrintedOnWire
    <2> QED
        BY <1>3, <1>4, <1>6, <2>3, <2>4
<1> QED
    BY <1>5, <1>6

(* A read of all that is new, over a link that is up.                       *)
LEMMA OwedFollow ==
    ASSUME LogTypes, TailTypes, StreamTypes, LogInv, PlaceInv, Follow, link = "up",
           NEW s \in Slots, InTurn(s), OnWire(s) \/ Pending(s),
           \A r \in Slots : r[1] = s[1] /\ r[2] < s[2] => At(r).ts <= At(s).ts
    PROVE  InTurn(s)' /\ OnWire(s)'
<1>a. PICK evs : evs = Unread
    OBVIOUS
<1>b. evs \in Seq(Events) /\ wire' = wire \o evs
    BY <1>a, UnreadFacts DEF Follow, Prints
<1>c. UNCHANGED <<files, relay>>
    BY TailsKeep DEF Tails
<1>d. tail.pc = "follow"
    BY FollowEffect DEF TailTypes
<1>e. s[1] \in Months /\ s[2] \in Nat /\ At(s).ts \in Int
    BY SlotFacts
<1>f. Pending(s) => tail.offs[s[1]] < s[2]
    BY <1>d DEF Pending, Starting
<1>g. \A m \in Months : tail.offs[m] \in Nat
    BY DEF PlaceInv
<1>h. Behind(1) \in Nat
    BY UnreadFacts
<1>1. ASSUME NEW q \in DOMAIN evs, evs[q].ts > At(s).ts
      PROVE  OnWire(s) \/ \E p \in 1..q : evs[p] = At(s)
    <2> SUFFICES ASSUME Pending(s) PROVE \E p \in 1..q : evs[p] = At(s)
        OBVIOUS
    <2>1. Place(s) \in DOMAIN Unread /\ Unread[Place(s)] = At(s)
        BY <1>f, SlotToUnread
    <2>2. PICK r \in Slots : tail.offs[r[1]] < r[2] /\ Unread[q] = At(r) /\ Place(r) = q
        BY <1>1, <1>a, UnreadToSlot
    <2>3. r[1] \in Months /\ r[2] \in Nat /\ r[2] \in 1..Len(files[r[1]]) /\ At(r).ts \in Int
        BY SlotFacts
    <2>4. ~(At(r).ts <= At(s).ts)
        BY <1>1, <1>a, <1>e, <2>2, <2>3
    <2>5. ~(r[1] < s[1])
        <3>1. r[1] < s[1] => At(r).ts < At(s).ts
            BY Earlier
        <3> QED
            BY <1>e, <2>3, <2>4, <3>1
    <2>6. r[1] = s[1] => s[2] <= r[2]
        BY <1>e, <2>3, <2>4
    <2>7. Place(s) <= Place(r)
        <3>1. tail.offs[1] \in Nat /\ tail.offs[2] \in Nat
            BY <1>g DEF Months
        <3>2. CASE r[1] = s[1]
            <4>1. ASSUME NEW a \in Nat, NEW b \in Nat, NEW c \in Nat, NEW d \in Nat, a <= b
                  PROVE  a - c <= b - c /\ d + (a - c) <= d + (b - c)
                BY <4>1
            <4>2. s[2] <= r[2] /\ s[2] \in Nat /\ r[2] \in Nat
                BY <1>e, <2>3, <2>6, <3>2
            <4> HIDE DEF Behind
            <4>3. CASE s[1] = 1
                <5>1. Place(s) = s[2] - tail.offs[1] /\ Place(r) = r[2] - tail.offs[1]
                    BY <3>2, <4>3 DEF Place
                <5> QED
                    BY <1>h, <3>1, <4>1, <4>2, <5>1
            <4>4. CASE s[1] # 1
                <5>1. /\ Place(s) = Behind(1) + (s[2] - tail.offs[2])
                      /\ Place(r) = Behind(1) + (r[2] - tail.offs[2])
                    BY <3>2, <4>4 DEF Place
                <5> QED
                    BY <1>h, <3>1, <4>1, <4>2, <5>1
            <4> QED
                BY <4>3, <4>4
        <3>3. CASE s[1] = 1 /\ r[1] = 2
            <4>1. s[2] <= Len(files[1])
                BY <3>3, SlotFacts
            <4>2. s[2] - tail.offs[1] <= Behind(1)
                BY <1>e, <3>1, <4>1 DEF Behind, LogTypes, Months
            <4> HIDE DEF Behind
            <4> QED
                BY <1>e, <1>h, <2>2, <2>3, <3>1, <3>3, <4>2 DEF Place
        <3> QED
            BY <1>e, <2>3, <2>5, <3>2, <3>3 DEF Months
    <2>8. Place(s) \in 1..q
        <3>1. Place(s) \in 1..Len(Unread) /\ q \in 1..Len(Unread)
            BY <1>1, <1>a, <1>b, <2>1
        <3> HIDE DEF Place, Unread
        <3> QED
            BY <2>2, <2>7, <3>1
    <2> HIDE DEF Place, Unread
    <2> QED
        BY <1>a, <2>1, <2>8
<1>2. InTurn(s)'
    BY <1>1, <1>b, <1>c, PrintedInTurn
<1>3. Pending(s) => \E p \in DOMAIN evs : evs[p] = At(s)
    BY <1>a, <1>f, SlotToUnread
<1>4. OnWire(s)'
    BY <1>3, <1>b, <1>c, PrintedOnWire
<1> QED
    BY <1>2, <1>4

(* The relay takes the first event off the wire, another one than s.         *)
LEMMA OwedRelay ==
    ASSUME LogTypes, RelayTypes, StreamTypes, LogInv, ResumeInv, RelayLine,
           NEW s \in Slots, InTurn(s), At(s).id # Head(wire).id
    PROVE  InTurn(s)' /\ (OnWire(s) => OnWire(s)')
<1> DEFINE n == Len(wire)
<1>a. /\ wire # <<>> /\ wire' = Tail(wire) /\ UNCHANGED files
      /\ relay'.last = IF Head(wire).ts > relay.last THEN Head(wire).ts ELSE relay.last
    BY RelayLineEffect
<1>b. /\ wire \in Seq(Events) /\ n \in Nat \ {0} /\ Head(wire) = wire[1] /\ DOMAIN wire = 1..n
      /\ wire' \in Seq(Events) /\ DOMAIN wire' = 1..(n - 1)
      /\ \A q \in 1..(n - 1) : wire'[q] = wire[q + 1]
    <2>1. wire \in Seq(Events)
        BY DEF StreamTypes
    <2>2. /\ Tail(wire) \in Seq(Events) /\ Len(Tail(wire)) = n - 1 /\ n \in Nat \ {0}
          /\ Head(wire) = wire[1] /\ \A q \in 1..(n - 1) : Tail(wire)[q] = wire[q + 1]
        BY <1>a, <2>1, TailFacts
    <2> QED
        BY <1>a, <2>1, <2>2
<1>c. At(s)' = At(s) /\ At(s).ts \in Int /\ wire[1] # At(s)
    BY <1>a, <1>b, FilesFrame, SlotFacts
<1> HIDE DEF n, At, Slots
<1>1. ASSUME NEW p \in 1..n, wire[p] = At(s) PROVE p - 1 \in 1..(n - 1) /\ wire'[p - 1] = At(s)
    <2>1. p # 1
        BY <1>1, <1>c
    <2>2. p - 1 \in 1..(n - 1) /\ (p - 1) + 1 = p
        BY <1>b, <2>1
    <2> QED
        BY <1>1, <1>b, <2>2
<1>2. relay'.last <= At(s).ts
    <2>1. relay.last <= At(s).ts /\ relay.last \in Int
        BY DEF InTurn, ResumeInv, Never
    <2>2. 1 \in DOMAIN wire
        BY <1>b
    <2>3. ~(wire[1].ts > At(s).ts)
        <3>1. wire[1].ts > At(s).ts => \E p \in 1..1 : wire[p] = At(s)
            BY <2>2 DEF InTurn
        <3> QED
            BY <1>c, <3>1
    <2>4. wire[1].ts \in Int
        <3>1. PICK r \in Slots : wire[1] = At(r)
            BY <2>2 DEF ResumeInv
        <3> QED
            BY <3>1, SlotFacts
    <2> QED
        BY <1>a, <1>b, <1>c, <2>1, <2>3, <2>4
<1>3. ASSUME NEW q \in DOMAIN wire', wire'[q].ts > At(s).ts PROVE \E p \in 1..q : wire'[p] = At(s)
    <2>1. q \in 1..(n - 1) /\ q + 1 \in 1..n /\ wire'[q] = wire[q + 1]
        BY <1>b
    <2>2. PICK p \in 1..(q + 1) : wire[p] = At(s)
        BY <1>3, <1>b, <2>1 DEF InTurn
    <2>3. p \in 1..n
        BY <1>b, <2>1
    <2>4. p - 1 \in 1..(n - 1) /\ wire'[p - 1] = At(s)
        BY <1>1, <2>2, <2>3
    <2>5. p - 1 \in 1..q
        BY <1>b, <2>1, <2>4
    <2> QED
        BY <2>4, <2>5
<1>4. OnWire(s) => OnWire(s)'
    <2> SUFFICES ASSUME NEW p \in 1..n, wire[p] = At(s) PROVE OnWire(s)'
        BY <1>b DEF OnWire
    <2>1. p - 1 \in 1..(n - 1) /\ wire'[p - 1] = At(s)
        BY <1>1
    <2> QED
        BY <1>b, <1>c, <2>1 DEF OnWire
<1> QED
    BY <1>2, <1>3, <1>4, <1>c DEF InTurn

(* The log's order is that of its files.                                    *)
LEMMA LatestOfLog ==
    ASSUME LogTypes, NEW t, \A i \in DOMAIN Log : Log[i].ts <= t
    PROVE  \A s \in Slots : At(s).ts <= t
<1>1. PICK a, b : a = files[1] /\ b = files[2]
    OBVIOUS
<1>2. a \in Seq(Events) /\ b \in Seq(Events)
    BY <1>1 DEF LogTypes, Months
<1>3. /\ Log = a \o b /\ Len(a \o b) = Len(a) + Len(b) /\ a \o b \in Seq(Events)
      /\ Len(a) \in Nat /\ Len(b) \in Nat
      /\ \A q \in 1..Len(a) : (a \o b)[q] = a[q]
      /\ \A q \in (Len(a) + 1)..(Len(a) + Len(b)) : (a \o b)[q] = b[q - Len(a)]
    <2>1. Log = a \o b
        BY <1>1 DEF Log
    <2>2. /\ a \o b \in Seq(Events) /\ Len(a \o b) = Len(a) + Len(b)
          /\ Len(a) \in Nat /\ Len(b) \in Nat
          /\ \A q \in 1..Len(a) : (a \o b)[q] = a[q]
          /\ \A q \in (Len(a) + 1)..(Len(a) + Len(b)) : (a \o b)[q] = b[q - Len(a)]
        BY <1>2, ConcatFacts
    <2> QED
        BY <2>1, <2>2
<1>4. DOMAIN Log = 1..(Len(a) + Len(b))
    BY <1>3
<1>5. ASSUME NEW s \in Slots PROVE At(s).ts <= t
    <2>1. s[1] \in {1, 2} /\ s[2] \in 1..Len(files[s[1]])
        BY SlotFacts DEF Months
    <2>2. CASE s[1] = 1
        <3>1. s[2] \in 1..Len(a) /\ At(s) = a[s[2]]
            BY <1>1, <2>1, <2>2 DEF At
        <3>2. s[2] \in DOMAIN Log /\ Log[s[2]] = a[s[2]]
            BY <1>3, <1>4, <3>1
        <3> QED
            BY <3>1, <3>2
    <2>3. CASE s[1] = 2
        <3>1. s[2] \in 1..Len(b) /\ At(s) = b[s[2]]
            BY <1>1, <2>1, <2>3 DEF At
        <3>2. /\ Len(a) + s[2] \in (Len(a) + 1)..(Len(a) + Len(b)) /\ Len(a) + s[2] \in DOMAIN Log
              /\ (Len(a) + s[2]) - Len(a) = s[2]
            BY <1>3, <1>4, <3>1
        <3>3. Log[Len(a) + s[2]] = b[s[2]]
            BY <1>3, <3>2
        <3> QED
            BY <3>1, <3>2, <3>3
    <2> QED
        BY <2>1, <2>2, <2>3
<1> QED
    BY <1>5

LEMMA OwedWrite ==
    ASSUME ClockTypes, LogTypes, WriterTypes, TailTypes, TailPcs, StreamTypes, LogInv, PlaceInv,
           ResumeInv, OwedInv, NEW w \in Writers, Write(w)
    PROVE  OwedInv'
<1>a. PICK ev, new : ev = writer[w].ev /\ new = NewSlot(w)
    OBVIOUS
<1>b. /\ Slots' = Slots \cup {new} /\ At(new)' = ev /\ \A s \in Slots : At(s)' = At(s)
      /\ new[1] = MonthOf(ev.ts) /\ new[2] = Len(files[new[1]]) + 1 /\ new \notin Slots
    BY <1>a, Grow DEF At, NewSlot
<1>c. UNCHANGED <<tail, wire, relay, heard, out, link>>
    BY DEF Write, tvars, rvars
<1>d. ev.ts \in Nat /\ \A s \in Slots : At(s).id # ev.id
    BY <1>a DEF LogInv, Write
<1>e. owed' = owed \/ (/\ owed' = owed \cup {ev.id} /\ heard # Never
                       /\ \A i \in DOMAIN Log : Log[i].ts <= ev.ts)
    BY <1>a DEF Write, AppendAndRecord
<1>f. new[1] \in Months /\ Len(files[new[1]]) \in Nat
    <2>1. new[1] \in Months
        BY <1>b DEF MonthOf, Months
    <2> QED
        BY <2>1 DEF LogTypes
<1>g. \A s \in Slots : /\ s[1] \in Months /\ s[2] \in 1..Len(files[s[1]])
                       /\ At(s).ts \in Nat /\ MonthOf(At(s).ts) = s[1]
    BY SlotFacts DEF LogInv
<1>h. ev.id \notin owed
    BY <1>d DEF OwedInv
<1> HIDE DEF Slots, At
<1>1. \A id \in owed' : \E s \in Slots' : At(s)'.id = id
    <2>1. \A id \in owed : \E s \in Slots' : At(s)'.id = id
        BY <1>b DEF OwedInv
    <2> QED
        BY <1>b, <1>e, <2>1
<1>2. ASSUME NEW s \in Slots, At(s)'.id \in owed'
      PROVE  /\ heard' # Never
             /\ \A r \in Slots' : r[1] = s[1] /\ r[2] < s[2] => At(r)'.ts <= At(s)'.ts
             /\ At(s)'.id \notin out' =>
                   InTurn(s)' /\ (link' = "up" /\ tail'.pc # "off" => OnItsWay(s)')
    <2>1. At(s)' = At(s) /\ At(s).id \in owed
        BY <1>2, <1>b, <1>d, <1>e
    <2>2. /\ heard # Never
          /\ \A r \in Slots : r[1] = s[1] /\ r[2] < s[2] => At(r).ts <= At(s).ts
          /\ At(s).id \notin out =>
                InTurn(s) /\ (link = "up" /\ tail.pc # "off" => OnItsWay(s))
        BY <2>1 DEF OwedInv
    <2>3. ASSUME NEW r \in Slots', r[1] = s[1], r[2] < s[2] PROVE At(r)'.ts <= At(s)'.ts
        <3>1. r # new
            BY <1>b, <1>f, <1>g, <2>3
        <3>2. r \in Slots /\ At(r)' = At(r)
            BY <1>b, <2>3, <3>1
        <3> QED
            BY <2>1, <2>2, <2>3, <3>2
    <2>4. InTurn(s)' <=> InTurn(s)
        BY <1>c, <2>1 DEF InTurn
    <2>5. OnItsWay(s)' <=> OnItsWay(s)
        BY <1>c, <2>1 DEF OnItsWay, Pending
    <2> QED
        BY <1>c, <2>1, <2>2, <2>3, <2>4, <2>5
<1>3. ASSUME ev.id \in owed'
      PROVE  /\ heard' # Never
             /\ \A r \in Slots' : r[1] = new[1] /\ r[2] < new[2] => At(r)'.ts <= At(new)'.ts
             /\ InTurn(new)' /\ (link' = "up" /\ tail'.pc # "off" => OnItsWay(new)')
    <2>1. heard # Never /\ \A i \in DOMAIN Log : Log[i].ts <= ev.ts
        BY <1>3, <1>e, <1>h
    <2>2. \A r \in Slots : At(r).ts <= ev.ts
        BY <2>1, LatestOfLog
    <2>3. \A r \in Slots' : At(r)'.ts <= At(new)'.ts
        BY <1>b, <1>d, <2>2
    <2>4. InTurn(new)'
        <3>1. relay.last <= ev.ts
            <4>1. relay.last # Never
                BY <2>1 DEF ResumeInv
            <4>2. PICK r \in Slots : At(r).ts = relay.last
                BY <4>1 DEF ResumeInv
            <4> QED
                BY <2>2, <4>2
        <3>2. ASSUME NEW q \in DOMAIN wire PROVE ~(wire[q].ts > ev.ts)
            <4>1. PICK r \in Slots : wire[q] = At(r)
                BY DEF ResumeInv
            <4> QED
                BY <1>d, <1>g, <2>2, <4>1
        <3> QED
            BY <1>b, <1>c, <3>1, <3>2 DEF InTurn
    <2>5. ASSUME tail.pc # "off" PROVE Pending(new)
        <3>a. tail.offs[new[1]] < new[2]
            <4>1. tail.offs[new[1]] \in Nat /\ tail.offs[new[1]] <= Len(files[new[1]])
                BY <1>f DEF PlaceInv
            <4> QED
                BY <1>b, <1>f, <4>1
        <3>1. CASE tail.pc \in Starting
            BY <3>1 DEF Pending
        <3>2. CASE tail.pc \in {"follow", "wait"}
            BY <3>2, <3>a DEF Pending
        <3>3. CASE tail.pc = "replay"
            <4>1. /\ tail.todo # {} /\ tail.todo \subseteq Months /\ tail.pos \in Nat
                  /\ tail.pos <= Len(files[Oldest(tail.todo)]) /\ \A m \in tail.todo : files[m] # <<>>
                BY <3>3 DEF PlaceInv
            <4>2. CASE new[1] \in tail.todo
                <5>1. new[1] = Oldest(tail.todo) => tail.pos < new[2]
                    BY <1>b, <1>f, <4>1
                <5> QED
                    BY <3>3, <4>2, <5>1 DEF Pending
            <4>3. CASE new[1] \notin tail.todo
                <5>1. ASSUME NEW m \in tail.todo PROVE m < new[1]
                    <6>1. m \in Months /\ files[m] # <<>> /\ m # new[1]
                        BY <4>1, <4>3
                    <6>2. Len(files[m]) \in Nat \ {0}
                        <7>1. files[m] \in Seq(Events)
                            BY <6>1 DEF LogTypes
                        <7> QED
                            BY <6>1, <7>1
                    <6>3. 1 \in 1..Len(files[m])
                        BY <6>2
                    <6>4. <<m, 1>> \in Slots
                        BY <6>1, <6>3, SlotIntro
                    <6>5. PICK r \in Slots : r[1] = m
                        BY <6>4
                    <6>6. At(r).ts <= ev.ts /\ At(r).ts \in Nat /\ MonthOf(At(r).ts) = m
                        BY <1>g, <2>2, <6>5
                    <6> QED
                        BY <1>b, <1>d, <1>f, <6>1, <6>6, StreamAssumption DEF MonthOf, Months
                <5> QED
                    BY <3>3, <3>a, <5>1 DEF Pending
            <4> QED
                BY <4>2, <4>3
        <3> QED
            BY <2>5, <3>1, <3>2, <3>3 DEF TailPcs
    <2>6. tail'.pc # "off" => OnItsWay(new)'
        BY <1>c, <2>5 DEF OnItsWay, Pending
    <2> QED
        BY <1>c, <2>1, <2>3, <2>4, <2>6
<1>4. ASSUME NEW s \in Slots', At(s)'.id \in owed'
      PROVE  /\ heard' # Never
             /\ \A r \in Slots' : r[1] = s[1] /\ r[2] < s[2] => At(r)'.ts <= At(s)'.ts
             /\ At(s)'.id \notin out' =>
                   InTurn(s)' /\ (link' = "up" /\ tail'.pc # "off" => OnItsWay(s)')
    <2>1. CASE s \in Slots
        BY <1>2, <1>4, <2>1
    <2>2. CASE s = new
        BY <1>3, <1>4, <1>b, <2>2
    <2> QED
        BY <1>b, <2>1, <2>2
<1> QED
    BY <1>1, <1>4 DEF OwedInv

LEMMA OwedStep ==
    /\ ClockTypes /\ LogTypes /\ WriterTypes /\ TailTypes /\ RelayTypes /\ StreamTypes /\ TailPcs
    /\ LogInv /\ PlaceInv /\ ResumeInv /\ OwedInv /\ [Next]_vars
    => OwedInv'
<1> SUFFICES ASSUME ClockTypes, LogTypes, WriterTypes, TailTypes, RelayTypes, StreamTypes, TailPcs,
                    LogInv, PlaceInv, ResumeInv, OwedInv, [Next]_vars
             PROVE  OwedInv'
    OBVIOUS
<1>a. ASSUME NEW s PROVE OnItsWay(s) <=> OnWire(s) \/ Pending(s)
    BY DEF OnItsWay, OnWire
<1>b. ASSUME NEW s PROVE OnItsWay(s)' <=> OnWire(s)' \/ Pending(s)'
    BY DEF OnItsWay, OnWire
<1>c. ASSUME NEW s, UNCHANGED <<files, wire>>, relay'.last = relay.last
      PROVE  (InTurn(s) => InTurn(s)') /\ (OnWire(s) => OnWire(s)')
    BY <1>c DEF InTurn, OnWire, At
<1>d. ASSUME NEW s, UNCHANGED tail PROVE Pending(s) => Pending(s)'
    BY <1>d DEF Pending
<1>e. ASSUME NEW s \in Slots, At(s).id \in owed, NEW r \in Slots, r[1] = s[1], r[2] < s[2]
      PROVE  At(r).ts <= At(s).ts
    BY <1>e DEF OwedInv
<1> HIDE DEF Slots, At, InTurn, OnItsWay, OnWire, Pending
<1>1. CASE UNCHANGED <<files, owed, out, heard, tail, wire, link>> /\ relay'.last = relay.last
    BY <1>1, <1>a, <1>b, <1>c, <1>d, OwedFrame
<1>2. ASSUME NEW w \in Writers, Write(w) PROVE OwedInv'
    BY <1>2, OwedWrite
<1>3. ASSUME NEW w \in Writers, Stamp(w) \/ RingScan(w) \/ RingOne(w) \/ RingUnlink(w) PROVE OwedInv'
    <2>1. UNCHANGED <<files, owed, out, heard, tail, wire, link, relay>>
        BY <1>3, Zenon DEF Stamp, RingScan, RingOne, RingUnlink, tvars, rvars
    <2> QED
        BY <1>1, <2>1
<1>4. CASE Tick \/ UNCHANGED vars
    <2>1. UNCHANGED <<files, owed, out, heard, tail, wire, link, relay>>
        BY <1>4, Zenon DEF Tick, vars, tvars, rvars, evars
    <2> QED
        BY <1>1, <2>1
<1>5. CASE LinkFails \/ LinkHeals
    <2>1. UNCHANGED <<files, owed, out, heard, tail, wire, relay>>
        BY <1>5, Zenon DEF LinkFails, LinkHeals, tvars, rvars, evars
    <2>2. link' # "up" \/ tail'.pc = "off"
        <3>1. CASE LinkFails
            BY <3>1 DEF LinkFails
        <3>2. CASE LinkHeals
            BY <2>1, <3>2 DEF LinkHeals, ResumeInv
        <3> QED
            BY <1>5, <3>1, <3>2
    <2> QED
        BY <2>1, <2>2, <1>c, OwedFrame
<1>6. CASE MkFifo \/ OpenFifo \/ Seed \/ ReplayCurrent \/ ReplayList \/ ReplayEnd \/ Woken \/ WaitTimesOut
    <2>1. UNCHANGED <<relay, heard, files, out, owed, link>>
        BY <1>6, TailsKeep DEF Tails
    <2>2. UNCHANGED wire
        BY <1>6, Zenon
        DEF MkFifo, OpenFifo, Seed, ReplayCurrent, ReplayList, ReplayEnd, Woken, WaitTimesOut
    <2>3. tail.pc # "off"
        BY <1>6, TailMoves DEF Tails, TailTypes
    <2>4. ASSUME NEW s \in Slots, heard # Never, InTurn(s), Pending(s) PROVE Pending(s)'
        BY <1>6, <2>4, OwedQuiet
    <2> QED
        BY <1>a, <1>b, <1>c, <2>1, <2>2, <2>3, <2>4, OwedFrame
<1>7. CASE ReplayLine \/ Follow
    <2>1. UNCHANGED <<relay, heard, files, out, owed, link>>
        BY <1>7, TailsKeep DEF Tails
    <2>2. tail.pc # "off"
        BY <1>7, TailMoves DEF Tails, TailTypes
    <2>3. CASE link = "up"
        <3>1. ASSUME NEW s \in Slots, At(s).id \in owed, InTurn(s), OnWire(s) \/ Pending(s)
              PROVE  InTurn(s)' /\ (OnWire(s)' \/ Pending(s)')
            <4>1. \A r \in Slots : r[1] = s[1] /\ r[2] < s[2] => At(r).ts <= At(s).ts
                BY <1>e, <3>1
            <4>2. CASE ReplayLine
                BY <2>3, <3>1, <4>1, <4>2, OwedLine
            <4>3. CASE Follow
                BY <2>3, <3>1, <4>1, <4>3, OwedFollow
            <4> QED
                BY <1>7, <4>2, <4>3
        <3> QED
            BY <1>a, <1>b, <2>1, <2>2, <2>3, <3>1, OwedFrame
    <2>4. CASE link # "up"
        <3>1. PICK evs \in Seq(Events) : Prints(evs)
            BY <1>7, PrintFacts
        <3>2. UNCHANGED wire
            BY <2>4, <3>1 DEF Prints
        <3> QED
            BY <1>c, <2>1, <2>4, <3>2, OwedFrame
    <2> QED
        BY <2>3, <2>4
<1>8. CASE Spawn
    <2>1. relay'.last = relay.last /\ UNCHANGED <<heard, files, out, owed>>
        BY <1>8, RelayKeeps
    <2>2. UNCHANGED <<wire, link>> /\ (link = "up" => tail'.pc = "mkfifo")
        BY <1>8 DEF Spawn, NoTail
    <2>3. ASSUME NEW s, tail'.pc = "mkfifo" PROVE Pending(s)'
        BY <2>3 DEF Pending, Starting
    <2> QED
        BY <1>b, <1>c, <2>1, <2>2, <2>3, OwedFrame
<1>9. CASE SshEnds \/ Interrupted
    <2>1. relay'.last = relay.last /\ UNCHANGED <<heard, files, out, owed>>
        BY <1>9, RelayKeeps
    <2>2. wire' = <<>> /\ tail'.pc = "off"
        BY <1>9 DEF SshEnds, Interrupted, TailEnds, NoTail
    <2>3. ASSUME NEW s, InTurn(s) PROVE InTurn(s)'
        <3>1. DOMAIN wire' = {}
            BY <2>2
        <3> QED
            BY <2>1, <2>3, <3>1 DEF InTurn, At
    <2> QED
        BY <2>1, <2>2, <2>3, OwedFrame
<1>10. CASE BackoffEnds
    <2>1. relay'.last = relay.last /\ UNCHANGED <<heard, files, out, owed>>
        BY <1>10, RelayKeeps
    <2>2. UNCHANGED <<tail, wire, link>>
        BY <1>10, Zenon DEF BackoffEnds, tvars
    <2> QED
        BY <1>1, <2>1, <2>2
<1>11. CASE RelayLine
    <2>1. /\ heard' = now /\ out' = out \cup {Head(wire).id} /\ UNCHANGED <<files, tail, link, owed>>
        BY <1>11, RelayLineEffect
    <2>2. heard' # Never
        BY <2>1 DEF ClockTypes, Never
    <2>3. ASSUME NEW s \in Slots, At(s).id \notin out', InTurn(s)
          PROVE  InTurn(s)' /\ (OnWire(s) => OnWire(s)')
        BY <1>11, <2>1, <2>3, OwedRelay
    <2> QED
        BY <1>a, <1>b, <1>d, <2>1, <2>2, <2>3, OwedFrame
<1> QED
    BY <1>2, <1>3, <1>4, <1>5, <1>6, <1>7, <1>8, <1>9, <1>10, <1>11
    DEF Next, Emits, Tails, Relays

(* The state between two steps.                                             *)
StreamInv ==
    /\ ClockTypes /\ LogTypes /\ WriterTypes /\ TailTypes /\ EarnedInv /\ StreamTypes /\ TailPcs
    /\ LogInv /\ PlaceInv /\ ResumeInv

LEMMA StreamInit == Init => StreamInv /\ OwedInv
<1> SUFFICES ASSUME Init PROVE StreamInv /\ OwedInv
    OBVIOUS
<1>1. ClockTypes /\ EarnedInv
    BY DEF Init, ClockTypes, EarnedInv, RelayTypes, Never
<1>2. <<>> \in Seq(Events) /\ \A m \in Months : files[m] = <<>>
    BY DEF Init
<1>3. LogTypes /\ StreamTypes
    BY <1>2 DEF Init, LogTypes, StreamTypes
<1>4. WriterTypes
    <2>1. Idle \in [pc : WriterStates, ev : Events, paths : SUBSET Conns, path : Conns \cup {0}]
        BY DEF Idle, WriterStates, Events
    <2> QED
        BY <2>1 DEF Init, WriterTypes
<1>5. /\ tail.pc = "off" /\ tail.offs = <<0, 0>> /\ tail.todo = {} /\ tail.pos = 0
      /\ tail.since = Never /\ Shape(tail)
    BY DEF Init, NoTail, Shape
<1>6. TailTypes /\ TailPcs
    BY <1>5, StreamAssumption DEF Init, TailTypes, TailPcs
<1>7. Slots = {}
    <2>1. \A m \in Months : DOMAIN files[m] = {}
        BY <1>2
    <2> QED
        BY <2>1 DEF Slots
<1>8. LogInv
    <2>1. \A w \in Writers : writer[w].pc # "write"
        BY DEF Init, Idle
    <2> QED
        BY <1>7, <2>1 DEF LogInv
<1>9. PlaceInv
    <2>1. tail.offs \in [Months -> Nat] /\ \A m \in Months : tail.offs[m] = 0
        BY <1>5 DEF Months
    <2>2. \A m \in Months : Len(files[m]) = 0
        BY <1>2
    <2> QED
        BY <1>5, <2>1, <2>2 DEF PlaceInv
<1>10. ResumeInv
    <2>1. wire = <<>> /\ DOMAIN wire = {} /\ heard = Never /\ relay.last = Never
        BY DEF Init
    <2> QED
        BY <1>5, <2>1 DEF ResumeInv, Never
<1>11. OwedInv
    BY <1>7 DEF Init, OwedInv
<1> QED
    BY <1>1, <1>3, <1>4, <1>6, <1>8, <1>9, <1>10, <1>11 DEF StreamInv

LEMMA StreamInvStep == StreamInv /\ [Next]_vars => StreamInv'
<1> SUFFICES ASSUME StreamInv, [Next]_vars PROVE StreamInv'
    OBVIOUS
<1>1. ClockTypes' /\ LogTypes' /\ WriterTypes' /\ TailTypes' /\ EarnedInv'
    BY ClockStep, LogStep, WriterStep, TailStep, EarnedStep DEF StreamInv
<1>2. StreamTypes' /\ TailPcs' /\ LogInv' /\ PlaceInv'
    BY StreamStep, TailPcsStep, LogInvStep, PlaceStep DEF StreamInv
<1>3. ResumeInv'
    BY ResumeStep DEF StreamInv, EarnedInv
<1> QED
    BY <1>1, <1>2, <1>3 DEF StreamInv

(* Whatever was appended in the order of its timestamps since the relay's    *)
(* first line is relayed whenever the relay has caught up: for any writers,  *)
(* any outages and any number of events (NoneLostInOrder).                  *)
THEOREM NothingOwedIsLost == Spec => []NoneLostInOrder
<1>1. StreamInv /\ OwedInv /\ [Next]_vars => OwedInv'
    BY OwedStep DEF StreamInv, EarnedInv
<1>2. StreamInv /\ OwedInv => NoneLostInOrder
    <2> SUFFICES ASSUME StreamInv, OwedInv, CaughtUp, NEW id \in owed, id \notin out PROVE FALSE
        BY DEF NoneLostInOrder
    <2>1. PICK s \in Slots : At(s).id = id
        BY DEF OwedInv
    <2>2. tail.pc = "wait" /\ wire = <<>> /\ Unread = <<>> /\ link = "up"
        BY DEF CaughtUp
    <2>3. OnItsWay(s)
        BY <2>1, <2>2 DEF OwedInv
    <2>4. tail.offs[s[1]] < s[2]
        BY <2>2, <2>3 DEF OnItsWay, Pending, Starting
    <2>5. Place(s) \in DOMAIN Unread
        BY <2>4, SlotToUnread DEF StreamInv
    <2> HIDE DEF Place
    <2> QED
        BY <2>2, <2>5
<1> QED
    BY <1>1, <1>2, StreamInit, StreamInvStep, PTL DEF Spec

-----------------------------------------------------------------------------
(* The argument for HandoffExact.                                           *)
Covers(s, C, f, lo, hi) == \A i \in DOMAIN s : s[i] \in C => \E k \in lo..hi : s[i] = f[k]
Once(s, C) == \A i, j \in DOMAIN s : s[i] = s[j] /\ s[i] \in C => i = j
Apart(f, m, n) == \A k \in 1..m, l \in (m + 1)..n : f[k] # f[l]

LEMMA AppendDistinct ==
    ASSUME NEW S, NEW a \in Seq(S), NEW evs \in Seq(S), NEW C, NEW f, NEW F \in Nat, NEW G \in Nat, F <= G,
           Covers(a, C, f, 1, F), Once(a, C), Covers(evs, C, f, F + 1, G), Once(evs, C), Apart(f, F, G)
    PROVE  Covers(a \o evs, C, f, 1, G) /\ Once(a \o evs, C)
<1> USE DEF Covers, Once, Apart
<1>a. PICK b, n : b = a \o evs /\ n = Len(a)
    OBVIOUS
<1>b. n \in Nat /\ Len(evs) \in Nat /\ DOMAIN a = 1..n /\ DOMAIN evs = 1..Len(evs)
    BY <1>a
<1>c. /\ DOMAIN b = 1..(n + Len(evs)) /\ \A q \in 1..n : b[q] = a[q]
      /\ \A q \in (n + 1)..(n + Len(evs)) : b[q] = evs[q - n]
    BY <1>a, <1>b, ConcatFacts
<1>d. ASSUME NEW i \in DOMAIN b
      PROVE  \/ i \in DOMAIN a /\ b[i] = a[i]
             \/ i > n /\ i - n \in DOMAIN evs /\ b[i] = evs[i - n]
    <2>1. CASE i <= n
        BY <1>b, <1>c, <2>1
    <2>2. CASE i > n
        <3>1. i \in (n + 1)..(n + Len(evs)) /\ i - n \in 1..Len(evs)
            BY <1>b, <1>c, <2>2
        <3> QED
            BY <1>b, <1>c, <2>2, <3>1
    <2> QED
        BY <1>b, <1>c, <2>1, <2>2
<1>1. ASSUME NEW i \in DOMAIN b, b[i] \in C PROVE \E k \in 1..G : b[i] = f[k]
    <2>1. \A k \in 1..F : k \in 1..G
        OBVIOUS
    <2>2. \A k \in (F + 1)..G : k \in 1..G
        OBVIOUS
    <2> QED
        BY <1>1, <1>d, <2>1, <2>2
<1>2. ASSUME NEW i \in DOMAIN b, NEW j \in DOMAIN b, b[i] = b[j], b[i] \in C PROVE i = j
    <2>1. CASE b[i] = a[i] /\ b[j] = a[j] /\ i \in DOMAIN a /\ j \in DOMAIN a
        BY <1>2, <2>1
    <2>2. CASE b[i] = evs[i - n] /\ b[j] = evs[j - n] /\ i - n \in DOMAIN evs /\ j - n \in DOMAIN evs
        <3>1. i - n = j - n
            BY <1>2, <2>2
        <3> QED
            BY <1>b, <1>c, <3>1
    <2>3. ASSUME NEW x \in DOMAIN a, NEW y \in DOMAIN evs, a[x] = b[i], evs[y] = b[i] PROVE FALSE
        <3>1. PICK k \in 1..F : a[x] = f[k]
            BY <1>2, <2>3
        <3>2. PICK l \in (F + 1)..G : evs[y] = f[l]
            BY <1>2, <2>3
        <3> QED
            BY <2>3, <3>1, <3>2
    <2> QED
        BY <1>2, <1>d, <2>1, <2>2, <2>3
<1> QED
    BY <1>1, <1>2, <1>a

LEMMA FileDistinct ==
    ASSUME LogTypes, LogInv, NEW m \in Months, NEW k \in 1..Len(files[m]), NEW l \in 1..Len(files[m]),
           files[m][k] = files[m][l]
    PROVE  k = l
<1>1. /\ <<m, k>> \in Slots /\ At(<<m, k>>) = files[m][k]
      /\ <<m, l>> \in Slots /\ At(<<m, l>>) = files[m][l]
    BY SlotIntro
<1>2. <<m, k>> = <<m, l>>
    BY <1>1 DEF LogInv
<1> QED
    BY <1>2

LEMMA FrontFacts ==
    ASSUME LogTypes, PlaceInv, tail.cur \in Months
    PROVE  Front \in Nat /\ Front <= Len(files[tail.cur])
<1>1. Len(files[tail.cur]) \in Nat /\ tail.offs[tail.cur] \in Nat /\ tail.pos \in Nat
    BY DEF LogTypes, PlaceInv
<1>2. tail.offs[tail.cur] <= Len(files[tail.cur])
    BY DEF PlaceInv
<1>3. tail.pc = "replay" => tail.pos <= Len(files[Oldest(tail.todo)])
    BY DEF PlaceInv
<1> HIDE DEF Oldest
<1> QED
    BY <1>1, <1>2, <1>3 DEF Front

LEMMA FrontFactsNext ==
    ASSUME LogTypes', PlaceInv', tail'.cur \in Months
    PROVE  Front' \in Nat /\ Front' <= Len(files'[tail'.cur])
<1>1. Len(files'[tail'.cur]) \in Nat /\ tail'.offs[tail'.cur] \in Nat /\ tail'.pos \in Nat
    BY DEF LogTypes, PlaceInv
<1>2. tail'.offs[tail'.cur] <= Len(files'[tail'.cur])
    BY DEF PlaceInv
<1>3. tail'.pc = "replay" => tail'.pos <= Len(files'[Oldest(tail'.todo)])
    BY DEF PlaceInv
<1> HIDE DEF Oldest
<1> QED
    BY <1>1, <1>2, <1>3 DEF Front

LEMMA HandPrint ==
    ASSUME LogTypes, StreamTypes, LogInv, tail.cur \in Months, UNCHANGED files, tail'.cur = tail.cur,
           NEW evs \in Seq(Events), printed' = printed \o evs,
           NEW F \in Nat, NEW G \in Nat, F <= G, G <= Len(files[tail.cur]), Printed(F),
           \A q \in DOMAIN evs : MonthOf(evs[q].ts) = tail.cur =>
              \E k \in (F + 1)..G : evs[q] = files[tail.cur][k],
           \A p, q \in DOMAIN evs : evs[p] = evs[q] /\ MonthOf(evs[p].ts) = tail.cur => p = q
    PROVE  /\ \A i \in DOMAIN printed' :
                 MonthOf(printed'[i].ts) = tail'.cur => \E k \in 1..G : printed'[i] = files'[tail'.cur][k]
           /\ HandoffExact'
<1>a. PICK a, c, f, C : /\ a = printed /\ c = tail.cur /\ f = files[c]
                        /\ C = {e \in Events : MonthOf(e.ts) = c}
    OBVIOUS
<1>b. a \in Seq(Events) /\ Len(f) \in Nat
    BY <1>a DEF StreamTypes, LogTypes
<1>c. ASSUME NEW s \in Seq(Events), NEW i \in DOMAIN s PROVE s[i] \in C <=> MonthOf(s[i].ts) = c
    <2>1. s[i] \in Events
        BY <1>c
    <2> QED
        BY <1>a, <2>1
<1>1. Covers(a, C, f, 1, F) /\ Once(a, C)
    BY <1>a, <1>b, <1>c DEF Printed, HandoffExact, Covers, Once
<1>2. Covers(evs, C, f, F + 1, G) /\ Once(evs, C)
    BY <1>a, <1>c DEF Covers, Once
<1>3. ASSUME NEW k \in 1..F, NEW l \in (F + 1)..G PROVE f[k] # f[l]
    <2>1. G <= Len(f)
        BY <1>a
    <2>2. k \in 1..Len(f) /\ l \in 1..Len(f) /\ k # l
        BY <1>b, <2>1
    <2> QED
        BY <1>a, <2>2, FileDistinct
<1>4. Apart(f, F, G)
    BY <1>3 DEF Apart
<1>5. PICK b \in Seq(Events) : b = a \o evs
    BY <1>b, ConcatFacts
<1>6. Covers(b, C, f, 1, G) /\ Once(b, C)
    BY <1>1, <1>2, <1>4, <1>5, <1>b, AppendDistinct
<1>7. printed' = b /\ tail'.cur = c /\ files'[tail'.cur] = f
    BY <1>5, <1>a
<1>8. \A i \in DOMAIN b : MonthOf(b[i].ts) = c => \E k \in 1..G : b[i] = f[k]
    BY <1>6, <1>c DEF Covers
<1>9. \A i, j \in DOMAIN b : b[i] = b[j] /\ MonthOf(b[i].ts) = c => i = j
    BY <1>6, <1>c DEF Once
<1>10. HandoffExact'
    BY <1>7, <1>9 DEF HandoffExact
<1> QED
    BY <1>7, <1>8, <1>10

LEMMA LinesKept ==
    ASSUME LogTypes, WriterTypes, [Next]_vars, NEW m \in Months, NEW k \in 1..Len(files[m])
    PROVE  files'[m][k] = files[m][k]
<1>1. <<m, k>> \in Slots /\ At(<<m, k>>) = files[m][k]
    BY SlotIntro
<1>2. At(<<m, k>>)' = At(<<m, k>>)
    BY <1>1, SlotsKept
<1> QED
    BY <1>1, <1>2 DEF At

LEMMA NoMonth == \A t : MonthOf(t) \in Months
BY DEF MonthOf, Months

LEMMA HandEmpty ==
    ASSUME printed' = <<>>, tail'.cur \in {0} \cup Months PROVE HandInv'
<1>1. DOMAIN printed' = {}
    OBVIOUS
<1> QED
    BY <1>1 DEF HandInv, Printed, HandoffExact

LEMMA HandKeep ==
    ASSUME LogTypes, WriterTypes, PlaceInv, HandInv, [Next]_vars, UNCHANGED printed, tail'.cur = tail.cur,
           tail'.pc \in {"off"} \cup Starting => tail.pc \in {"off"} \cup Starting,
           tail.cur \in Months => Front' \in Nat /\ Front <= Front'
    PROVE  HandInv'
<1>1. ASSUME NEW i \in DOMAIN printed, MonthOf(printed[i].ts) = tail.cur
      PROVE  \E k \in 1..Front' : printed[i] = files'[tail.cur][k]
    <2>1. tail.cur \in Months
        BY <1>1, NoMonth
    <2>2. PICK k \in 1..Front : printed[i] = files[tail.cur][k]
        BY <1>1 DEF HandInv, Printed
    <2>3. Front \in Nat /\ Front <= Len(files[tail.cur]) /\ Len(files[tail.cur]) \in Nat
        BY <2>1, FrontFacts DEF LogTypes
    <2> HIDE DEF Front
    <2>4. k \in 1..Len(files[tail.cur]) /\ k \in 1..Front'
        BY <2>1, <2>3
    <2>5. files'[tail.cur][k] = files[tail.cur][k]
        BY <2>1, <2>4, LinesKept
    <2> QED
        BY <2>2, <2>4, <2>5
<1> HIDE DEF Front
<1>2. HandoffExact'
    BY DEF HandInv, Printed, HandoffExact
<1>3. tail'.cur \in {0} \cup Months /\ (tail'.pc \in {"off"} \cup Starting => printed' = <<>>)
    BY DEF HandInv
<1>4. Printed(Front)'
    BY <1>1, <1>2 DEF Printed
<1> QED
    BY <1>3, <1>4 DEF HandInv

LEMMA HandStep ==
    /\ ClockTypes /\ LogTypes /\ WriterTypes /\ TailTypes /\ StreamTypes /\ LogInv /\ PlaceInv
    /\ ResumeInv /\ LogTypes' /\ PlaceInv' /\ HandInv /\ [Next]_vars
    => HandInv'
<1> SUFFICES ASSUME ClockTypes, LogTypes, WriterTypes, TailTypes, StreamTypes, LogInv, PlaceInv,
                    ResumeInv, LogTypes', PlaceInv', HandInv, [Next]_vars
             PROVE  HandInv'
    OBVIOUS
<1>a. Shape(tail) /\ tail.offs \in [Months -> Nat]
    BY DEF TailTypes, PlaceInv
<1>b. tail.cur \in {0} \cup Months
    BY DEF HandInv
<1>1. CASE UNCHANGED <<tail, printed>>
    <2>1. Front' = Front
        BY <1>1 DEF Front
    <2>2. tail.cur \in Months => Front \in Nat
        BY FrontFacts
    <2> HIDE DEF Front
    <2> QED
        BY <1>1, <2>1, <2>2, HandKeep
<1>2. CASE MkFifo \/ OpenFifo \/ Seed \/ ReplayCurrent \/ ReplayList
    <2>1. UNCHANGED printed
        BY <1>2, Zenon DEF MkFifo, OpenFifo, Seed, ReplayCurrent, ReplayList
    <2>2. tail.pc \in Starting
        BY <1>2, <1>a, OpenEffect, SeedEffect, CurrentEffect, ListEffect DEF Starting
    <2>3. tail'.cur = tail.cur \/ tail'.cur = MonthOf(now)
        BY <1>2, <1>a, OpenEffect, SeedEffect, CurrentEffect, ListEffect
    <2>4. tail'.cur \in {0} \cup Months
        BY <1>b, <2>3, NoMonth
    <2>5. printed' = <<>>
        BY <2>1, <2>2 DEF HandInv
    <2> QED
        BY <2>4, <2>5, HandEmpty
<1>3. CASE Woken \/ WaitTimesOut
    <2>1. /\ tail.pc = "wait" /\ tail'.pc = "follow" /\ tail'.offs = tail.offs /\ tail'.cur = tail.cur
          /\ tail'.todo = tail.todo
        BY <1>3, <1>a, WakeEffect
    <2>2. UNCHANGED printed
        BY <1>3, Zenon DEF Woken, WaitTimesOut
    <2>3. Front' = Front
        BY <2>1 DEF Front
    <2>4. tail.cur \in Months => Front \in Nat
        BY FrontFacts
    <2> HIDE DEF Front
    <2> QED
        BY <2>1, <2>2, <2>3, <2>4, HandKeep DEF Starting
<1>4. CASE ReplayEnd
    <2>a. PICK o : o = Oldest(tail.todo)
        OBVIOUS
    <2>1. /\ tail.pc = "replay" /\ tail.pos = Len(files[o])
          /\ tail'.pc = IF tail.todo = {o} THEN "follow" ELSE "replay"
          /\ tail'.todo = tail.todo \ {o} /\ tail'.pos = 0 /\ tail'.cur = tail.cur
          /\ tail'.offs = [tail.offs EXCEPT ![o] = IF o = tail.cur THEN tail.pos ELSE @]
        BY <1>4, <1>a, <2>a, ReplayEndEffect
    <2>2. UNCHANGED printed
        BY <1>4, Zenon DEF ReplayEnd
    <2>3. o \in tail.todo /\ tail.todo \subseteq Months
        BY <2>1, <2>a, OldestFacts DEF PlaceInv
    <2>4. tail.cur \in Months => Front' \in Nat /\ Front <= Front'
        <3> SUFFICES ASSUME tail.cur \in Months PROVE Front' \in Nat /\ Front <= Front'
            OBVIOUS
        <3>1. Front' \in Nat /\ Front \in Nat
            BY <2>1, FrontFacts, FrontFactsNext
        <3>2. CASE tail.cur = o
            <4>1. Front = tail.pos
                BY <2>1, <2>3, <2>a, <3>2 DEF Front
            <4>2. Front' = tail'.offs[tail.cur]
                BY <2>1, <3>2 DEF Front
            <4>3. tail'.offs[tail.cur] = tail.pos
                BY <1>a, <2>1, <3>2
            <4> HIDE DEF Front
            <4> QED
                BY <3>1, <4>1, <4>2, <4>3
        <3>3. CASE tail.cur # o /\ tail.cur \in tail.todo
            <4>1. Front = 0
                BY <2>1, <2>a, <3>3 DEF Front
            <4> HIDE DEF Front
            <4> QED
                BY <3>1, <4>1
        <3>4. CASE tail.cur # o /\ tail.cur \notin tail.todo
            <4>1. Front = tail.offs[tail.cur] /\ Front' = tail'.offs[tail.cur]
                BY <2>1, <3>4 DEF Front
            <4>2. tail'.offs[tail.cur] = tail.offs[tail.cur]
                BY <1>a, <2>1, <3>4
            <4> HIDE DEF Front
            <4> QED
                BY <3>1, <4>1, <4>2
        <3> QED
            BY <3>2, <3>3, <3>4
    <2>5. tail'.pc \notin {"off"} \cup Starting
        BY <2>1 DEF Starting
    <2> HIDE DEF Front
    <2> QED
        BY <2>1, <2>2, <2>4, <2>5, HandKeep
<1>5. CASE ReplayLine
    <2>a. PICK r, e : r = NextLine /\ e = At(r)
        OBVIOUS
    <2>b. /\ r \in Slots /\ r[1] = Oldest(tail.todo) /\ r[2] = tail.pos + 1
          /\ Prints(IF e.ts >= tail.since THEN <<e>> ELSE <<>>)
        BY <1>5, <2>a, LinePrints
    <2>c. /\ tail.pc = "replay" /\ tail'.pc = "replay" /\ tail'.pos = tail.pos + 1
          /\ tail'.offs = tail.offs /\ tail'.cur = tail.cur /\ tail'.todo = tail.todo
        BY <1>5, <1>a, LineEffect
    <2>d. UNCHANGED files
        BY <1>5, TailsKeep DEF Tails
    <2>e. /\ e \in Events /\ e = files[r[1]][r[2]] /\ MonthOf(e.ts) = r[1] /\ r[1] \in Months
          /\ r[2] \in 1..Len(files[r[1]])
        BY <2>a, <2>b, SlotFacts DEF LogInv, At
    <2>f. tail.pos \in Nat /\ r[1] \in tail.todo /\ Len(files[r[1]]) \in Nat
        <3>1. tail.pos \in Nat /\ Len(files[r[1]]) \in Nat
            BY <2>e DEF PlaceInv, LogTypes
        <3>2. Oldest(tail.todo) \in tail.todo
            BY <2>c, OldestFacts DEF PlaceInv
        <3> QED
            BY <2>b, <3>1, <3>2
    <2>g. PICK evs : /\ evs = (IF e.ts >= tail.since THEN <<e>> ELSE <<>>)
                     /\ printed' = printed \o evs
        BY <2>b DEF Prints
    <2>h. /\ evs \in Seq(Events) /\ DOMAIN evs \subseteq {1} /\ \A q \in DOMAIN evs : evs[q] = e
        <3> HIDE DEF Events
        <3>1. CASE e.ts >= tail.since
            <4>1. evs = <<e>>
                BY <2>g, <3>1
            <4> QED
                BY <2>e, <4>1
        <3>2. CASE ~(e.ts >= tail.since)
            <4>1. evs = <<>>
                BY <2>g, <3>2
            <4> QED
                BY <4>1
        <3> QED
            BY <3>1, <3>2
    <2> HIDE DEF Events
    <2>1. Printed(Front)
        BY DEF HandInv
    <2>2. tail.cur \in Months =>
             /\ Front \in Nat /\ Front' \in Nat /\ Front <= Front' /\ Front' <= Len(files[tail.cur])
             /\ tail.cur = r[1] => Front = tail.pos /\ Front' = tail.pos + 1
        <3> SUFFICES ASSUME tail.cur \in Months
                     PROVE  /\ Front \in Nat /\ Front' \in Nat /\ Front <= Front'
                            /\ Front' <= Len(files[tail.cur])
                            /\ tail.cur = r[1] => Front = tail.pos /\ Front' = tail.pos + 1
            OBVIOUS
        <3>1. Front \in Nat /\ Front' \in Nat /\ Front' <= Len(files[tail.cur])
            BY <2>c, <2>d, FrontFacts, FrontFactsNext
        <3>2. CASE tail.cur = r[1]
            <4>1. Front = tail.pos /\ Front' = tail'.pos
                BY <2>b, <2>c, <2>f, <3>2 DEF Front
            <4> HIDE DEF Front
            <4> QED
                BY <2>c, <2>f, <3>1, <4>1
        <3>3. CASE tail.cur # r[1]
            <4>1. Front = Front'
                BY <2>b, <2>c, <3>3 DEF Front
            <4> HIDE DEF Front
            <4> QED
                BY <3>1, <3>3, <4>1
        <3> QED
            BY <3>2, <3>3
    <2> HIDE DEF Front
    <2>3. CASE tail.cur \in Months
        <3>1. PICK F, G : F = Front /\ G = Front'
            OBVIOUS
        <3>2. ASSUME NEW q \in DOMAIN evs, MonthOf(evs[q].ts) = tail.cur
              PROVE  \E k \in (F + 1)..G : evs[q] = files[tail.cur][k]
            <4>1. tail.cur = r[1] /\ evs[q] = e
                BY <2>e, <2>h, <3>2
            <4>2. F = tail.pos /\ G = tail.pos + 1
                BY <2>2, <2>3, <3>1, <4>1
            <4>3. r[2] \in (F + 1)..G
                BY <2>b, <2>f, <4>2
            <4> QED
                BY <2>e, <4>1, <4>3
        <3>3. \A p, q \in DOMAIN evs : p = q
            BY <2>h
        <3>4. /\ F \in Nat /\ G \in Nat /\ F <= G /\ G <= Len(files[tail.cur]) /\ Printed(F)
            BY <2>1, <2>2, <2>3, <3>1
        <3>5. /\ \A i \in DOMAIN printed' :
                    MonthOf(printed'[i].ts) = tail'.cur => \E k \in 1..G : printed'[i] = files'[tail'.cur][k]
              /\ HandoffExact'
            BY <2>3, <2>c, <2>d, <2>g, <2>h, <3>2, <3>3, <3>4, HandPrint
        <3>6. Printed(Front)'
            BY <3>1, <3>5 DEF Printed
        <3> QED
            BY <1>b, <2>c, <3>6 DEF HandInv, Starting
    <2>4. CASE tail.cur \notin Months
        <3>1. \A t : MonthOf(t) # tail'.cur
            BY <2>4, <2>c, NoMonth
        <3>2. Printed(Front)'
            BY <3>1 DEF Printed, HandoffExact
        <3> QED
            BY <1>b, <2>c, <3>2 DEF HandInv, Starting
    <2> QED
        BY <2>3, <2>4
<1>6. CASE Follow
    <2>a. PICK evs : evs = Unread
        OBVIOUS
    <2>b. evs \in Seq(Events) /\ printed' = printed \o evs
        BY <1>6, <2>a, UnreadFacts DEF Follow, Prints
    <2>c. /\ tail.pc = "follow" /\ tail'.pc \in {"wait", "follow"} /\ tail'.cur = tail.cur
          /\ tail'.offs = [m \in Months |-> Len(files[m])]
        BY <1>6, <1>a, FollowEffect
    <2>d. UNCHANGED files
        BY <1>6, TailsKeep DEF Tails
    <2>1. Printed(Front)
        BY DEF HandInv
    <2>2. CASE tail.cur \in Months
        <3>1. PICK F, G : F = Front /\ G = Front'
            OBVIOUS
        <3>2. F = tail.offs[tail.cur] /\ G = Len(files[tail.cur]) /\ F \in Nat /\ G \in Nat /\ F <= G
            <4>1. Front = tail.offs[tail.cur] /\ Front' = Len(files[tail.cur])
                BY <2>2, <2>c DEF Front
            <4>2. Front \in Nat /\ Front <= Len(files[tail.cur]) /\ Len(files[tail.cur]) \in Nat
                BY <2>2, FrontFacts DEF LogTypes
            <4> HIDE DEF Front
            <4> QED
                BY <3>1, <4>1, <4>2
        <3>3. ASSUME NEW q \in DOMAIN evs, MonthOf(evs[q].ts) = tail.cur
              PROVE  \E k \in (F + 1)..G : evs[q] = files[tail.cur][k]
            <4>1. PICK s \in Slots : tail.offs[s[1]] < s[2] /\ evs[q] = At(s)
                BY <2>a, UnreadToSlot
            <4>2. s[1] = tail.cur /\ s[2] \in 1..Len(files[s[1]])
                BY <3>3, <4>1, SlotFacts DEF LogInv
            <4>3. s[2] \in (F + 1)..G
                BY <3>2, <4>1, <4>2
            <4> QED
                BY <4>1, <4>2, <4>3 DEF At
        <3>4. ASSUME NEW p \in DOMAIN evs, NEW q \in DOMAIN evs, evs[p] = evs[q] PROVE p = q
            <4>1. PICK s \in Slots : evs[p] = At(s) /\ Place(s) = p
                BY <2>a, UnreadToSlot
            <4>2. PICK t \in Slots : evs[q] = At(t) /\ Place(t) = q
                BY <2>a, UnreadToSlot
            <4>3. s = t
                BY <3>4, <4>1, <4>2 DEF LogInv
            <4> QED
                BY <4>1, <4>2, <4>3
        <3> HIDE DEF Front
        <3>5. G <= Len(files[tail.cur]) /\ Printed(F)
            BY <2>1, <3>1, <3>2
        <3>6. /\ \A i \in DOMAIN printed' :
                    MonthOf(printed'[i].ts) = tail'.cur => \E k \in 1..G : printed'[i] = files'[tail'.cur][k]
              /\ HandoffExact'
            <4>1. \A p, q \in DOMAIN evs : evs[p] = evs[q] /\ MonthOf(evs[p].ts) = tail.cur => p = q
                BY <3>4
            <4> QED
                BY <2>2, <2>b, <2>c, <2>d, <3>2, <3>3, <3>5, <4>1, HandPrint
        <3>7. Printed(Front)'
            BY <3>1, <3>6 DEF Printed
        <3> QED
            BY <1>b, <2>c, <3>7 DEF HandInv, Starting
    <2>3. CASE tail.cur \notin Months
        <3>1. \A t : MonthOf(t) # tail'.cur
            BY <2>3, <2>c, NoMonth
        <3> HIDE DEF Front
        <3>2. Printed(Front)'
            BY <3>1 DEF Printed, HandoffExact
        <3> QED
            BY <1>b, <2>c, <3>2 DEF HandInv, Starting
    <2> QED
        BY <2>2, <2>3
<1>7. CASE SshEnds \/ Interrupted
    <2>1. printed' = <<>> /\ tail'.cur = 0
        BY <1>7 DEF SshEnds, Interrupted, TailEnds, NoTail
    <2> QED
        BY <2>1, HandEmpty
<1>8. CASE Spawn
    <2>1. UNCHANGED printed
        BY <1>8 DEF Spawn
    <2>2. UNCHANGED tail \/ tail'.cur = 0
        BY <1>8 DEF Spawn, NoTail
    <2>3. tail.pc = "off"
        BY <1>8 DEF Spawn, ResumeInv
    <2>4. printed' = <<>>
        BY <2>1, <2>3 DEF HandInv
    <2> QED
        BY <1>b, <2>2, <2>4, HandEmpty
<1>9. RelayLine \/ BackoffEnds => UNCHANGED <<tail, printed>>
    BY Zenon DEF RelayLine, BackoffEnds, tvars
<1> QED
    BY <1>1, <1>2, <1>3, <1>4, <1>5, <1>6, <1>7, <1>8, <1>9, Bystanders DEF Next, Tails, Relays

(* The tail prints no event of its current month twice, wherever the replay  *)
(* ended and whatever was written meanwhile (HandoffExact).                 *)
THEOREM HandoffIsExact == Spec => []HandoffExact
<1>1. Init => HandInv
    <2> SUFFICES ASSUME Init PROVE HandInv
        OBVIOUS
    <2>1. printed = <<>> /\ tail.cur = 0
        BY DEF Init, NoTail
    <2>2. DOMAIN printed = {}
        BY <2>1
    <2> QED
        BY <2>1, <2>2 DEF HandInv, Printed, HandoffExact
<1>2. StreamInv /\ HandInv /\ [Next]_vars => HandInv'
    BY HandStep, StreamInvStep DEF StreamInv
<1>3. HandInv => HandoffExact
    BY DEF HandInv, Printed
<1> QED
    BY <1>1, <1>2, <1>3, StreamInit, StreamInvStep, PTL DEF Spec
=============================================================================
