--------------------------- MODULE ThrottleProofs ---------------------------
(***************************************************************************)
(* Proofs about Throttle for any agents, any log and any turn of the month: *)
(* a recovery is announced once, what the operator sees is what the gate    *)
(* sees, the one scan after a round finds what the separate scans find, and *)
(* no agent is tried before its last failure allows it.                     *)
(***************************************************************************)
EXTENDS Throttle, SequenceTheorems, FiniteSetTheorems, TLAPS

----------------------------------------------------------------------------
(* The smallest and the greatest of a set of numbers.                      *)

LEMMA Smallest ==
  ASSUME NEW S \in SUBSET Nat, S # {}
  PROVE  \E x \in S : \A y \in S : x <= y
<1>1. PICK R : R = OpToRel(<, Nat)
  OBVIOUS
<1>2. IsWellFoundedOn(R, Nat)
  BY <1>1, NatLessThanWellFounded
<1>3. \A x, y \in Nat : x < y => <<x, y>> \in R
  BY <1>1 DEF OpToRel
<1>4. PICK x \in S : \A y \in S : ~ (<<y, x>> \in R)
  BY <1>2, WFMin, S \subseteq Nat
<1>5. ASSUME NEW y \in S PROVE x <= y
  <2>1. x \in Nat /\ y \in Nat
    OBVIOUS
  <2>2. ~ (<<y, x>> \in R)
    BY <1>4
  <2>3. ~ (y < x)
    BY <1>3, <2>1, <2>2
  <2> QED
    BY <2>1, <2>3
<1> QED
  BY <1>4, <1>5

(* What holds of 0 and passes from each number to the next holds of all.   *)
LEMMA Induction ==
  ASSUME NEW S, 0 \in S, \A n \in Nat : n \in S => n + 1 \in S
  PROVE  Nat \subseteq S
<1>1. SUFFICES ASSUME Nat \ S # {} PROVE FALSE
  OBVIOUS
<1>2. PICK x \in Nat \ S : \A y \in Nat \ S : x <= y
  BY <1>1, Smallest, Nat \ S \in SUBSET Nat
<1>3. x # 0
  OBVIOUS
<1>4. x - 1 \in Nat /\ ~ (x <= x - 1)
  BY <1>3
<1>5. x - 1 \in S
  BY <1>2, <1>4
<1> QED
  BY <1>4, <1>5, (x - 1) + 1 = x

LEMMA GreatestIs ==
  ASSUME NEW S \in SUBSET Int, NEW x \in S, \A y \in S : y <= x
  PROVE  Greatest(S) = x
<1>1. ASSUME NEW z \in S, \A y \in S : y <= z PROVE z = x
  <2>1. z <= x /\ x <= z /\ z \in Int /\ x \in Int
    BY <1>1
  <2> QED
    BY <2>1
<1> QED
  BY <1>1 DEF Greatest

LEMMA GreatestExists ==
  ASSUME NEW n \in Nat, NEW S \in SUBSET (1..n), S # {}
  PROVE  Greatest(S) \in S /\ \A y \in S : y <= Greatest(S)
<1> DEFINE T == {k \in Nat : \A y \in S : y <= k}
<1>1. n \in T
  OBVIOUS
<1>2. PICK k \in T : \A m \in T : k <= m
  <2>1. T \in SUBSET Nat /\ T # {}
    BY <1>1
  <2> HIDE DEF T
  <2> QED
    BY <2>1, Smallest
<1>3. k \in S
  <2>1. SUFFICES ASSUME k \notin S PROVE FALSE
    OBVIOUS
  <2>2. k \in Nat /\ \A y \in S : y <= k
    OBVIOUS
  <2>3. \A y \in S : y \in Nat /\ y >= 1 /\ y # k
    BY <2>1
  <2>4. \A y \in S : y <= k - 1
    BY <2>2, <2>3
  <2>5. k >= 1
    <3>1. PICK y : y \in S
      OBVIOUS
    <3>2. y \in Nat /\ y >= 1 /\ y <= k
      BY <2>2, <2>3, <3>1
    <3> QED
      BY <2>2, <3>2
  <2>6. k - 1 \in T
    BY <2>2, <2>4, <2>5
  <2> QED
    BY <1>2, <2>2, <2>6
<1>4. \A y \in S : y <= k
  OBVIOUS
<1> QED
  BY <1>3, <1>4, GreatestIs, S \in SUBSET Int

----------------------------------------------------------------------------
(* The log, event by event.                                                *)

Event ==
    [ev : {"success", "detected", "recovered"}, agent : Agents,
     class : {"none", "model", "account"}, reset : Nat, at : Nat]

(* RecoveredOnce, and an agent's throttle that is not announced as over, of *)
(* any sequence of events.                                                  *)
OnceIn(s) ==
    \A i, j \in DOMAIN s :
        /\ i < j /\ s[i].ev = "recovered" /\ s[j].ev = "recovered"
        /\ s[i].agent = s[j].agent
        => \E k \in i..j : s[k].ev = "detected" /\ s[k].agent = s[i].agent

OpenIn(s, a) ==
    \E i \in DOMAIN s :
        /\ s[i].ev = "detected" /\ s[i].agent = a
        /\ \A j \in DOMAIN s : j > i => ~(s[j].ev = "recovered" /\ s[j].agent = a)

LEMMA Appended ==
  ASSUME NEW s \in Seq(Event), NEW e \in Event, NEW t, t = Append(s, e)
  PROVE  /\ t \in Seq(Event)
         /\ Len(s) \in Nat /\ Len(t) = Len(s) + 1
         /\ DOMAIN s = 1..Len(s) /\ DOMAIN t = 1..(Len(s) + 1)
         /\ \A i \in 1..Len(s) : t[i] = s[i]
         /\ t[Len(s) + 1] = e
OBVIOUS

LEMMA OpenStays ==
  ASSUME NEW s \in Seq(Event), NEW e \in Event, NEW t, t = Append(s, e),
         NEW a, OpenIn(s, a), ~(e.ev = "recovered" /\ e.agent = a)
  PROVE  OpenIn(t, a)
<1>1. PICK n \in Nat : n = Len(s) /\ DOMAIN s = 1..n /\ DOMAIN t = 1..(n + 1)
                       /\ (\A i \in 1..n : t[i] = s[i]) /\ t[n + 1] = e
  BY Appended
<1>2. PICK i \in 1..n : /\ s[i].ev = "detected" /\ s[i].agent = a
                        /\ \A j \in 1..n : j > i => ~(s[j].ev = "recovered" /\ s[j].agent = a)
  BY <1>1 DEF OpenIn
<1>3. i \in DOMAIN t /\ t[i] = s[i]
  BY <1>1
<1>4. ASSUME NEW j \in DOMAIN t, j > i PROVE ~(t[j].ev = "recovered" /\ t[j].agent = a)
  <2>1. j \in 1..n \/ j = n + 1
    BY <1>1
  <2> QED
    BY <1>1, <1>2, <1>4, <2>1
<1> QED
  BY <1>2, <1>3, <1>4 DEF OpenIn

LEMMA OnceStays ==
  ASSUME NEW s \in Seq(Event), NEW e \in Event, NEW t, t = Append(s, e),
         OnceIn(s), e.ev = "recovered" => OpenIn(s, e.agent)
  PROVE  OnceIn(t)
<1>1. PICK n \in Nat : n = Len(s) /\ DOMAIN s = 1..n /\ DOMAIN t = 1..(n + 1)
                       /\ (\A i \in 1..n : t[i] = s[i]) /\ t[n + 1] = e
  BY Appended
<1>2. SUFFICES ASSUME NEW i \in DOMAIN t, NEW j \in DOMAIN t,
                      i < j, t[i].ev = "recovered", t[j].ev = "recovered",
                      t[i].agent = t[j].agent
               PROVE  \E k \in i..j : t[k].ev = "detected" /\ t[k].agent = t[i].agent
  BY DEF OnceIn
<1>3. i \in 1..n /\ t[i] = s[i]
  BY <1>1, <1>2
<1>4. CASE j \in 1..n
  <2>1. t[j] = s[j]
    BY <1>1, <1>4
  <2>2. PICK k \in i..j : s[k].ev = "detected" /\ s[k].agent = s[i].agent
    BY <1>1, <1>2, <1>3, <1>4, <2>1 DEF OnceIn
  <2>3. t[k] = s[k]
    BY <1>1, <1>3, <1>4
  <2> QED
    BY <1>3, <2>2, <2>3
<1>5. CASE j = n + 1
  <2>1. t[j] = e /\ e.ev = "recovered" /\ e.agent = s[i].agent
    BY <1>1, <1>2, <1>3, <1>5
  <2>2. PICK k \in 1..n : /\ s[k].ev = "detected" /\ s[k].agent = e.agent
                          /\ \A m \in 1..n : m > k => ~(s[m].ev = "recovered" /\ s[m].agent = e.agent)
    BY <1>1, <2>1 DEF OpenIn
  <2>3. ~(i > k)
    BY <1>2, <1>3, <2>1, <2>2
  <2>4. k \in i..j /\ t[k] = s[k]
    BY <1>1, <1>3, <1>5, <2>2, <2>3
  <2> QED
    BY <1>3, <2>1, <2>2, <2>4
<1> QED
  BY <1>1, <1>4, <1>5

----------------------------------------------------------------------------
(* What the scans find.                                                    *)

LogTypes == log \in Seq(Event) /\ month \in 0..Len(log) /\ now \in Nat

(* The scan over the two files finds the newest transient event of both.   *)
LEMMA ScanFindsNewest ==
  ASSUME NEW s \in Seq(Event), ScanForTransient(s).ev # "none"
  PROVE  \E i \in DOMAIN s : /\ s[i] = ScanForTransient(s) /\ s[i].ev \in Transient
                             /\ \A j \in DOMAIN s : s[j].ev \in Transient => j <= i
<1>1. PICK n \in Nat : n = Len(s) /\ DOMAIN s = 1..n
  OBVIOUS
<1> DEFINE at == {i \in DOMAIN s : s[i].ev \in Transient}
<1>2. at # {} /\ ScanForTransient(s) = s[Greatest(at)]
  BY DEF ScanForTransient
<1>3. Greatest(at) \in at /\ \A y \in at : y <= Greatest(at)
  <2>1. at \in SUBSET (1..n)
    BY <1>1
  <2> HIDE DEF at
  <2> QED
    BY <1>2, <2>1, GreatestExists
<1> QED
  BY <1>2, <1>3

LEMMA ScanIs ==
  ASSUME NEW s \in Seq(Event), NEW i \in DOMAIN s, s[i].ev \in Transient,
         \A j \in DOMAIN s : s[j].ev \in Transient => j <= i
  PROVE  ScanForTransient(s) = s[i]
<1> DEFINE at == {k \in DOMAIN s : s[k].ev \in Transient}
<1>1. at \in SUBSET Int /\ i \in at /\ \A y \in at : y <= i
  OBVIOUS
<1>2. Greatest(at) = i
  <2> HIDE DEF at
  <2> QED
    BY <1>1, GreatestIs
<1> QED
  BY <1>1, <1>2 DEF ScanForTransient

LEMMA ScanNone ==
  ASSUME NEW s \in Seq(Event)
  PROVE  ScanForTransient(s).ev = "none" <=> \A i \in DOMAIN s : s[i].ev \notin Transient
<1>1. CASE \A i \in DOMAIN s : s[i].ev \notin Transient
  BY <1>1 DEF ScanForTransient
<1>2. CASE \E i \in DOMAIN s : s[i].ev \in Transient
  <2> DEFINE at == {i \in DOMAIN s : s[i].ev \in Transient}
  <2>1. at # {} /\ ScanForTransient(s) = s[Greatest(at)]
    BY <1>2 DEF ScanForTransient
  <2>2. Greatest(at) \in at
    <3>1. at \in SUBSET (1..Len(s)) /\ Len(s) \in Nat
      OBVIOUS
    <3> HIDE DEF at
    <3> QED
      BY <2>1, <3>1, GreatestExists
  <2>3. s[Greatest(at)].ev \in Transient
    BY <2>2
  <2> QED
    BY <1>2, <2>1, <2>3 DEF Transient
<1> QED
  BY <1>1, <1>2

(* Wherever the month turned, the two files read one after the other are    *)
(* the log.                                                                *)
LEMMA FilesAreTheLog ==
  ASSUME LogTypes
  PROVE  /\ NewestFile \in Seq(Event) /\ OlderFile \in Seq(Event)
         /\ DOMAIN OlderFile = 1..month /\ DOMAIN NewestFile = 1..(Len(log) - month)
         /\ \A i \in 1..month : OlderFile[i] = log[i]
         /\ \A i \in 1..(Len(log) - month) : NewestFile[i] = log[month + i]
<1>1. Len(log) \in Nat /\ month \in Nat /\ month <= Len(log) /\ DOMAIN log = 1..Len(log)
  BY DEF LogTypes
<1>2. log \in Seq(Event)
  BY DEF LogTypes
<1>3. OlderFile = [i \in 1..month |-> log[i]]
  BY <1>1, <1>2 DEF OlderFile
<1>4. NewestFile = [i \in 1..(Len(log) - month) |-> log[month + i]]
  BY <1>1, <1>2 DEF NewestFile
<1>5. \A i \in 1..month : i \in DOMAIN log
  BY <1>1
<1>6. \A i \in 1..(Len(log) - month) : month + i \in DOMAIN log
  BY <1>1
<1>7. \A i \in DOMAIN log : log[i] \in Event
  BY <1>2
<1>8. PICK k \in Nat : k = Len(log) - month
  <2>1. Len(log) - month \in Nat
    BY <1>1
  <2> QED
    BY <2>1, Zenon
<1>9. OlderFile \in [1..month -> Event]
  BY <1>3, <1>5, <1>7
<1>10. NewestFile \in [1..k -> Event]
  BY <1>4, <1>6, <1>7, <1>8
<1>11. OlderFile \in Seq(Event) /\ NewestFile \in Seq(Event)
  BY <1>1, <1>8, <1>9, <1>10, SeqDef
<1> QED
  BY <1>3, <1>4, <1>8, <1>9, <1>10, <1>11


LEMMA TwoScansAreOne ==
  ASSUME LogTypes
  PROVE  LatestUnrecoveredDetected =
            LET all == ScanForTransient(log)
            IN  IF all.ev = "detected" THEN all ELSE [ev |-> "none"]
<1> DEFINE n == Len(log)
           Last(i) == /\ i \in 1..n /\ log[i].ev \in Transient
                      /\ \A j \in 1..n : log[j].ev \in Transient => j <= i
<1>1. n \in Nat /\ month \in Nat /\ month <= n /\ DOMAIN log = 1..n /\ log \in Seq(Event)
  BY DEF LogTypes
<1>2. PICK new, old : new = NewestFile /\ old = OlderFile
  OBVIOUS
<1>3. /\ new \in Seq(Event) /\ old \in Seq(Event)
      /\ DOMAIN old = 1..month /\ DOMAIN new = 1..(n - month)
      /\ \A i \in 1..month : old[i] = log[i]
      /\ \A i \in 1..(n - month) : new[i] = log[month + i]
  BY <1>2, FilesAreTheLog
<1> HIDE DEF n
<1>4. ASSUME ScanForTransient(new).ev # "none"
      PROVE  ScanForTransient(new) = ScanForTransient(log)
  <2>1. PICK i \in 1..(n - month) :
             /\ new[i] = ScanForTransient(new) /\ new[i].ev \in Transient
             /\ \A j \in 1..(n - month) : new[j].ev \in Transient => j <= i
    BY <1>3, <1>4, ScanFindsNewest
  <2>2. month + i \in 1..n /\ log[month + i] = new[i]
    BY <1>1, <1>3
  <2>3. ASSUME NEW j \in 1..n, log[j].ev \in Transient PROVE j <= month + i
    <3>1. CASE j <= month
      BY <1>1, <3>1
    <3>2. CASE j > month
      <4>1. j - month \in 1..(n - month) /\ month + (j - month) = j
        BY <1>1, <3>2
      <4>2. new[j - month] = log[j]
        BY <1>3, <4>1
      <4>3. j - month <= i
        BY <2>1, <2>3, <4>1, <4>2
      <4> QED
        BY <1>1, <4>3
    <3> QED
      BY <1>1, <3>1, <3>2
  <2>4. ScanForTransient(log) = log[month + i]
    BY <1>1, <2>1, <2>2, <2>3, ScanIs
  <2> QED
    BY <2>1, <2>2, <2>4
<1>5. ASSUME ScanForTransient(new).ev = "none", ScanForTransient(old).ev # "none"
      PROVE  ScanForTransient(old) = ScanForTransient(log)
  <2>1. PICK i \in 1..month :
             /\ old[i] = ScanForTransient(old) /\ old[i].ev \in Transient
             /\ \A j \in 1..month : old[j].ev \in Transient => j <= i
    BY <1>3, <1>5, ScanFindsNewest
  <2>2. \A j \in 1..(n - month) : new[j].ev \notin Transient
    BY <1>3, <1>5, ScanNone
  <2>3. i \in 1..n /\ log[i] = old[i]
    BY <1>1, <1>3
  <2>4. ASSUME NEW j \in 1..n, log[j].ev \in Transient PROVE j <= i
    <3>1. CASE j <= month
      BY <1>1, <1>3, <2>1, <2>4, <3>1
    <3>2. CASE j > month
      <4>1. j - month \in 1..(n - month) /\ month + (j - month) = j
        BY <1>1, <3>2
      <4>2. new[j - month] = log[j]
        BY <1>3, <4>1
      <4> QED
        BY <2>2, <2>4, <4>1, <4>2
    <3> QED
      BY <1>1, <3>1, <3>2
  <2>5. ScanForTransient(log) = log[i]
    BY <1>1, <2>1, <2>3, <2>4, ScanIs
  <2> QED
    BY <2>1, <2>3, <2>5
<1>6. ASSUME ScanForTransient(new).ev = "none", ScanForTransient(old).ev = "none"
      PROVE  ScanForTransient(log).ev = "none"
  <2>1. /\ \A j \in 1..(n - month) : new[j].ev \notin Transient
        /\ \A j \in 1..month : old[j].ev \notin Transient
    BY <1>3, <1>6, ScanNone
  <2>2. ASSUME NEW j \in 1..n PROVE log[j].ev \notin Transient
    <3>1. CASE j <= month
      BY <1>1, <1>3, <2>1, <3>1
    <3>2. CASE j > month
      <4>1. j - month \in 1..(n - month) /\ month + (j - month) = j
        BY <1>1, <3>2
      <4>2. new[j - month] = log[j]
        BY <1>3, <4>1
      <4> QED
        BY <2>1, <4>1, <4>2
    <3> QED
      BY <1>1, <3>1, <3>2
  <2> QED
    BY <1>1, <2>2, ScanNone
<1>7. LatestUnrecoveredDetected =
         LET a == ScanForTransient(new)
             latest == IF a.ev = "none" THEN ScanForTransient(old) ELSE a
         IN  IF latest.ev = "detected" THEN latest ELSE [ev |-> "none"]
  BY <1>2 DEF LatestUnrecoveredDetected
<1> QED
  BY <1>4, <1>5, <1>6, <1>7

(* A detection that the gate finds is nobody's recovery yet.               *)
LEMMA ScalarIsOpen ==
  ASSUME LogTypes, LatestUnrecoveredDetected.ev # "none"
  PROVE  /\ LatestUnrecoveredDetected \in Event
         /\ LatestUnrecoveredDetected.ev = "detected"
         /\ OpenIn(log, LatestUnrecoveredDetected.agent)
<1>1. PICK d : d = LatestUnrecoveredDetected
  OBVIOUS
<1>2. d = ScanForTransient(log) /\ d.ev = "detected"
  BY <1>1, TwoScansAreOne
<1>3. log \in Seq(Event)
  BY DEF LogTypes
<1>4. PICK i \in DOMAIN log :
           /\ log[i] = d /\ log[i].ev \in Transient
           /\ \A j \in DOMAIN log : log[j].ev \in Transient => j <= i
  BY <1>2, <1>3, ScanFindsNewest
<1>5. \A j \in DOMAIN log : j > i => log[j].ev \notin Transient
  BY <1>3, <1>4
<1>6. OpenIn(log, d.agent)
  BY <1>2, <1>4, <1>5 DEF OpenIn, Transient
<1>7. d \in Event
  BY <1>3, <1>4
<1> QED
  BY <1>1, <1>2, <1>6, <1>7

(* What LatestTransientPerAgent holds of an agent.                         *)
LEMMA NewestOf ==
  ASSUME LogTypes, NEW a \in Troubled
  PROVE  \E i \in DOMAIN log :
            /\ i = Greatest(TransientAt(a)) /\ LatestTransientPerAgent[a] = log[i]
            /\ log[i].ev \in Transient /\ log[i].agent = a
            /\ \A j \in DOMAIN log : log[j].ev \in Transient /\ log[j].agent = a => j <= i
<1>1. PICK n \in Nat : n = Len(log) /\ DOMAIN log = 1..n
  BY DEF LogTypes
<1>2. PICK at : at = TransientAt(a)
  OBVIOUS
<1>3. at = {i \in 1..n : log[i].ev \in Transient /\ log[i].agent = a} /\ at # {}
  BY <1>1, <1>2 DEF TransientAt, TailEvents, Troubled
<1>4. at \in SUBSET (1..n)
  BY <1>3
<1>5. Greatest(at) \in at /\ \A y \in at : y <= Greatest(at)
  BY <1>3, <1>4, GreatestExists
<1>6. LatestTransientPerAgent[a] = log[Greatest(at)]
  BY <1>2 DEF LatestTransientPerAgent, TailEvents
<1> QED
  BY <1>1, <1>2, <1>3, <1>5, <1>6

LEMMA PendingIsOpen ==
  ASSUME LogTypes, NEW map, NEW a \in PendingRecovered(map)
  PROVE  a \in Agents /\ OpenIn(log, a)
<1>1. a \in Troubled /\ LatestTransientPerAgent[a].ev = "detected"
  BY DEF PendingRecovered, LatestTransientPerAgent
<1>2. PICK i \in DOMAIN log :
          /\ LatestTransientPerAgent[a] = log[i] /\ log[i].agent = a
          /\ \A j \in DOMAIN log : log[j].ev \in Transient /\ log[j].agent = a => j <= i
  BY <1>1, NewestOf
<1>3. log \in Seq(Event)
  BY DEF LogTypes
<1>4. \A j \in DOMAIN log : j > i => ~(log[j].ev = "recovered" /\ log[j].agent = a)
  BY <1>2, <1>3 DEF Transient
<1> QED
  BY <1>1, <1>2, <1>4 DEF OpenIn, Troubled


----------------------------------------------------------------------------
(* A recovery is announced once.                                           *)

(* Whatever serve is about to announce as over is open.                    *)
OpenInv ==
    /\ LogTypes
    /\ regime \in {"skip", "back_off", "stop", "launch"} /\ used \subseteq Agents
    /\ pc = "round" => ran \in Agents
    /\ OnceIn(log)
    /\ pc # "emit" => cleared = {}
    /\ \A a \in cleared : a \in Agents /\ OpenIn(log, a)
    /\ pc = "sleep" => nap.agent \in Agents /\ OpenIn(log, nap.agent)

LEMMA InitIsOpen == Init => OpenInv
<1> SUFFICES ASSUME Init PROVE OpenInv
  OBVIOUS
<1>1. regime \in {"skip", "back_off", "stop", "launch"} /\ used \subseteq Agents
  <2>1. PICK d \in Deployments : regime = d.regime /\ used = d.used
    BY DEF Init
  <2> QED
    BY <2>1, ThrottleAssumption
<1>2. log = <<>> /\ month = 0 /\ now = 0 /\ pc = "top" /\ cleared = {}
  BY DEF Init
<1>3. log \in Seq(Event) /\ Len(log) = 0 /\ DOMAIN log = {}
  BY <1>2
<1> QED
  BY <1>1, <1>2, <1>3 DEF OpenInv, LogTypes, OnceIn

(* One more event.                                                         *)
LEMMA EmitAppends ==
  ASSUME OpenInv, NEW e \in Event, log' = Append(log, e), month' = month, now' = now,
         e.ev = "recovered" => OpenIn(log, e.agent)
  PROVE  /\ LogTypes' /\ OnceIn(log')
         /\ \A a : OpenIn(log, a) /\ ~(e.ev = "recovered" /\ e.agent = a) => OpenIn(log', a)
<1>1. PICK t : t = log'
  OBVIOUS
<1>2. log \in Seq(Event) /\ OnceIn(log) /\ month \in 0..Len(log) /\ now \in Nat
  BY DEF OpenInv, LogTypes
<1>3. t = Append(log, e)
  BY <1>1
<1>4. t \in Seq(Event) /\ Len(t) = Len(log) + 1 /\ Len(log) \in Nat
  BY <1>2, <1>3
<1>5. OnceIn(t)
  BY <1>2, <1>3, OnceStays
<1>6. \A a : OpenIn(log, a) /\ ~(e.ev = "recovered" /\ e.agent = a) => OpenIn(t, a)
  BY <1>2, <1>3, OpenStays
<1>7. month \in 0..Len(t)
  BY <1>2, <1>4
<1>8. log' \in Seq(Event) /\ month' \in 0..Len(log') /\ now' \in Nat
  BY <1>1, <1>2, <1>4, <1>7
<1> QED
  BY <1>1, <1>5, <1>6, <1>8 DEF LogTypes

LEMMA ReportIsEvent ==
  ASSUME OpenInv, NEW a \in Agents, Reports(a)
  PROVE  \E e \in Event : log' = Append(log, e) /\ e.ev # "recovered"
<1>1. now \in Nat /\ BASE \in Nat /\ AccountResets \subseteq Nat
  BY ThrottleAssumption DEF OpenInv, LogTypes
<1>2. CASE EmitBare("success", a)
  BY <1>2 DEF EmitBare, Emit, Event
<1>3. CASE Emit("detected", a, "model", now + BASE, now)
  BY <1>1, <1>3 DEF Emit, Event
<1>4. CASE \E r \in AccountResets : Emit("detected", a, "account", now + r, now)
  <2>1. PICK r \in AccountResets : Emit("detected", a, "account", now + r, now)
    BY <1>4
  <2>2. now + r \in Nat
    BY <1>1
  <2> QED
    BY <1>1, <2>1, <2>2 DEF Emit, Event
<1> QED
  BY <1>2, <1>3, <1>4 DEF Reports

LEMMA OpenStep == OpenInv /\ [Next]_vars => OpenInv'
<1> SUFFICES ASSUME OpenInv, [Next]_vars PROVE OpenInv'
  OBVIOUS
<1>1. ASSUME log' = log, month' = month, now' \in Nat, UNCHANGED <<regime, used>>,
             pc' = "round" => ran' \in Agents,
             pc' # "emit" => cleared' = {},
             \A a \in cleared' : a \in Agents /\ OpenIn(log, a),
             pc' = "sleep" => nap'.agent \in Agents /\ OpenIn(log, nap'.agent)
      PROVE  OpenInv'
  BY <1>1 DEF OpenInv, LogTypes
<1>2. CASE UNCHANGED vars
  <2>1. UNCHANGED <<log, month, now, regime, used, pc, ran, cleared, nap>>
    BY <1>2, Zenon DEF vars
  <2> QED
    BY <1>1, <2>1 DEF OpenInv, LogTypes
<1>3. CASE SkipScan
  <2>1. UNCHANGED <<log, month, now, regime, used, ran, cleared, nap>> /\ pc = "top" /\ pc' = "scan"
    BY <1>3, Zenon DEF SkipScan
  <2> QED
    BY <1>1, <2>1 DEF OpenInv, LogTypes
<1>4. CASE SkipRescan
  <2>1. /\ UNCHANGED <<log, month, now, regime, used, ran, nap>> /\ cleared' = PendingRecovered(active)
        /\ pc' = IF cleared' = {} THEN "select" ELSE "emit"
    BY <1>4, Zenon DEF SkipRescan
  <2>2. \A a \in cleared' : a \in Agents /\ OpenIn(log, a)
    BY <2>1, PendingIsOpen DEF OpenInv
  <2> QED
    BY <1>1, <2>1, <2>2 DEF OpenInv, LogTypes
<1>5. CASE EmitRecovered
  <2>1. PICK a \in cleared : EmitBare("recovered", a) /\ cleared' = cleared \ {a}
    BY <1>5 DEF EmitRecovered
  <2>2. /\ UNCHANGED <<regime, used, month, now, nap>> /\ pc' = IF cleared' = {} THEN "select" ELSE "emit"
    BY <1>5, Zenon DEF EmitRecovered
  <2>3. PICK e \in Event : log' = Append(log, e) /\ e.ev = "recovered" /\ e.agent = a
    BY <2>1 DEF EmitBare, Emit, Event, OpenInv
  <2>4. OpenIn(log, a)
    BY DEF OpenInv
  <2>5. /\ LogTypes' /\ OnceIn(log')
        /\ \A b : OpenIn(log, b) /\ b # a => OpenIn(log', b)
    BY <2>2, <2>3, <2>4, EmitAppends
  <2>6. \A b \in cleared' : b \in Agents /\ OpenIn(log', b)
    BY <2>1, <2>5 DEF OpenInv
  <2> QED
    BY <2>2, <2>5, <2>6 DEF OpenInv
<1>6. CASE SkipSelect
  <2>1. /\ UNCHANGED <<log, month, now, regime, used, cleared, nap>> /\ pc = "select"
        /\ \/ pc' \in {"paused", "down"}
           \/ pc' = "round" /\ ran' \in used
    BY <1>6 DEF SkipSelect, Launch
  <2> QED
    BY <1>1, <2>1 DEF OpenInv, LogTypes
<1>7. CASE PauseEnds
  <2>1. UNCHANGED <<log, month, now, regime, used, ran, cleared, nap>> /\ pc = "paused" /\ pc' = "top"
    BY <1>7, Zenon DEF PauseEnds
  <2> QED
    BY <1>1, <2>1 DEF OpenInv, LogTypes
<1>8. CASE GateThrottle
  <2>1. UNCHANGED <<log, month, now, regime, used, cleared>> /\ pc = "top"
    BY <1>8, Zenon DEF GateThrottle
  <2>2. \/ pc' = "round" /\ ran' \in used
        \/ pc' = "sleep" /\ CheckThrottleState # NoState /\ nap'.agent = CheckThrottleState.agent
        \/ pc' = "down"
    <3>1. PICK t : t = CheckThrottleState
      OBVIOUS
    <3>2. CASE t = NoState \/ regime = "launch"
      <4>1. \E a \in used : Launch(a)
        BY <1>8, <3>1, <3>2 DEF GateThrottle
      <4> QED
        BY <4>1 DEF Launch
    <3>3. CASE t # NoState /\ regime = "back_off"
      <4>1. PICK deadline, left : /\ pc' = "sleep"
                                  /\ nap' = [agent |-> t.agent, deadline |-> deadline, left |-> left]
        BY <1>8, <3>1, <3>3 DEF GateThrottle
      <4> QED
        BY <3>1, <3>3, <4>1
    <3>4. CASE t # NoState /\ regime = "stop"
      BY <1>8, <3>1, <3>4 DEF GateThrottle
    <3>5. regime \in {"back_off", "stop", "launch"}
      BY <1>8 DEF GateThrottle, OpenInv
    <3> QED
      BY <3>2, <3>3, <3>4, <3>5
  <2>3. CheckThrottleState # NoState =>
            CheckThrottleState.agent \in Agents /\ OpenIn(log, CheckThrottleState.agent)
    <3>1. SUFFICES ASSUME CheckThrottleState # NoState
                   PROVE  CheckThrottleState.agent \in Agents /\ OpenIn(log, CheckThrottleState.agent)
      OBVIOUS
    <3>2. PICK d : d = LatestUnrecoveredDetected
      OBVIOUS
    <3>3. d.ev # "none" /\ CheckThrottleState.agent = d.agent
      BY <3>1, <3>2 DEF CheckThrottleState
    <3>4. d \in Event /\ OpenIn(log, d.agent)
      BY <3>2, <3>3, ScalarIsOpen DEF OpenInv
    <3> QED
      BY <3>3, <3>4 DEF Event
  <2> QED
    BY <1>1, <2>1, <2>2, <2>3 DEF OpenInv, LogTypes
<1>9. CASE BackOffEnds
  <2>1. /\ UNCHANGED <<regime, used, month, now, cleared>> /\ pc = "sleep"
        /\ EmitBare("recovered", nap.agent) /\ \E a \in used : Launch(a)
    BY <1>9, Zenon DEF BackOffEnds
  <2>2. PICK e \in Event : log' = Append(log, e) /\ e.ev = "recovered" /\ e.agent = nap.agent
    BY <2>1 DEF EmitBare, Emit, Event, OpenInv
  <2>3. LogTypes' /\ OnceIn(log')
    BY <2>1, <2>2, EmitAppends DEF OpenInv
  <2>4. /\ cleared' = {} /\ pc' = "round" /\ ran' \in Agents
        /\ used' \subseteq Agents /\ regime' = regime
    BY <2>1 DEF Launch, OpenInv
  <2> QED
    BY <2>3, <2>4 DEF OpenInv
<1>10. CASE ServeDies
  <2>1. UNCHANGED <<log, month, now, regime, used>> /\ pc' = "down" /\ cleared' = {}
    BY <1>10, Zenon DEF ServeDies
  <2> QED
    BY <1>1, <2>1 DEF OpenInv, LogTypes
<1>11. CASE ServeStarts
  <2>1. UNCHANGED <<log, month, now, regime, used, cleared>> /\ pc = "down" /\ pc' = "top"
    BY <1>11, Zenon DEF ServeStarts
  <2> QED
    BY <1>1, <2>1 DEF OpenInv, LogTypes
<1>12. CASE RoundEnds
  <2>1. UNCHANGED <<regime, used, month, now, cleared, nap>> /\ pc = "round" /\ pc' = "top" /\ Reports(ran)
    BY <1>12, Zenon DEF RoundEnds
  <2>2. PICK e \in Event : log' = Append(log, e) /\ e.ev # "recovered"
    BY <2>1, ReportIsEvent DEF OpenInv
  <2>3. LogTypes' /\ OnceIn(log')
    BY <2>1, <2>2, EmitAppends
  <2> QED
    BY <2>1, <2>3 DEF OpenInv
<1>13. CASE OtherRoundEnds
  <2>1. UNCHANGED <<regime, used, month, now, pc, ran, cleared, nap>> /\ \E a \in used : Reports(a)
    BY <1>13, Zenon DEF OtherRoundEnds
  <2>2. PICK e \in Event : log' = Append(log, e) /\ e.ev # "recovered"
    BY <2>1, ReportIsEvent DEF OpenInv
  <2>3. LogTypes' /\ OnceIn(log') /\ \A a : OpenIn(log, a) => OpenIn(log', a)
    BY <2>1, <2>2, EmitAppends
  <2>4. pc # "round" /\ pc' # "round"
    BY <1>13, <2>1 DEF OtherRoundEnds
  <2> QED
    BY <2>1, <2>3, <2>4 DEF OpenInv
<1>14. CASE MonthTurns
  <2>1. UNCHANGED <<log, now, regime, used, pc, ran, cleared, nap>> /\ month' = Len(log)
    BY <1>14, Zenon DEF MonthTurns
  <2>2. month' \in 0..Len(log)
    BY <2>1 DEF OpenInv, LogTypes
  <2> QED
    BY <2>1, <2>2 DEF OpenInv, LogTypes
<1>15. CASE Tick
  <2>1. UNCHANGED <<log, month, regime, used, pc, ran, cleared>> /\ now' = now + 1
    BY <1>15, Zenon DEF Tick
  <2>2. pc = "sleep" => nap'.agent = nap.agent
    BY <1>15 DEF Tick
  <2> QED
    BY <1>1, <2>1, <2>2 DEF OpenInv, LogTypes
<1>16. CASE ClockCorrected
  <2>1. UNCHANGED <<log, month, regime, used, pc, ran, cleared, nap>> /\ now' = now + 2
    BY <1>16, Zenon DEF ClockCorrected
  <2> QED
    BY <1>1, <2>1 DEF OpenInv, LogTypes
<1> QED
  BY <1>2, <1>3, <1>4, <1>5, <1>6, <1>7, <1>8, <1>9, <1>10, <1>11, <1>12, <1>13,
     <1>14, <1>15, <1>16 DEF Next

LEMMA OpenAlways == Spec => []OpenInv
<1>1. Init => OpenInv
  BY InitIsOpen
<1>2. OpenInv /\ [Next]_vars => OpenInv'
  BY OpenStep
<1> QED
  BY <1>1, <1>2, PTL DEF Spec

(* Between two announcements of one agent's recovery there is a detection,  *)
(* for any number of events, whatever foreign rounds report and wherever    *)
(* serve dies or the month turns (pending_recovered).                       *)
THEOREM RecoveryAnnouncedOnce == Spec => []RecoveredOnce
<1>1. OpenInv => RecoveredOnce
  BY DEF OpenInv, OnceIn, RecoveredOnce
<1> QED
  BY <1>1, OpenAlways, PTL


----------------------------------------------------------------------------
(* Dictionaries that a scan builds event by event.                         *)

LEMMA InductionUpTo ==
  ASSUME NEW N \in Nat, NEW S, 0 \in S,
         \A n \in 1..N : n - 1 \in S => n \in S
  PROVE  \A n \in 0..N : n \in S
<1> DEFINE T == {n \in Nat : n <= N => n \in S}
<1>1. 0 \in T
  OBVIOUS
<1>2. \A n \in Nat : n \in T => n + 1 \in T
  <2> SUFFICES ASSUME NEW n \in Nat, n \in T, n + 1 <= N PROVE n + 1 \in S
    OBVIOUS
  <2>1. n \in S /\ n + 1 \in 1..N /\ (n + 1) - 1 = n
    OBVIOUS
  <2> QED
    BY <2>1
<1>3. Nat \subseteq T
  <2> HIDE DEF T
  <2> QED
    BY <1>1, <1>2, Induction
<1> QED
  BY <1>3

(* f is the scan of N events that starts from v and has the step g; it      *)
(* exists.                                                                 *)
IsStep(g, N, V) == g \in [(1..N) \X V -> V]
IsScan(f, g, N, V, v) ==
    f \in [0..N -> V] /\ f[0] = v /\ \A n \in 1..N : f[n] = g[<<n, f[n - 1]>>]

LEMMA ScanExists ==
  ASSUME NEW N \in Nat, NEW V, NEW v \in V, NEW g, IsStep(g, N, V)
  PROVE  \E f : IsScan(f, g, N, V, v)
<1> DEFINE S == {n \in 0..N : \E f : IsScan(f, g, n, V, v)}
<1>1. 0 \in S
  <2>1. IsScan([k \in 0..0 |-> v], g, 0, V, v)
    BY DEF IsScan
  <2> QED
    BY <2>1
<1>2. ASSUME NEW n \in 1..N, n - 1 \in S PROVE n \in S
  <2>1. PICK f : IsScan(f, g, n - 1, V, v)
    BY <1>2
  <2>2. PICK w : w = g[<<n, f[n - 1]>>]
    OBVIOUS
  <2>3. f[n - 1] \in V
    BY <2>1 DEF IsScan
  <2>4. w \in V
    BY <2>2, <2>3 DEF IsStep
  <2>5. PICK h : h = [k \in 0..n |-> IF k = n THEN w ELSE f[k]]
    OBVIOUS
  <2>6. \A k \in 0..(n - 1) : h[k] = f[k] /\ f[k] \in V
    BY <2>1, <2>5 DEF IsScan
  <2>7. h \in [0..n -> V]
    <3>1. \A k \in 0..n : k = n \/ k \in 0..(n - 1)
      OBVIOUS
    <3> QED
      BY <2>4, <2>5, <2>6, <3>1
  <2>8. h[0] = v
    BY <2>1, <2>6 DEF IsScan
  <2>9. ASSUME NEW k \in 1..n PROVE h[k] = g[<<k, h[k - 1]>>]
    <3>1. k - 1 \in 0..(n - 1)
      OBVIOUS
    <3>2. CASE k = n
      <4>1. h[n] = w /\ h[n - 1] = f[n - 1]
        BY <2>5, <2>6, <3>1, <3>2
      <4> QED
        BY <2>2, <3>2, <4>1
    <3>3. CASE k \in 1..(n - 1)
      <4>1. f[k] = g[<<k, f[k - 1]>>]
        BY <2>1, <3>3 DEF IsScan
      <4> QED
        BY <2>6, <3>1, <3>3, <4>1
    <3> QED
      BY <3>2, <3>3
  <2>10. IsScan(h, g, n, V, v)
    BY <2>7, <2>8, <2>9 DEF IsScan
  <2> QED
    BY <2>10
<1>3. N \in S
  <2>1. \A n \in 0..N : n \in S
    <3> HIDE DEF S
    <3> QED
      BY <1>1, <1>2, InductionUpTo
  <2> QED
    BY <2>1
<1> QED
  BY <1>3

(* The count of one agent.                                                 *)
NextCount(agent, e, count) ==
    IF e.agent # agent THEN count
    ELSE IF e.ev = "detected" THEN count + 1
    ELSE IF e.ev = "success" THEN 0 ELSE count

LEMMA CountOfAgent ==
  ASSUME LogTypes, NEW a
  PROVE  /\ Detections(a) \in [0..Len(log) -> Nat]
         /\ Detections(a)[0] = 0
         /\ \A n \in 1..Len(log) :
               Detections(a)[n] = NextCount(a, log[n], Detections(a)[n - 1])
<1> DEFINE Body(c) == [n \in 0..Len(log) |-> IF n = 0 THEN 0 ELSE NextCount(a, log[n], c[n - 1])]
<1>1. Len(log) \in Nat
  BY DEF LogTypes
<1>2. PICK N \in Nat : N = Len(log)
  BY <1>1
<1>3. PICK g : g = [p \in (1..N) \X Nat |-> NextCount(a, log[p[1]], p[2])]
  OBVIOUS
<1>4. IsStep(g, N, Nat)
  BY <1>3 DEF NextCount, IsStep
<1>5. PICK f : IsScan(f, g, N, Nat, 0)
  BY <1>4, ScanExists, 0 \in Nat
<1>6. /\ f \in [0..N -> Nat] /\ f[0] = 0
      /\ \A n \in 1..N : f[n] = NextCount(a, log[n], f[n - 1])
  <2>1. f \in [0..N -> Nat] /\ f[0] = 0
    BY <1>5 DEF IsScan
  <2>2. ASSUME NEW n \in 1..N PROVE f[n] = NextCount(a, log[n], f[n - 1])
    <3>1. n - 1 \in 0..N
      OBVIOUS
    <3>2. <<n, f[n - 1]>> \in (1..N) \X Nat
      BY <2>1, <3>1
    <3>3. f[n] = g[<<n, f[n - 1]>>]
      BY <1>5 DEF IsScan
    <3> QED
      BY <1>3, <3>2, <3>3
  <2> QED
    BY <2>1, <2>2
<1>7. f = Body(f)
  <2>1. \A n \in 0..N : n = 0 \/ n \in 1..N
    OBVIOUS
  <2> QED
    BY <1>2, <1>6, <2>1
<1>8. Detections(a) = CHOOSE c : c = Body(c)
  BY DEF Detections, NextCount, TailEvents
<1>9. PICK c : c = Detections(a)
  OBVIOUS
<1>10. c = Body(c)
  <2> HIDE DEF Body
  <2> QED
    BY <1>7, <1>8, <1>9
<1>11. /\ DOMAIN c = 0..N /\ c[0] = 0
       /\ \A n \in 1..N : c[n] = NextCount(a, log[n], c[n - 1])
  <2>1. \A n \in 1..N : n \in 0..N /\ n # 0
    OBVIOUS
  <2>2. 0 \in 0..N
    OBVIOUS
  <2>3. PICK F : F = Body(c)
    OBVIOUS
  <2>4. /\ DOMAIN F = 0..N
        /\ \A n \in 0..N : F[n] = IF n = 0 THEN 0 ELSE NextCount(a, log[n], c[n - 1])
    BY <1>2, <2>3
  <2> HIDE DEF Body
  <2> QED
    BY <1>10, <2>1, <2>2, <2>3, <2>4
<1>12. \A n \in 0..N : c[n] \in Nat
  <2> DEFINE S == {n \in 0..N : c[n] \in Nat}
  <2>1. 0 \in S
    BY <1>11
  <2>2. \A n \in 1..N : n - 1 \in S => n \in S
    BY <1>11 DEF NextCount
  <2>3. \A n \in 0..N : n \in S
    <3> HIDE DEF S
    <3> QED
      BY <2>1, <2>2, InductionUpTo
  <2> QED
    BY <2>3
<1>13. c \in [0..N -> Nat]
  <2>1. c = [n \in 0..N |-> c[n]]
    BY <1>10, <1>11
  <2> QED
    BY <1>12, <2>1
<1> QED
  BY <1>2, <1>9, <1>11, <1>13


(* The counts of all agents at once.                                       *)
Touched ==
    {a \in Agents : \E i \in DOMAIN log : log[i].ev # "recovered" /\ log[i].agent = a}

LEMMA FoldIsPointwise ==
  ASSUME NEW T, NEW c \in [T -> Nat], NEW e \in Event, e.ev # "recovered" => e.agent \in T
  PROVE  /\ FoldCounts(c, e) \in [T -> Nat]
         /\ \A a \in T : FoldCounts(c, e)[a] = NextCount(a, e, c[a])
<1>1. CASE e.ev = "detected"
  <2>1. FoldCounts(c, e) = [c EXCEPT ![e.agent] = @ + 1] /\ e.agent \in T
    BY <1>1 DEF FoldCounts
  <2> QED
    BY <1>1, <2>1 DEF NextCount
<1>2. CASE e.ev = "success"
  <2>1. FoldCounts(c, e) = [c EXCEPT ![e.agent] = 0] /\ e.agent \in T
    BY <1>2 DEF FoldCounts
  <2> QED
    BY <1>2, <2>1 DEF NextCount
<1>3. CASE e.ev = "recovered"
  BY <1>3 DEF FoldCounts, NextCount
<1> QED
  BY <1>1, <1>2, <1>3 DEF Event

LEMMA CountOfAll ==
  ASSUME LogTypes
  PROVE  /\ DetectedCount[0] = [a \in Touched |-> 0]
         /\ \A n \in 1..Len(log) : DetectedCount[n] = FoldCounts(DetectedCount[n - 1], log[n])
<1> DEFINE Body(c) == [n \in 0..Len(log) |->
                          IF n = 0 THEN [a \in Touched |-> 0] ELSE FoldCounts(c[n - 1], log[n])]
<1>1. PICK N \in Nat : N = Len(log)
  BY DEF LogTypes
<1>2. PICK V, v : V = [Touched -> Nat] /\ v = [a \in Touched |-> 0]
  OBVIOUS
<1>3. PICK g : g = [p \in (1..N) \X V |-> FoldCounts(p[2], log[p[1]])]
  OBVIOUS
<1>4. ASSUME NEW n \in 1..N, NEW c \in V PROVE FoldCounts(c, log[n]) \in V
  <2>1. log[n] \in Event /\ n \in DOMAIN log
    BY <1>1 DEF LogTypes
  <2>2. log[n].ev # "recovered" => log[n].agent \in Touched
    BY <2>1 DEF Touched, Event
  <2> QED
    BY <1>2, <2>1, <2>2, FoldIsPointwise
<1>5. IsStep(g, N, V)
  BY <1>3, <1>4 DEF IsStep
<1>6. PICK f : IsScan(f, g, N, V, v)
  BY <1>2, <1>5, ScanExists, v \in V
<1>7. /\ f \in [0..N -> V] /\ f[0] = v
      /\ \A n \in 1..N : f[n] = FoldCounts(f[n - 1], log[n])
  <2>1. f \in [0..N -> V] /\ f[0] = v
    BY <1>6 DEF IsScan
  <2>2. ASSUME NEW n \in 1..N PROVE f[n] = FoldCounts(f[n - 1], log[n])
    <3>1. n - 1 \in 0..N
      OBVIOUS
    <3>2. <<n, f[n - 1]>> \in (1..N) \X V
      BY <2>1, <3>1
    <3>3. f[n] = g[<<n, f[n - 1]>>]
      BY <1>6 DEF IsScan
    <3> QED
      BY <1>3, <3>2, <3>3
  <2> QED
    BY <2>1, <2>2
<1>8. f = Body(f)
  <2>1. \A n \in 0..N : n = 0 \/ n \in 1..N
    OBVIOUS
  <2> QED
    BY <1>1, <1>2, <1>7, <2>1
<1>9. DetectedCount = CHOOSE c : c = Body(c)
  BY DEF DetectedCount, Touched, TailEvents
<1>10. PICK c : c = DetectedCount
  OBVIOUS
<1>11. c = Body(c)
  <2> HIDE DEF Body
  <2> QED
    BY <1>8, <1>9, <1>10
<1>12. c[0] = v /\ \A n \in 1..N : c[n] = FoldCounts(c[n - 1], log[n])
  <2>1. \A n \in 1..N : n \in 0..N /\ n # 0
    OBVIOUS
  <2>2. 0 \in 0..N
    OBVIOUS
  <2>3. PICK F : F = Body(c)
    OBVIOUS
  <2>4. \A n \in 0..N : F[n] = IF n = 0 THEN v ELSE FoldCounts(c[n - 1], log[n])
    BY <1>1, <1>2, <2>3
  <2> HIDE DEF Body
  <2> QED
    BY <1>11, <2>1, <2>2, <2>3, <2>4
<1> QED
  BY <1>1, <1>2, <1>10, <1>12

(* Counting all agents in one scan or each in its own makes no difference.  *)
LEMMA CountsAgree ==
  ASSUME LogTypes
  PROVE  /\ DetectedCount[Len(log)] \in [Touched -> Nat]
         /\ \A a \in Touched : DetectedCount[Len(log)][a] = Detections(a)[Len(log)]
<1>1. PICK N \in Nat : N = Len(log)
  BY DEF LogTypes
<1>2. PICK c : c = DetectedCount
  OBVIOUS
<1> DEFINE S == {n \in 0..N : /\ c[n] \in [Touched -> Nat]
                              /\ \A a \in Touched : c[n][a] = Detections(a)[n]}
<1>3. c[0] = [a \in Touched |-> 0] /\ \A n \in 1..N : c[n] = FoldCounts(c[n - 1], log[n])
  BY <1>1, <1>2, CountOfAll
<1>4. \A a : Detections(a)[0] = 0
  BY CountOfAgent
<1>5. 0 \in S
  BY <1>3, <1>4
<1>6. ASSUME NEW n \in 1..N, n - 1 \in S PROVE n \in S
  <2>1. log[n] \in Event /\ n \in DOMAIN log
    BY <1>1 DEF LogTypes
  <2>2. log[n].ev # "recovered" => log[n].agent \in Touched
    BY <2>1 DEF Touched, Event
  <2>3. PICK b \in [Touched -> Nat] : b = c[n - 1]
    BY <1>6
  <2>4. /\ c[n] \in [Touched -> Nat]
        /\ \A a \in Touched : c[n][a] = NextCount(a, log[n], b[a])
    BY <1>3, <2>1, <2>2, <2>3, FoldIsPointwise
  <2>5. \A a \in Touched : b[a] = Detections(a)[n - 1]
    BY <1>6, <2>3
  <2>6. \A a \in Touched : Detections(a)[n] = NextCount(a, log[n], Detections(a)[n - 1])
    BY <1>1, CountOfAgent
  <2>7. \A a \in Touched : c[n][a] = Detections(a)[n]
    BY <2>4, <2>5, <2>6
  <2> QED
    BY <2>4, <2>7
<1>7. \A n \in 0..N : n \in S
  <2> HIDE DEF S
  <2> QED
    BY <1>5, <1>6, InductionUpTo
<1>8. N \in S
  BY <1>7
<1> QED
  BY <1>1, <1>2, <1>8


(* The newest transient event of every agent, in one scan.                 *)
TransientOf(i, a) == log[i].ev \in Transient /\ log[i].agent = a

NewestUpTo(a, n, x) ==
    \/ (\A i \in 1..n : ~TransientOf(i, a)) /\ x = [ev |-> "none"]
    \/ \E i \in 1..n : /\ TransientOf(i, a) /\ x = log[i]
                       /\ \A j \in 1..n : TransientOf(j, a) => j <= i

NextTransient(map, e) ==
    IF e.ev \in Transient THEN [map EXCEPT ![e.agent] = e] ELSE map

LEMMA FoldOfTransients ==
  ASSUME LogTypes
  PROVE  /\ FoldTransient[0] = [a \in Troubled |-> [ev |-> "none"]]
         /\ \A n \in 1..Len(log) : FoldTransient[n] = NextTransient(FoldTransient[n - 1], log[n])
         /\ \A n \in 0..Len(log) : FoldTransient[n] \in [Troubled -> Event \cup {[ev |-> "none"]}]
<1> DEFINE Body(c) == [n \in 0..Len(log) |->
                          IF n = 0 THEN [a \in Troubled |-> [ev |-> "none"]]
                          ELSE NextTransient(c[n - 1], log[n])]
<1>1. PICK N \in Nat : N = Len(log)
  BY DEF LogTypes
<1>2. PICK V, v, X : /\ X = Event \cup {[ev |-> "none"]}
                     /\ V = [Troubled -> X] /\ v = [a \in Troubled |-> [ev |-> "none"]]
  OBVIOUS
<1>3. PICK g : g = [p \in (1..N) \X V |-> NextTransient(p[2], log[p[1]])]
  OBVIOUS
<1>4. ASSUME NEW n \in 1..N, NEW c \in V PROVE NextTransient(c, log[n]) \in V
  <2>1. log[n] \in X
    BY <1>1, <1>2 DEF LogTypes
  <2>2. PICK e : e = log[n]
    OBVIOUS
  <2>3. [c EXCEPT ![e.agent] = e] \in V
    BY <1>2, <2>1, <2>2
  <2> QED
    BY <2>2, <2>3 DEF NextTransient
<1>5. IsStep(g, N, V)
  BY <1>3, <1>4 DEF IsStep
<1>6. v \in V
  BY <1>2
<1>7. PICK f : IsScan(f, g, N, V, v)
  BY <1>5, <1>6, ScanExists
<1>8. /\ f \in [0..N -> V] /\ f[0] = v
      /\ \A n \in 1..N : f[n] = NextTransient(f[n - 1], log[n])
  <2>1. f \in [0..N -> V] /\ f[0] = v
    BY <1>7 DEF IsScan
  <2>2. ASSUME NEW n \in 1..N PROVE f[n] = NextTransient(f[n - 1], log[n])
    <3>1. n - 1 \in 0..N
      OBVIOUS
    <3>2. <<n, f[n - 1]>> \in (1..N) \X V
      BY <2>1, <3>1
    <3>3. f[n] = g[<<n, f[n - 1]>>]
      BY <1>7 DEF IsScan
    <3> QED
      BY <1>3, <3>2, <3>3
  <2> QED
    BY <2>1, <2>2
<1>9. f = Body(f)
  <2>1. \A n \in 0..N : n = 0 \/ n \in 1..N
    OBVIOUS
  <2> QED
    BY <1>1, <1>2, <1>8, <2>1
<1>10. FoldTransient = CHOOSE c : c = Body(c)
  BY DEF FoldTransient, NextTransient, TailEvents
<1>11. PICK c : c = FoldTransient
  OBVIOUS
<1>12. c = Body(c)
  <2> HIDE DEF Body
  <2> QED
    BY <1>9, <1>10, <1>11
<1>13. c[0] = v /\ \A n \in 1..N : c[n] = NextTransient(c[n - 1], log[n])
  <2>1. \A n \in 1..N : n \in 0..N /\ n # 0
    OBVIOUS
  <2>2. 0 \in 0..N
    OBVIOUS
  <2>3. PICK F : F = Body(c)
    OBVIOUS
  <2>4. \A n \in 0..N : F[n] = IF n = 0 THEN v ELSE NextTransient(c[n - 1], log[n])
    BY <1>1, <1>2, <2>3
  <2> HIDE DEF Body
  <2> QED
    BY <1>12, <2>1, <2>2, <2>3, <2>4
<1>14. \A n \in 0..N : c[n] \in V
  <2> DEFINE S == {n \in 0..N : c[n] \in V}
  <2>1. 0 \in S
    BY <1>6, <1>13
  <2>2. \A n \in 1..N : n - 1 \in S => n \in S
    BY <1>4, <1>13
  <2>3. \A n \in 0..N : n \in S
    <3> HIDE DEF S
    <3> QED
      BY <2>1, <2>2, InductionUpTo
  <2> QED
    BY <2>3
<1> QED
  BY <1>1, <1>2, <1>11, <1>13, <1>14

LEMMA FoldKeepsNewest ==
  ASSUME LogTypes, NEW a \in Troubled
  PROVE  NewestUpTo(a, Len(log), FoldTransient[Len(log)][a])
<1>1. PICK N \in Nat : N = Len(log)
  BY DEF LogTypes
<1>2. PICK c : c = FoldTransient
  OBVIOUS
<1>3. /\ c[0] = [b \in Troubled |-> [ev |-> "none"]]
      /\ \A n \in 1..N : c[n] = NextTransient(c[n - 1], log[n])
      /\ \A n \in 0..N : c[n] \in [Troubled -> Event \cup {[ev |-> "none"]}]
  BY <1>1, <1>2, FoldOfTransients
<1> DEFINE S == {n \in 0..N : NewestUpTo(a, n, c[n][a])}
<1>4. 0 \in S
  <2>1. c[0][a] = [ev |-> "none"]
    BY <1>3
  <2> QED
    BY <2>1 DEF NewestUpTo
<1>5. ASSUME NEW n \in 1..N, n - 1 \in S PROVE n \in S
  <2>1. PICK x : x = c[n - 1][a]
    OBVIOUS
  <2>2. NewestUpTo(a, n - 1, x)
    BY <1>5, <2>1
  <2>3. n - 1 \in 0..N
    OBVIOUS
  <2>4. PICK old, X : old = c[n - 1] /\ old \in [Troubled -> X]
    BY <1>3, <2>3
  <2>5. CASE TransientOf(n, a)
    <3>1. c[n] = [old EXCEPT ![a] = log[n]]
      BY <1>3, <2>4, <2>5 DEF NextTransient, TransientOf
    <3>2. c[n][a] = log[n]
      BY <2>4, <3>1
    <3>3. n \in 1..n /\ \A j \in 1..n : TransientOf(j, a) => j <= n
      OBVIOUS
    <3>4. NewestUpTo(a, n, log[n])
      BY <2>5, <3>3 DEF NewestUpTo
    <3> QED
      BY <3>2, <3>4
  <2>6. CASE ~TransientOf(n, a)
    <3>1. c[n][a] = x
      <4>1. CASE log[n].ev \in Transient
        <5>1. log[n].agent # a
          BY <2>6, <4>1 DEF TransientOf
        <5>2. c[n] = [old EXCEPT ![log[n].agent] = log[n]]
          BY <1>3, <2>4, <4>1 DEF NextTransient
        <5> QED
          BY <2>1, <2>4, <5>1, <5>2
      <4>2. CASE log[n].ev \notin Transient
        BY <1>3, <2>1, <4>2 DEF NextTransient
      <4> QED
        BY <4>1, <4>2
    <3>2. \A i \in 1..n : i \in 1..(n - 1) \/ i = n
      OBVIOUS
    <3>3. \A i \in 1..(n - 1) : i \in 1..n
      OBVIOUS
    <3>4. CASE (\A i \in 1..(n - 1) : ~TransientOf(i, a)) /\ x = [ev |-> "none"]
      BY <2>6, <3>1, <3>2, <3>4 DEF NewestUpTo
    <3>5. CASE \E i \in 1..(n - 1) : /\ TransientOf(i, a) /\ x = log[i]
                                     /\ \A j \in 1..(n - 1) : TransientOf(j, a) => j <= i
      <4>1. PICK i \in 1..(n - 1) : /\ TransientOf(i, a) /\ x = log[i]
                                    /\ \A j \in 1..(n - 1) : TransientOf(j, a) => j <= i
        BY <3>5
      <4>2. \A j \in 1..n : TransientOf(j, a) => j <= i
        BY <2>6, <3>2, <4>1
      <4>3. i \in 1..n
        BY <3>3
      <4> QED
        BY <3>1, <4>1, <4>2, <4>3 DEF NewestUpTo
    <3> QED
      BY <2>2, <3>4, <3>5 DEF NewestUpTo
  <2> QED
    BY <2>5, <2>6
<1>6. \A n \in 0..N : n \in S
  <2> HIDE DEF S
  <2> QED
    BY <1>4, <1>5, InductionUpTo
<1>7. N \in S
  BY <1>6
<1> QED
  BY <1>1, <1>2, <1>7

LEMMA TransientsAgree ==
  ASSUME LogTypes
  PROVE  FoldTransient[Len(log)] = LatestTransientPerAgent
<1>1. PICK N \in Nat : N = Len(log) /\ DOMAIN log = 1..N
  BY DEF LogTypes
<1>2. ASSUME NEW a \in Troubled
      PROVE  FoldTransient[N][a] = LatestTransientPerAgent[a]
  <2>1. PICK i \in 1..N : /\ LatestTransientPerAgent[a] = log[i] /\ TransientOf(i, a)
                          /\ \A j \in 1..N : TransientOf(j, a) => j <= i
    BY <1>1, NewestOf DEF TransientOf
  <2>2. PICK x : x = FoldTransient[N][a]
    OBVIOUS
  <2>3. NewestUpTo(a, N, x)
    BY <1>1, <2>2, FoldKeepsNewest
  <2>4. PICK k \in 1..N : /\ TransientOf(k, a) /\ x = log[k]
                          /\ \A j \in 1..N : TransientOf(j, a) => j <= k
    BY <2>1, <2>3 DEF NewestUpTo
  <2>5. k = i
    <3>1. k <= i /\ i <= k
      BY <2>1, <2>4
    <3> QED
      BY <3>1
  <2> QED
    BY <2>1, <2>2, <2>4, <2>5
<1>3. PICK X : FoldTransient[N] \in [Troubled -> X]
  <2>1. N \in 0..N
    OBVIOUS
  <2> QED
    BY <1>1, <2>1, FoldOfTransients
<1>4. LatestTransientPerAgent = [a \in Troubled |-> LatestTransientPerAgent[a]]
  BY DEF LatestTransientPerAgent
<1>5. FoldTransient[N] = [a \in Troubled |-> FoldTransient[N][a]]
  BY <1>3
<1>6. FoldTransient[N] = LatestTransientPerAgent
  BY <1>2, <1>4, <1>5
<1> QED
  BY <1>1, <1>6


----------------------------------------------------------------------------
(* The one scan after a round and the separate scans.                      *)

(* The throttle that a detection stands for.                               *)
StateOf(e, exponents) ==
    [agent |-> e.agent, class |-> e.class,
     reset |-> EventsDerivedReset(e.agent, e.class, CoerceEpochInt(e.reset, 0), exponents)]

DetectedIn(latest) == {e \in {latest[a] : a \in DOMAIN latest} : e.ev = "detected"}

ThrottledIn(latest, exponents) ==
    {s \in {StateOf(e, exponents) : e \in DetectedIn(latest)} : s.reset > now}

ByAgent(throttled) ==
    [a \in {s.agent : s \in throttled} |-> CHOOSE s \in throttled : s.agent = a]

LEMMA ActiveThrottlesAre ==
  ASSUME NEW latest, NEW exponents
  PROVE  ActiveThrottles(latest, exponents) = ByAgent(ThrottledIn(latest, exponents))
BY DEF ByAgent, ActiveThrottles, ThrottledIn, DetectedIn, StateOf

(* A latest detection is an event of the log, of the agent it is kept for.  *)
LEMMA LatestDetected ==
  ASSUME LogTypes, NEW e \in DetectedIn(LatestTransientPerAgent)
  PROVE  /\ e \in Event /\ e.ev = "detected" /\ e.agent \in Touched
         /\ e.agent \in Troubled /\ LatestTransientPerAgent[e.agent] = e
<1>1. PICK a \in Troubled : e = LatestTransientPerAgent[a]
  BY DEF DetectedIn, LatestTransientPerAgent
<1>2. PICK i \in DOMAIN log : e = log[i] /\ log[i].agent = a
  BY <1>1, NewestOf
<1>3. e \in Event /\ e.ev = "detected"
  BY <1>2 DEF LogTypes, DetectedIn
<1>4. a \in Agents
  BY DEF Troubled
<1> QED
  BY <1>1, <1>2, <1>3, <1>4 DEF Touched

LEMMA ScanAgrees ==
  ASSUME LogTypes
  PROVE  RoundScan = ActiveNow
<1>1. PICK L : L = LatestTransientPerAgent
  OBVIOUS
<1>2. PICK counts : counts = DetectedCount[Len(log)]
  OBVIOUS
<1>3. PICK E : E = [a \in DOMAIN counts |-> LessOne(counts[a])]
  OBVIOUS
<1>4. RoundOutcome = [transient |-> L, exponents |-> E]
  BY <1>1, <1>2, <1>3, TransientsAgree DEF RoundOutcome, TailEvents
<1>5. RoundScan = ActiveThrottles(L, E)
  BY <1>4 DEF RoundScan
<1>6. \A a \in Touched : a \in DOMAIN E /\ E[a] = BackoffExponent(a)
  BY <1>2, <1>3, CountsAgree DEF BackoffExponent, TailEvents
<1>7. ASSUME NEW e \in DetectedIn(L) PROVE StateOf(e, E) = StateOf(e, NoCache)
  <2>1. PICK b : b = e.agent
    OBVIOUS
  <2>2. b \in Touched
    BY <1>1, <2>1, LatestDetected
  <2>3. b \in DOMAIN E /\ E[b] = BackoffExponent(b) /\ b \notin DOMAIN NoCache
    BY <1>6, <2>2 DEF NoCache
  <2>4. \A class, reset : EventsDerivedReset(b, class, reset, E) = EventsDerivedReset(b, class, reset, NoCache)
    BY <2>3 DEF EventsDerivedReset
  <2> QED
    BY <2>1, <2>4 DEF StateOf
<1>8. ThrottledIn(L, E) = ThrottledIn(L, NoCache)
  BY <1>7 DEF ThrottledIn
<1>9. ActiveThrottles(L, E) = ActiveThrottles(L, NoCache)
  BY <1>8, ActiveThrottlesAre
<1> QED
  BY <1>1, <1>5, <1>9 DEF ActiveNow

(* The single scan after a round (round_outcome) excuses the round by       *)
(* exactly the throttles that the scans of the gates find, after any number *)
(* of events: counts kept for all agents at once are the counts of each,    *)
(* and the last entry of each is its newest.                               *)
THEOREM OneScanFindsAll == Spec => []FoldAgrees
<1>1. OpenInv => FoldAgrees
  BY ScanAgrees DEF OpenInv, FoldAgrees
<1> QED
  BY <1>1, OpenAlways, PTL


----------------------------------------------------------------------------
(* What the operator sees and what the gate sees.                          *)

LEMMA LargestValue ==
  ASSUME NEW N \in Nat, NEW f \in [1..N -> Int], NEW S \in SUBSET (1..N), S # {}
  PROVE  \E i \in S : \A j \in S : f[j] <= f[i]
<1> DEFINE HasLargest(T) == \E i \in T : \A j \in T : f[j] <= f[i]
           P == {n \in 0..N : \A T \in SUBSET (1..n) : T # {} => HasLargest(T)}
<1>1. 0 \in P
  <2>1. \A T \in SUBSET (1..0) : T = {}
    OBVIOUS
  <2>2. 0 \in 0..N
    OBVIOUS
  <2> HIDE DEF HasLargest
  <2> QED
    BY <2>1, <2>2
<1>2. ASSUME NEW n \in 1..N, n - 1 \in P PROVE n \in P
  <2>1. SUFFICES ASSUME NEW T \in SUBSET (1..n), T # {} PROVE HasLargest(T)
    OBVIOUS
  <2>2. PICK R : R = T \ {n}
    OBVIOUS
  <2>3. R \in SUBSET (1..(n - 1))
    BY <2>2
  <2>4. \A i \in T : f[i] \in Int
    OBVIOUS
  <2>5. CASE R = {}
    <3>1. T = {n}
      BY <2>1, <2>2, <2>5
    <3> QED
      BY <2>4, <3>1
  <2>6. CASE R # {}
    <3>1. HasLargest(R)
      BY <1>2, <2>3, <2>6
    <3>2. PICK i \in R : \A j \in R : f[j] <= f[i]
      BY <3>1
    <3>3. CASE n \notin T
      <4>1. R = T
        BY <2>2, <3>3
      <4> QED
        BY <3>1, <4>1
    <3>4. CASE n \in T
      <4>1. i \in T /\ \A j \in T : j = n \/ j \in R
        BY <2>2
      <4>2. CASE f[n] <= f[i]
        BY <3>2, <4>1, <4>2
      <4>3. CASE ~(f[n] <= f[i])
        <5>1. \A j \in T : f[j] <= f[n]
          BY <2>4, <3>2, <3>4, <4>1, <4>3
        <5> QED
          BY <3>4, <5>1
      <4> QED
        BY <4>2, <4>3
    <3> QED
      BY <3>3, <3>4
  <2> QED
    BY <2>5, <2>6
<1>3. \A n \in 0..N : n \in P
  <2> HIDE DEF P
  <2> QED
    BY <1>1, <1>2, InductionUpTo
<1>4. N \in P
  <2>1. N \in 0..N
    OBVIOUS
  <2> HIDE DEF P
  <2> QED
    BY <1>3, <2>1
<1> QED
  BY <1>4

LEMMA ResetType ==
  ASSUME LogTypes, NEW e \in Event
  PROVE  StateOf(e, NoCache).reset \in Int
<1>1. /\ SANITY_S \in Nat /\ BASE \in Nat /\ EXP_CAP \in Nat /\ ABSOLUTE_CAP_S \in Nat
      /\ e.reset \in Nat
  BY ThrottleAssumption DEF Event
<1>2. CoerceEpochInt(e.reset, 0) \in Nat
  BY <1>1 DEF CoerceEpochInt
<1>3. BackoffExponent(e.agent) \in Nat
  <2>1. PICK N \in Nat : N = Len(log)
    BY DEF LogTypes
  <2>2. N \in 0..N
    OBVIOUS
  <2>3. Detections(e.agent)[N] \in Nat
    BY <2>1, <2>2, CountOfAgent
  <2> QED
    BY <2>1, <2>3 DEF BackoffExponent, LessOne, TailEvents
<1>4. ASSUME NEW c, NEW r \in Nat, NEW x \in Nat PROVE ExtendReset(c, r, x) \in Int
  <2>1. Least(x, EXP_CAP) \in Nat
    BY <1>1 DEF Least
  <2>2. PICK k \in Nat : k = Least(x, EXP_CAP)
    BY <2>1
  <2>3. 2 ^ k \in Int
    OBVIOUS
  <2>4. PICK p \in Int : p = 2 ^ k
    BY <2>3
  <2>5. BASE * (p - 1) \in Int
    BY <1>1
  <2>6. Least(BASE * (p - 1), ABSOLUTE_CAP_S) \in Int
    BY <1>1, <2>5 DEF Least
  <2> QED
    BY <2>2, <2>4, <2>6 DEF ExtendReset
<1>5. EventsDerivedReset(e.agent, e.class, CoerceEpochInt(e.reset, 0), NoCache) \in Int
  <2>1. e.agent \notin DOMAIN NoCache
    BY DEF NoCache
  <2> QED
    BY <1>2, <1>3, <1>4, <2>1 DEF EventsDerivedReset
<1> QED
  BY <1>5 DEF StateOf

LEMMA ActiveEntries ==
  ASSUME LogTypes
  PROVE  /\ ActiveNow = [a \in DOMAIN ActiveNow |-> ActiveNow[a]]
         /\ DOMAIN ActiveNow =
               {a \in Troubled : /\ LatestTransientPerAgent[a].ev = "detected"
                                 /\ StateOf(LatestTransientPerAgent[a], NoCache).reset > now}
         /\ \A a \in DOMAIN ActiveNow :
               ActiveNow[a] = StateOf(LatestTransientPerAgent[a], NoCache)
<1>1. PICK L : L = LatestTransientPerAgent
  OBVIOUS
<1>2. PICK T : T = ThrottledIn(L, NoCache)
  OBVIOUS
<1>3. ActiveNow = ByAgent(T)
  BY <1>1, <1>2, ActiveThrottlesAre DEF ActiveNow
<1>4. ASSUME NEW s \in T
      PROVE  /\ s.agent \in Troubled /\ L[s.agent].ev = "detected"
             /\ s = StateOf(L[s.agent], NoCache) /\ s.reset > now
  <2>1. PICK e \in DetectedIn(L) : s = StateOf(e, NoCache) /\ s.reset > now
    BY <1>2 DEF ThrottledIn
  <2>2. s.agent = e.agent
    BY <2>1 DEF StateOf
  <2>3. e.agent \in Troubled /\ L[e.agent] = e /\ e.ev = "detected"
    BY <1>1, LatestDetected
  <2> QED
    BY <2>1, <2>2, <2>3
<1>5. ASSUME NEW a \in Troubled, L[a].ev = "detected", StateOf(L[a], NoCache).reset > now
      PROVE  StateOf(L[a], NoCache) \in T /\ StateOf(L[a], NoCache).agent = a
  <2>1. a \in DOMAIN L
    BY <1>1 DEF LatestTransientPerAgent
  <2>2. L[a] \in DetectedIn(L)
    BY <1>5, <2>1 DEF DetectedIn
  <2>3. L[a].agent = a
    BY <1>1, NewestOf
  <2> QED
    BY <1>2, <1>5, <2>2, <2>3 DEF ThrottledIn, StateOf
<1>6. DOMAIN ByAgent(T) = {s.agent : s \in T}
  BY DEF ByAgent
<1>7. ASSUME NEW a \in {s.agent : s \in T} PROVE ByAgent(T)[a] = StateOf(L[a], NoCache)
  <2>1. PICK s \in T : s.agent = a
    OBVIOUS
  <2>2. ByAgent(T)[a] = CHOOSE r \in T : r.agent = a
    BY DEF ByAgent
  <2>3. ByAgent(T)[a] \in T /\ ByAgent(T)[a].agent = a
    BY <2>1, <2>2
  <2> QED
    BY <1>4, <2>3
<1>8. {s.agent : s \in T} =
         {a \in Troubled : L[a].ev = "detected" /\ StateOf(L[a], NoCache).reset > now}
  BY <1>4, <1>5
<1>9. ByAgent(T) = [a \in DOMAIN ByAgent(T) |-> ByAgent(T)[a]]
  BY DEF ByAgent
<1> QED
  BY <1>1, <1>3, <1>6, <1>7, <1>8, <1>9

(* The scalar is the entry of its agent.                                   *)
LEMMA ScalarIsAnEntry ==
  ASSUME LogTypes, CheckThrottleState # NoState
  PROVE  /\ CheckThrottleState.agent \in DOMAIN ActiveNow
         /\ CheckThrottleState = ActiveNow[CheckThrottleState.agent]
<1>1. PICK d : d = LatestUnrecoveredDetected
  OBVIOUS
<1>2. PICK s : s = StateOf(d, NoCache)
  OBVIOUS
<1>3. CheckThrottleState =
         IF d.ev = "none" THEN NoState ELSE IF s.reset <= now THEN NoState ELSE s
  BY <1>1, <1>2 DEF CheckThrottleState, StateOf
<1>4. d.ev # "none" /\ ~(s.reset <= now) /\ CheckThrottleState = s
  BY <1>3
<1>5. d \in Event /\ d.ev = "detected"
  BY <1>1, <1>4, ScalarIsOpen
<1>6. s.reset > now
  <2>1. s.reset \in Int /\ now \in Int
    BY <1>2, <1>5, ResetType DEF LogTypes
  <2> QED
    BY <1>4, <2>1
<1>7. PICK N \in Nat : N = Len(log) /\ DOMAIN log = 1..N /\ log \in Seq(Event)
  BY DEF LogTypes
<1>8. PICK i \in 1..N : /\ log[i] = d /\ log[i].ev \in Transient
                        /\ \A j \in 1..N : log[j].ev \in Transient => j <= i
  <2>1. d = ScanForTransient(log)
    BY <1>1, <1>4, TwoScansAreOne
  <2> QED
    BY <1>4, <1>7, <2>1, ScanFindsNewest
<1>9. PICK a : a = d.agent
  OBVIOUS
<1>10. a \in Troubled
  <2>1. a \in Agents /\ i \in TransientAt(a)
    BY <1>5, <1>7, <1>8, <1>9 DEF Event, TransientAt, TailEvents
  <2> QED
    BY <2>1 DEF Troubled
<1>11. LatestTransientPerAgent[a] = d
  <2>1. PICK k \in 1..N :
            /\ LatestTransientPerAgent[a] = log[k] /\ log[k].ev \in Transient
            /\ \A j \in 1..N : log[j].ev \in Transient /\ log[j].agent = a => j <= k
    BY <1>7, <1>10, NewestOf
  <2>2. k <= i /\ i <= k
    BY <1>8, <1>9, <2>1
  <2>3. k = i
    BY <2>2
  <2> QED
    BY <1>8, <2>1, <2>3
<1>12. s.agent = a
  BY <1>2, <1>9 DEF StateOf
<1>13. a \in DOMAIN ActiveNow /\ ActiveNow[a] = s
  BY <1>2, <1>5, <1>6, <1>10, <1>11, ActiveEntries
<1> QED
  BY <1>4, <1>12, <1>13

(* The detector of the monitor and the gate judge alike.                   *)
LEMMA DetectorIsTheGate ==
  ASSUME LogTypes
  PROVE  DetectRateLimitActive <=> CheckThrottleState # NoState
<1>1. PICK d, new : d = LatestUnrecoveredDetected /\ new = ScanForTransient(log)
  OBVIOUS
<1>2. PICK s : s = StateOf(d, NoCache)
  OBVIOUS
<1>3. CheckThrottleState =
         IF d.ev = "none" THEN NoState ELSE IF s.reset <= now THEN NoState ELSE s
  BY <1>1, <1>2 DEF CheckThrottleState, StateOf
<1>4. d = IF new.ev = "detected" THEN new ELSE [ev |-> "none"]
  BY <1>1, TwoScansAreOne
<1>5. CASE new.ev # "detected"
  <2>1. d.ev = "none"
    BY <1>4, <1>5
  <2>2. ~DetectRateLimitActive
    BY <1>1, <1>5 DEF DetectRateLimitActive, TailEvents
  <2> QED
    BY <1>3, <2>1, <2>2
<1>6. CASE new.ev = "detected"
  <2>1. d = new /\ d.ev = "detected" /\ d.ev # "none"
    BY <1>4, <1>6
  <2>2. DetectRateLimitActive <=> s.reset > now
    BY <1>1, <1>2, <1>6, <2>1 DEF DetectRateLimitActive, StateOf, TailEvents
  <2>3. s.reset \in Int /\ now \in Nat
    <3>1. d \in Event
      BY <1>1, <2>1, ScalarIsOpen
    <3> QED
      BY <1>2, <3>1, ResetType DEF LogTypes
  <2>4. CASE s.reset <= now
    BY <1>3, <2>1, <2>2, <2>3, <2>4
  <2>5. CASE ~(s.reset <= now)
    <3>1. s.reset > now /\ s.reset # 0
      BY <2>3, <2>5
    <3>2. s # NoState
      BY <3>1 DEF NoState
    <3> QED
      BY <1>3, <2>1, <2>2, <2>5, <3>1, <3>2
  <2> QED
    BY <2>4, <2>5
<1> QED
  BY <1>5, <1>6


(* Some throttle is the last to be over.                                   *)
LEMMA LastOneExists ==
  ASSUME LogTypes, DOMAIN ActiveNow # {}
  PROVE  \E a \in DOMAIN ActiveNow : \A b \in DOMAIN ActiveNow : ActiveNow[b].reset <= ActiveNow[a].reset
<1>1. PICK act, D : act = ActiveNow /\ D = DOMAIN act
  OBVIOUS
<1>2. PICK N \in Nat : N = Len(log) /\ DOMAIN log = 1..N
  BY DEF LogTypes
<1>3. PICK pos : pos = [a \in D |-> Greatest(TransientAt(a))]
  OBVIOUS
<1>4. ASSUME NEW a \in D
      PROVE  pos[a] \in 1..N /\ log[pos[a]].agent = a /\ act[a].reset \in Int
  <2>1. a \in Troubled /\ act[a] = StateOf(LatestTransientPerAgent[a], NoCache)
    BY <1>1, ActiveEntries
  <2>2. PICK i \in 1..N : /\ i = Greatest(TransientAt(a)) /\ LatestTransientPerAgent[a] = log[i]
                          /\ log[i].agent = a
    BY <1>2, <2>1, NewestOf
  <2>3. log[i] \in Event
    BY <1>2 DEF LogTypes
  <2>4. act[a].reset \in Int
    BY <2>1, <2>2, <2>3, ResetType
  <2>5. pos[a] = i
    BY <1>3, <2>2
  <2> QED
    BY <2>2, <2>4, <2>5
<1>5. PICK S : S = {pos[a] : a \in D}
  OBVIOUS
<1>6. PICK f : f = [i \in 1..N |-> IF i \in S THEN act[log[i].agent].reset ELSE 0]
  OBVIOUS
<1>7. \A a \in D : f[pos[a]] = act[a].reset /\ pos[a] \in S
  BY <1>4, <1>5, <1>6
<1>8. \A i \in S : i \in 1..N /\ log[i].agent \in D /\ i = pos[log[i].agent]
  BY <1>4, <1>5
<1>9. f \in [1..N -> Int]
  BY <1>4, <1>6, <1>8
<1>10. S \in SUBSET (1..N) /\ S # {}
  BY <1>1, <1>5, <1>8
<1>11. PICK i \in S : \A j \in S : f[j] <= f[i]
  BY <1>9, <1>10, LargestValue
<1>12. PICK a \in D : i = pos[a]
  BY <1>5
<1>13. \A b \in D : act[b].reset <= act[a].reset
  BY <1>7, <1>11, <1>12
<1> QED
  BY <1>1, <1>13

LEMMA ViewHangsTogether ==
  ASSUME LogTypes
  PROVE  ViewCoherent
<1>1. PICK act, scalar : act = ActiveNow /\ scalar = CheckThrottleState
  OBVIOUS
<1>2. PICK last : last = CHOOSE a \in DOMAIN act : \A b \in DOMAIN act : act[b].reset <= act[a].reset
  OBVIOUS
<1>3. PICK shown : shown =
         IF scalar # NoState /\ scalar.agent \in DOMAIN act THEN act[scalar.agent]
         ELSE IF scalar = NoState /\ act # NoCache THEN act[last]
         ELSE scalar
  OBVIOUS
<1>4. EffectiveThrottleView = [scalar |-> shown, active |-> act]
  BY <1>1, <1>2, <1>3 DEF EffectiveThrottleView
<1>5. \A a \in DOMAIN act : act[a] # NoState
  <2> TAKE a \in DOMAIN act
  <2>1. PICK e : e = LatestTransientPerAgent[a]
    OBVIOUS
  <2>2. a \in Troubled /\ act[a] = StateOf(e, NoCache) /\ StateOf(e, NoCache).reset > now
    BY <1>1, <2>1, ActiveEntries
  <2>3. e \in Event
    <3>1. PICK i \in DOMAIN log : e = log[i]
      BY <2>1, <2>2, NewestOf
    <3> QED
      BY <3>1 DEF LogTypes
  <2>4. act[a].reset # 0
    <3>1. StateOf(e, NoCache).reset \in Int /\ now \in Nat
      BY <2>3, ResetType DEF LogTypes
    <3> QED
      BY <2>2, <3>1
  <2> QED
    BY <2>4 DEF NoState
<1>6. act = NoCache <=> DOMAIN act = {}
  <2>1. act = [a \in DOMAIN act |-> act[a]]
    BY <1>1, ActiveEntries
  <2>2. DOMAIN NoCache = {} /\ NoCache = [a \in {} |-> 0]
    BY DEF NoCache
  <2> QED
    BY <2>1, <2>2
<1>7. scalar # NoState => scalar.agent \in DOMAIN act /\ scalar = act[scalar.agent]
  BY <1>1, ScalarIsAnEntry
<1>8. DOMAIN act # {} => last \in DOMAIN act
  BY <1>1, <1>2, LastOneExists
<1>9. shown = NoState <=> DOMAIN act = {}
  <2>1. CASE scalar # NoState
    BY <1>3, <1>5, <1>7, <2>1
  <2>2. CASE scalar = NoState /\ DOMAIN act # {}
    <3>1. shown = act[last]
      BY <1>3, <1>6, <2>2
    <3> QED
      BY <1>5, <1>8, <2>2, <3>1
  <2>3. CASE scalar = NoState /\ DOMAIN act = {}
    BY <1>3, <1>6, <2>3
  <2> QED
    BY <2>1, <2>2, <2>3
<1>10. shown # NoState => \E a \in DOMAIN act : shown = act[a]
  <2>1. CASE scalar # NoState
    BY <1>3, <1>7, <2>1
  <2>2. CASE scalar = NoState /\ DOMAIN act # {}
    <3>1. shown = act[last]
      BY <1>3, <1>6, <2>2
    <3> QED
      BY <1>8, <2>2, <3>1
  <2>3. CASE scalar = NoState /\ DOMAIN act = {}
    BY <1>9, <2>3
  <2> QED
    BY <2>1, <2>2, <2>3
<1>11. DetectRateLimitActive <=> CheckThrottleState # NoState
  BY DetectorIsTheGate
<1> QED
  BY <1>4, <1>9, <1>10, <1>11 DEF ViewCoherent

(* The operator's view names a throttle exactly when an agent is throttled, *)
(* and then one of those, and the monitor alerts exactly when the gate      *)
(* would hold a round back: for any log, wherever the two scans over two    *)
(* files split it (effective_throttle_view, detect_rate_limit_active).      *)
THEOREM OperatorSeesTheGate == Spec => []ViewCoherent
<1>1. OpenInv => ViewCoherent
  BY ViewHangsTogether DEF OpenInv
<1> QED
  BY <1>1, OpenAlways, PTL

----------------------------------------------------------------------------
(* The ladder.                                                             *)

(* DueAt of any sequence of events, in parts: the events of one kind, the   *)
(* failures in a row, and how long the last of them makes its agent wait.   *)
Of(s, ev, a, n) == {i \in 1..n : s[i].ev = ev /\ s[i].agent = a}
InARow(s, a, n) == {i \in Of(s, "detected", a, n) : \A k \in Of(s, "success", a, n) : k < i}
RowOf(s, a, n) == IF InARow(s, a, n) = {} THEN 0 ELSE Cardinality(InARow(s, a, n)) - 1
WaitOf(e, x) ==
    IF e.class = "account"
    THEN IF e.reset > e.at + SANITY_S THEN 0 ELSE e.reset
    ELSE e.at + Least(BASE * 2 ^ Least(x, EXP_CAP), ABSOLUTE_CAP_S)
Due(s, a, n) ==
    IF Of(s, "detected", a, n) = {} THEN 0
    ELSE WaitOf(s[Greatest(Of(s, "detected", a, n))], RowOf(s, a, n))

LEMMA DueIs == ASSUME NEW a, NEW n PROVE DueAt(a, n) = Due(log, a, n)
BY DEF DueAt, Due, WaitOf, RowOf, InARow, Of

LEMMA OfType ==
  ASSUME NEW s, NEW ev, NEW a, NEW n \in Nat
  PROVE  Of(s, ev, a, n) \in SUBSET (1..n) /\ InARow(s, a, n) \in SUBSET (1..n)
BY DEF Of, InARow

LEMMA RowType ==
  ASSUME NEW s, NEW a, NEW n \in Nat
  PROVE  /\ IsFiniteSet(InARow(s, a, n)) /\ Cardinality(InARow(s, a, n)) \in Nat
         /\ RowOf(s, a, n) \in Nat
         /\ RowOf(s, a, n) = LessOne(Cardinality(InARow(s, a, n)))
<1>1. PICK R : R = InARow(s, a, n)
  OBVIOUS
<1>2. R \in SUBSET (1..n)
  BY <1>1, OfType
<1>3. IsFiniteSet(1..n)
  BY FS_Interval
<1>4. IsFiniteSet(R)
  BY <1>2, <1>3, FS_Subset
<1>5. PICK c \in Nat : c = Cardinality(R)
  BY <1>4, FS_CardinalityType
<1>6. c = 0 <=> R = {}
  BY <1>4, <1>5, FS_EmptySet
<1>7. RowOf(s, a, n) = IF R = {} THEN 0 ELSE c - 1
  BY <1>1, <1>5 DEF RowOf
<1>8. RowOf(s, a, n) \in Nat /\ RowOf(s, a, n) = LessOne(c)
  BY <1>5, <1>6, <1>7 DEF LessOne
<1> QED
  BY <1>1, <1>4, <1>5, <1>8

(* Sets of events that are the same make the same wait.                    *)
LEMMA DueFollows ==
  ASSUME NEW s, NEW t, NEW a, NEW n \in Nat, NEW m \in Nat,
         Of(s, "detected", a, n) = Of(t, "detected", a, m),
         Of(s, "success", a, n) = Of(t, "success", a, m),
         \A i \in Of(s, "detected", a, n) : s[i] = t[i]
  PROVE  Due(s, a, n) = Due(t, a, m)
<1>1. PICK D : D = Of(s, "detected", a, n)
  OBVIOUS
<1>2. CASE D = {}
  BY <1>1, <1>2 DEF Due
<1>3. CASE D # {}
  <2>1. Greatest(D) \in D
    BY <1>1, <1>3, OfType, GreatestExists
  <2>2. s[Greatest(D)] = t[Greatest(D)]
    BY <1>1, <2>1
  <2>3. InARow(s, a, n) = InARow(t, a, m)
    BY DEF InARow
  <2>4. RowOf(s, a, n) = RowOf(t, a, m)
    BY <2>3 DEF RowOf
  <2>5. Due(s, a, n) = WaitOf(s[Greatest(D)], RowOf(s, a, n))
    BY <1>1, <1>3 DEF Due
  <2>6. Due(t, a, m) = WaitOf(t[Greatest(D)], RowOf(t, a, m))
    BY <1>1, <1>3 DEF Due
  <2> QED
    BY <2>2, <2>4, <2>5, <2>6
<1> QED
  BY <1>2, <1>3

LEMMA SamePrefix ==
  ASSUME NEW s, NEW t, NEW a, NEW n \in Nat, \A i \in 1..n : s[i] = t[i]
  PROVE  Due(s, a, n) = Due(t, a, n)
<1>1. /\ Of(s, "detected", a, n) = Of(t, "detected", a, n)
      /\ Of(s, "success", a, n) = Of(t, "success", a, n)
  BY DEF Of
<1>2. \A i \in Of(s, "detected", a, n) : s[i] = t[i]
  BY OfType
<1> QED
  BY <1>1, <1>2, DueFollows

(* A recovered event is no reset point.                                    *)
LEMMA RecoveredAddsNothing ==
  ASSUME NEW s, NEW a, NEW n \in Nat, NEW m \in 0..n,
         \A i \in (m + 1)..n : s[i].ev = "recovered"
  PROVE  Due(s, a, n) = Due(s, a, m)
<1>1. \A i \in 1..n : i \in 1..m \/ i \in (m + 1)..n
  OBVIOUS
<1>2. \A i \in 1..m : i \in 1..n
  OBVIOUS
<1>3. ASSUME NEW ev, ev # "recovered" PROVE Of(s, ev, a, n) = Of(s, ev, a, m)
  BY <1>1, <1>2, <1>3 DEF Of
<1>4. /\ Of(s, "detected", a, n) = Of(s, "detected", a, m)
      /\ Of(s, "success", a, n) = Of(s, "success", a, m)
  BY <1>3
<1> QED
  BY <1>4, DueFollows, m \in Nat

(* A power of two is the number of subsets of a set.                       *)
LEMMA PowerOfTwo ==
  ASSUME NEW n \in Nat
  PROVE  2 ^ n \in Int /\ 2 ^ n >= 1
<1>1. IsFiniteSet(1..n) /\ Cardinality(1..n) = n
  BY FS_Interval
<1>2. IsFiniteSet(SUBSET (1..n)) /\ Cardinality(SUBSET (1..n)) = 2 ^ n
  BY <1>1, FS_SUBSET
<1>3. PICK c : c = Cardinality(SUBSET (1..n))
  OBVIOUS
<1>4. c \in Nat
  BY <1>2, <1>3, FS_CardinalityType
<1>5. c # 0
  BY <1>2, <1>3, FS_EmptySet, {} \in SUBSET (1..n)
<1>6. c >= 1
  BY <1>4, <1>5
<1> QED
  BY <1>2, <1>3, <1>4, <1>6

(* Any number of failures in a row makes the agent wait at least as long as *)
(* one does.                                                               *)
LEMMA WaitGrows ==
  ASSUME NEW e \in Event, NEW x \in Nat
  PROVE  /\ WaitOf(e, x) \in Int /\ WaitOf(e, 0) \in Int /\ WaitOf(e, 0) <= WaitOf(e, x)
         /\ e.class # "account" => WaitOf(e, 0) = e.at + BASE
<1>1. /\ BASE \in Nat /\ EXP_CAP \in Nat /\ ABSOLUTE_CAP_S \in Nat /\ SANITY_S \in Nat
      /\ BASE <= ABSOLUTE_CAP_S
  BY ThrottleAssumption
<1>2. e.at \in Nat /\ e.reset \in Nat
  BY DEF Event
<1>3. PICK k \in Nat : k = Least(x, EXP_CAP)
  BY <1>1 DEF Least
<1>4. PICK p \in Int : p = 2 ^ k /\ p >= 1
  BY PowerOfTwo
<1>5. Least(0, EXP_CAP) = 0 /\ 2 ^ 0 = 1
  BY <1>1 DEF Least
<1>6. BASE * p \in Int /\ BASE * p >= BASE /\ BASE * 1 = BASE
  BY <1>1, <1>4
<1>7. CASE e.class = "account"
  BY <1>1, <1>2, <1>7 DEF WaitOf
<1>8. CASE e.class # "account"
  <2>1. WaitOf(e, x) = e.at + Least(BASE * p, ABSOLUTE_CAP_S)
    BY <1>3, <1>4, <1>8 DEF WaitOf
  <2>2. WaitOf(e, 0) = e.at + Least(BASE, ABSOLUTE_CAP_S)
    BY <1>5, <1>6, <1>8 DEF WaitOf
  <2> QED
    BY <1>1, <1>2, <1>6, <2>1, <2>2 DEF Least
<1> QED
  BY <1>7, <1>8

LEMMA DueType ==
  ASSUME NEW s \in Seq(Event), NEW a, NEW n \in 0..Len(s)
  PROVE  Due(s, a, n) \in Int
<1>1. PICK D : D = Of(s, "detected", a, n)
  OBVIOUS
<1>2. n \in Nat /\ \A i \in 1..n : s[i] \in Event
  OBVIOUS
<1>3. CASE D = {}
  BY <1>1, <1>3 DEF Due
<1>4. CASE D # {}
  <2>1. Greatest(D) \in 1..n
    BY <1>1, <1>2, <1>4, OfType, GreatestExists
  <2>2. s[Greatest(D)] \in Event
    BY <1>2, <2>1
  <2>3. Due(s, a, n) = WaitOf(s[Greatest(D)], RowOf(s, a, n))
    BY <1>1, <1>4 DEF Due
  <2> QED
    BY <1>2, <2>2, <2>3, RowType, WaitGrows
<1> QED
  BY <1>3, <1>4

(* Without another failure an agent is due no later.                       *)
LEMMA DueFalls ==
  ASSUME NEW s \in Seq(Event), NEW a, NEW n \in 0..Len(s), NEW m \in 0..n,
         \A i \in (m + 1)..n : ~(s[i].ev = "detected" /\ s[i].agent = a)
  PROVE  Due(s, a, n) <= Due(s, a, m)
<1>1. /\ n \in Nat /\ m \in Nat /\ m \in 0..Len(s) /\ \A i \in 1..n : s[i] \in Event
      /\ \A i \in 1..n : i \in 1..m \/ i \in (m + 1)..n
      /\ \A i \in 1..m : i \in 1..n
      /\ \A i \in (m + 1)..n : i > m
  OBVIOUS
<1>2. PICK D : D = Of(s, "detected", a, m)
  OBVIOUS
<1>3. Of(s, "detected", a, n) = D
  BY <1>1, <1>2 DEF Of
<1>4. CASE Of(s, "success", a, n) = Of(s, "success", a, m)
  <2>1. Due(s, a, n) = Due(s, a, m)
    BY <1>1, <1>2, <1>3, <1>4, DueFollows
  <2> QED
    BY <1>1, <2>1, DueType
<1>5. CASE Of(s, "success", a, n) # Of(s, "success", a, m) /\ D # {}
  <2>1. PICK k \in (m + 1)..n : k \in Of(s, "success", a, n)
    BY <1>1, <1>5 DEF Of
  <2>2. \A i \in D : ~(k < i)
    BY <1>1, <1>2, <2>1, OfType
  <2>3. InARow(s, a, n) = {}
    BY <1>3, <2>1, <2>2 DEF InARow
  <2>4. RowOf(s, a, n) = 0
    BY <2>3 DEF RowOf
  <2>5. Greatest(D) \in 1..m
    BY <1>1, <1>2, <1>5, OfType, GreatestExists
  <2>6. PICK e \in Event : e = s[Greatest(D)]
    BY <1>1, <2>5
  <2>7. Due(s, a, n) = WaitOf(e, 0)
    BY <1>3, <1>5, <2>4, <2>6 DEF Due
  <2>8. Due(s, a, m) = WaitOf(e, RowOf(s, a, m))
    BY <1>2, <1>5, <2>6 DEF Due
  <2> QED
    BY <1>1, <2>7, <2>8, RowType, WaitGrows
<1>6. CASE D = {}
  BY <1>2, <1>3, <1>6 DEF Due
<1> QED
  BY <1>4, <1>5, <1>6

(* The scan of _backoff_exponent counts the failures in a row.              *)
LEMMA ScanCountsTheRow ==
  ASSUME LogTypes, NEW a
  PROVE  BackoffExponent(a) = RowOf(log, a, Len(log))
<1>1. PICK N \in Nat : N = Len(log)
  BY DEF LogTypes
<1>2. PICK c : c = Detections(a)
  OBVIOUS
<1>3. /\ c[0] = 0
      /\ \A n \in 1..N : c[n] = NextCount(a, log[n], c[n - 1])
  BY <1>1, <1>2, CountOfAgent
<1> DEFINE S == {n \in 0..N : c[n] = Cardinality(InARow(log, a, n))}
<1>4. 0 \in S
  <2>1. InARow(log, a, 0) = {}
    BY DEF InARow, Of
  <2> QED
    BY <1>3, <2>1, FS_EmptySet
<1>5. ASSUME NEW n \in 1..N, n - 1 \in S PROVE n \in S
  <2>1. PICK m \in Nat : m = n - 1 /\ n = m + 1 /\ n \in Nat /\ m < n
    OBVIOUS
  <2>2. PICK R : R = InARow(log, a, m)
    OBVIOUS
  <2>3. IsFiniteSet(R) /\ Cardinality(R) \in Nat /\ R \in SUBSET (1..m)
    BY <2>1, <2>2, RowType, OfType
  <2>4. c[m] = Cardinality(R) /\ c[n] = NextCount(a, log[n], c[m])
    BY <1>3, <1>5, <2>1, <2>2
  <2>5. /\ \A i \in 1..n : i = n \/ i \in 1..m
        /\ \A i \in 1..m : i \in 1..n /\ i # n /\ i < n
        /\ n \in 1..n
    BY <2>1
  <2>6. log[n].ev \in {"success", "detected", "recovered"}
    <3>1. log[n] \in Event
      BY <1>1 DEF LogTypes
    <3> QED
      BY <3>1 DEF Event
  <2>7. PICK D, T : D = Of(log, "detected", a, m) /\ T = Of(log, "success", a, m)
    OBVIOUS
  <2>8. CASE log[n].agent # a \/ log[n].ev = "recovered"
    <3>1. Of(log, "detected", a, n) = D /\ Of(log, "success", a, n) = T
      BY <2>5, <2>7, <2>8 DEF Of
    <3>2. InARow(log, a, n) = R
      BY <2>2, <2>7, <3>1 DEF InARow
    <3>3. c[n] = c[m]
      BY <2>4, <2>8 DEF NextCount
    <3> QED
      BY <2>4, <3>2, <3>3
  <2>9. CASE log[n].agent = a /\ log[n].ev = "detected"
    <3>1. Of(log, "detected", a, n) = D \cup {n} /\ Of(log, "success", a, n) = T
      BY <2>5, <2>7, <2>9 DEF Of
    <3>2. \A k \in T : k < n
      BY <2>1, <2>5, <2>7, OfType
    <3>3. InARow(log, a, n) = R \cup {n}
      BY <2>2, <2>7, <3>1, <3>2 DEF InARow
    <3>4. n \notin R
      BY <2>3, <2>5
    <3>5. Cardinality(R \cup {n}) = Cardinality(R) + 1
      BY <2>3, <3>4, FS_AddElement
    <3>6. c[n] = c[m] + 1
      BY <2>4, <2>9 DEF NextCount
    <3> QED
      BY <2>4, <3>3, <3>5, <3>6
  <2>10. CASE log[n].agent = a /\ log[n].ev = "success"
    <3>1. Of(log, "detected", a, n) = D /\ n \in Of(log, "success", a, n)
      BY <2>5, <2>7, <2>10 DEF Of
    <3>2. \A i \in D : ~(n < i)
      BY <2>1, <2>5, <2>7, OfType
    <3>3. InARow(log, a, n) = {}
      BY <3>1, <3>2 DEF InARow
    <3>4. c[n] = 0
      BY <2>4, <2>10 DEF NextCount
    <3> QED
      BY <3>3, <3>4, FS_EmptySet
  <2> QED
    BY <2>6, <2>8, <2>9, <2>10
<1>6. \A n \in 0..N : n \in S
  <2> HIDE DEF S
  <2> QED
    BY <1>4, <1>5, InductionUpTo
<1>7. c[N] = Cardinality(InARow(log, a, N))
  BY <1>6, N \in 0..N
<1>8. BackoffExponent(a) = LessOne(c[N])
  BY <1>1, <1>2 DEF BackoffExponent, TailEvents
<1> QED
  BY <1>1, <1>7, <1>8, RowType

(* What the events say of time: they are not of the future, and an estimate *)
(* is the base duration after its failure.                                 *)
EventsInv ==
    \A i \in DOMAIN log :
        /\ log[i].agent \in used
        /\ log[i].ev = "detected" =>
              /\ log[i].at <= now
              /\ log[i].class = "account" \/ log[i].reset = log[i].at + BASE

(* The reset that the gates read is no sooner than the ladder of the whole  *)
(* history: the scan's count is the row, base + base * (2^n - 1) is         *)
(* base * 2^n, and what is malformed when it is read was so when written.   *)
LEMMA ResetIsDue ==
  ASSUME LogTypes, EventsInv, NEW a, NEW i \in DOMAIN log,
         log[i].ev = "detected", log[i].agent = a,
         \A j \in DOMAIN log : log[j].ev = "detected" /\ log[j].agent = a => j <= i
  PROVE  /\ DueAt(a, Len(log)) = WaitOf(log[i], BackoffExponent(a))
         /\ DueAt(a, Len(log)) <= StateOf(log[i], NoCache).reset
<1>1. PICK N \in Nat : N = Len(log) /\ DOMAIN log = 1..N
  BY DEF LogTypes
<1>2. PICK e \in Event : e = log[i]
  BY DEF LogTypes
<1>3. PICK x \in Nat : x = BackoffExponent(a) /\ x = RowOf(log, a, N)
  BY <1>1, ScanCountsTheRow, RowType
<1>4. PICK D : D = Of(log, "detected", a, N)
  OBVIOUS
<1>5. D \in SUBSET Int /\ i \in D /\ \A y \in D : y <= i
  <2>1. D \in SUBSET (1..N)
    BY <1>4, OfType
  <2>2. i \in D /\ \A y \in D : y <= i
    BY <1>1, <1>4 DEF Of
  <2> QED
    BY <2>1, <2>2
<1>6. Greatest(D) = i
  BY <1>5, GreatestIs
<1>7. DueAt(a, N) = WaitOf(e, x)
  BY <1>2, <1>3, <1>4, <1>5, <1>6, DueIs DEF Due
<1>8. /\ BASE \in Nat /\ EXP_CAP \in Nat /\ ABSOLUTE_CAP_S \in Nat /\ SANITY_S \in Nat
      /\ BASE <= ABSOLUTE_CAP_S /\ BASE <= SANITY_S
  BY ThrottleAssumption
<1>9. /\ e.at \in Nat /\ e.reset \in Nat /\ now \in Nat /\ e.at <= now
      /\ e.class = "account" \/ e.reset = e.at + BASE
  BY <1>2 DEF Event, LogTypes, EventsInv
<1>10. StateOf(e, NoCache).reset = ExtendReset(e.class, CoerceEpochInt(e.reset, 0), x)
  <2>1. e.agent = a /\ a \notin DOMAIN NoCache
    BY <1>2 DEF NoCache
  <2> QED
    BY <1>3, <2>1 DEF StateOf, EventsDerivedReset
<1>11. CASE e.class = "account"
  BY <1>1, <1>2, <1>3, <1>7, <1>8, <1>9, <1>10, <1>11 DEF WaitOf, ExtendReset, CoerceEpochInt
<1>12. CASE e.class # "account"
  <2>1. CoerceEpochInt(e.reset, 0) = e.at + BASE
    BY <1>8, <1>9, <1>12 DEF CoerceEpochInt
  <2>2. CASE x = 0
    <3>1. ExtendReset(e.class, e.at + BASE, x) = e.at + BASE
      BY <2>2 DEF ExtendReset
    <3>2. WaitOf(e, x) = e.at + BASE
      BY <1>12, <2>2, WaitGrows
    <3> QED
      BY <1>1, <1>2, <1>3, <1>7, <1>8, <1>9, <1>10, <2>1, <3>1, <3>2
  <2>3. CASE x # 0
    <3>1. PICK k \in Nat : k = Least(x, EXP_CAP)
      BY <1>8 DEF Least
    <3>2. PICK p \in Int : p = 2 ^ k
      BY PowerOfTwo
    <3>3. ExtendReset(e.class, e.at + BASE, x) = e.at + BASE + Least(BASE * (p - 1), ABSOLUTE_CAP_S)
      BY <1>12, <2>3, <3>1, <3>2 DEF ExtendReset
    <3>4. WaitOf(e, x) = e.at + Least(BASE * p, ABSOLUTE_CAP_S)
      BY <1>12, <3>1, <3>2 DEF WaitOf
    <3>5. BASE * p \in Int /\ BASE * (p - 1) \in Int /\ BASE + BASE * (p - 1) = BASE * p
      BY <1>8
    <3>6. Least(BASE * p, ABSOLUTE_CAP_S) <= BASE + Least(BASE * (p - 1), ABSOLUTE_CAP_S)
      <4>1. PICK u, v \in Int : u = BASE * p /\ v = BASE * (p - 1) /\ u = BASE + v
        BY <3>5
      <4> QED
        BY <1>8, <4>1 DEF Least
    <3>7. Least(BASE * p, ABSOLUTE_CAP_S) \in Int /\ Least(BASE * (p - 1), ABSOLUTE_CAP_S) \in Int
      BY <1>8, <3>5 DEF Least
    <3>8. PICK u, v \in Int : /\ u = Least(BASE * p, ABSOLUTE_CAP_S)
                              /\ v = Least(BASE * (p - 1), ABSOLUTE_CAP_S)
      BY <3>7
    <3>9. DueAt(a, Len(log)) = e.at + u /\ DueAt(a, Len(log)) = WaitOf(log[i], BackoffExponent(a))
      BY <1>1, <1>2, <1>3, <1>7, <3>4, <3>8
    <3>10. StateOf(log[i], NoCache).reset = e.at + BASE + v
      BY <1>2, <1>10, <2>1, <3>3, <3>8
    <3>11. e.at + u <= e.at + BASE + v
      BY <1>8, <1>9, <3>6, <3>8
    <3> QED
      BY <3>9, <3>10, <3>11
  <2> QED
    BY <2>2, <2>3
<1> QED
  BY <1>1, <1>2, <1>3, <1>7, <1>11, <1>12

----------------------------------------------------------------------------
(* No agent is tried early.                                                *)

(* As long as nothing happens that NoEarlyRetry excepts.                   *)
Reliable == ~raced /\ ~capped

(* What is announced as over is due.                                       *)
RecoveredInv ==
    Reliable => \A i \in DOMAIN log :
        log[i].ev = "recovered" => now >= Due(log, log[i].agent, i)

(* Whom the skip path takes for free is due, by the events it has read; and *)
(* what it adds to them changes nothing.                                   *)
SkipInv ==
    /\ regime = "skip" => ~capped
    /\ pc \in {"scan", "emit", "select"} =>
          /\ regime = "skip" /\ seen \in 0..Len(log)
          /\ Reliable => \A a \in used \ DOMAIN active : now >= Due(log, a, seen)
    /\ pc \in {"scan", "emit"} /\ ~raced =>
          \A i \in (seen + 1)..Len(log) : log[i].ev = "recovered"
    /\ pc = "emit" => cleared \subseteq used \ DOMAIN active

(* The back-off ends when its agent is due.                                *)
SleepInv ==
    pc = "sleep" =>
        /\ regime = "back_off" /\ seen \in 0..Len(log)
        /\ nap \in [agent : used, deadline : Int, left : Nat]
        /\ ~raced => seen = Len(log)
        /\ Reliable => nap.deadline >= Due(log, nap.agent, seen) /\ now + nap.left >= nap.deadline

PatientInv ==
    /\ EventsInv /\ RecoveredInv /\ SkipInv /\ SleepInv
    /\ pc = "round" => ran \in used

(* An agent without an active throttle is due.                             *)
LEMMA FreeIsDue ==
  ASSUME LogTypes, EventsInv, RecoveredInv, Reliable, NEW a \in Agents,
         a \in Troubled /\ LatestTransientPerAgent[a].ev = "detected"
             => StateOf(LatestTransientPerAgent[a], NoCache).reset <= now
  PROVE  now >= Due(log, a, Len(log))
<1>1. PICK N \in Nat : N = Len(log) /\ DOMAIN log = 1..N
  BY DEF LogTypes
<1>2. log \in Seq(Event) /\ now \in Nat
  BY DEF LogTypes
<1>3. Due(log, a, N) \in Int
  BY <1>1, <1>2, DueType, N \in 0..N
<1>4. CASE Of(log, "detected", a, N) = {}
  BY <1>1, <1>2, <1>4 DEF Due
<1>5. CASE Of(log, "detected", a, N) # {}
  <2>1. a \in Troubled
    BY <1>1, <1>5 DEF Of, Troubled, TransientAt, TailEvents, Transient
  <2>2. PICK i \in DOMAIN log :
            /\ LatestTransientPerAgent[a] = log[i] /\ log[i].ev \in Transient /\ log[i].agent = a
            /\ \A j \in DOMAIN log : log[j].ev \in Transient /\ log[j].agent = a => j <= i
    BY <2>1, NewestOf
  <2>3. \A j \in DOMAIN log : log[j].ev = "detected" /\ log[j].agent = a => j <= i
    BY <2>2 DEF Transient
  <2>4. CASE log[i].ev = "detected"
    <3>1. DueAt(a, Len(log)) <= StateOf(log[i], NoCache).reset
      BY <2>2, <2>3, <2>4, ResetIsDue
    <3>2. StateOf(log[i], NoCache).reset <= now
      BY <2>1, <2>2, <2>4
    <3>3. log[i] \in Event
      BY <1>2
    <3>4. PICK r \in Int : r = StateOf(log[i], NoCache).reset
      BY <3>3, ResetType
    <3>5. DueAt(a, Len(log)) = Due(log, a, N)
      BY <1>1, DueIs
    <3> QED
      BY <1>1, <1>2, <1>3, <3>1, <3>2, <3>4, <3>5
  <2>5. CASE log[i].ev = "recovered"
    <3>1. now >= Due(log, a, i)
      BY <2>2, <2>5 DEF RecoveredInv
    <3>2. i \in 0..N /\ N \in 0..Len(log) /\ \A j \in (i + 1)..N : j \in DOMAIN log /\ ~(j <= i)
      BY <1>1
    <3>3. \A j \in (i + 1)..N : ~(log[j].ev = "detected" /\ log[j].agent = a)
      BY <2>3, <3>2
    <3>4. Due(log, a, N) <= Due(log, a, i)
      BY <1>2, <3>2, <3>3, DueFalls
    <3>5. Due(log, a, i) \in Int
      BY <1>1, <1>2, <3>2, DueType
    <3> QED
      BY <1>1, <1>2, <1>3, <3>1, <3>4, <3>5
  <2> QED
    BY <2>2, <2>4, <2>5 DEF Transient
<1> QED
  BY <1>4, <1>5

(* One more event.                                                         *)
LEMMA EventAdded ==
  ASSUME LogTypes, EventsInv, RecoveredInv, NEW e \in Event,
         log' = Append(log, e), now' = now, used' = used, Reliable' => Reliable,
         e.agent \in used,
         e.ev = "detected" => e.at <= now /\ (e.class = "account" \/ e.reset = e.at + BASE),
         e.ev = "recovered" /\ Reliable => now >= Due(log, e.agent, Len(log))
  PROVE  /\ EventsInv' /\ RecoveredInv'
         /\ Len(log') = Len(log) + 1 /\ log'[Len(log) + 1] = e
         /\ \A i \in 1..Len(log) : log'[i] = log[i]
         /\ \A a, n : n \in 0..Len(log) => Due(log', a, n) = Due(log, a, n)
<1>1. PICK t : t = log'
  OBVIOUS
<1>2. PICK N \in Nat : /\ N = Len(log) /\ DOMAIN log = 1..N /\ Len(t) = N + 1 /\ DOMAIN t = 1..(N + 1)
                       /\ (\A i \in 1..N : t[i] = log[i]) /\ t[N + 1] = e
  BY <1>1, Appended DEF LogTypes
<1>3. ASSUME NEW a, NEW n \in 0..N PROVE Due(t, a, n) = Due(log, a, n)
  <2>1. n \in Nat /\ \A i \in 1..n : t[i] = log[i]
    BY <1>2
  <2> QED
    BY <2>1, SamePrefix
<1>4. \A i \in 1..(N + 1) : i \in 1..N \/ i = N + 1
  BY <1>2
<1>5. EventsInv'
  <2>1. \A i \in DOMAIN t : /\ t[i].agent \in used
                            /\ t[i].ev = "detected" =>
                                  /\ t[i].at <= now
                                  /\ t[i].class = "account" \/ t[i].reset = t[i].at + BASE
    BY <1>2, <1>4 DEF EventsInv
  <2> QED
    BY <1>1, <2>1 DEF EventsInv
<1>6. RecoveredInv'
  <2>1. SUFFICES ASSUME Reliable, NEW i \in DOMAIN t, t[i].ev = "recovered"
                 PROVE  now >= Due(t, t[i].agent, i)
    BY <1>1 DEF RecoveredInv
  <2>2. CASE i \in 1..N
    BY <1>2, <1>3, <2>1, <2>2, i \in 0..N DEF RecoveredInv
  <2>3. CASE i = N + 1
    <3>1. /\ \A j \in (N + 1)..(N + 1) : t[j].ev = "recovered"
          /\ N + 1 \in Nat /\ N \in 0..(N + 1)
      BY <1>2, <2>1, <2>3
    <3>2. Due(t, e.agent, N + 1) = Due(t, e.agent, N)
      BY <3>1, RecoveredAddsNothing
    <3>3. Due(t, e.agent, N) = Due(log, e.agent, N)
      BY <1>3, N \in 0..N
    <3> QED
      BY <1>2, <2>1, <2>3, <3>2, <3>3
  <2> QED
    BY <1>2, <1>4, <2>2, <2>3
<1> QED
  BY <1>1, <1>2, <1>3, <1>5, <1>6

(* The same events, at the same time or later.                             *)
LEMMA EventsStay ==
  ASSUME LogTypes, EventsInv, RecoveredInv, log' = log, now' \in Nat, now <= now',
         used' = used, Reliable' => Reliable
  PROVE  EventsInv' /\ RecoveredInv'
<1>1. now \in Nat /\ log \in Seq(Event)
  BY DEF LogTypes
<1>2. PICK later \in Nat : later = now' /\ now <= later
  OBVIOUS
<1>3. EventsInv'
  <2>1. ASSUME NEW i \in DOMAIN log PROVE log[i].at \in Nat
    <3>1. log[i] \in Event
      BY <1>1
    <3> QED
      BY <3>1 DEF Event
  <2>2. \A i \in DOMAIN log : log[i].ev = "detected" => log[i].at <= later
    BY <1>1, <1>2, <2>1 DEF EventsInv
  <2> QED
    BY <1>2, <2>2 DEF EventsInv
<1>4. RecoveredInv'
  <2>1. SUFFICES ASSUME Reliable, NEW i \in DOMAIN log, log[i].ev = "recovered"
                 PROVE  later >= Due(log, log[i].agent, i)
    BY <1>2 DEF RecoveredInv
  <2>2. now >= Due(log, log[i].agent, i)
    BY <2>1 DEF RecoveredInv
  <2>3. Due(log, log[i].agent, i) \in Int
    <3>1. i \in 0..Len(log)
      BY <1>1
    <3> QED
      BY <1>1, <3>1, DueType
  <2> QED
    BY <1>1, <1>2, <2>2, <2>3
<1> QED
  BY <1>3, <1>4

(* A report is of the round's own time.                                    *)
LEMMA ReportAdded ==
  ASSUME OpenInv, PatientInv, NEW a \in used, Reports(a), now' = now, used' = used,
         Reliable' => Reliable
  PROVE  /\ EventsInv' /\ RecoveredInv'
         /\ Len(log') = Len(log) + 1 /\ Len(log) \in Nat
         /\ \A b, n : n \in 0..Len(log) => Due(log', b, n) = Due(log, b, n)
<1>1. LogTypes /\ EventsInv /\ RecoveredInv /\ a \in Agents /\ now \in Nat
  BY DEF OpenInv, PatientInv, LogTypes
<1>2. BASE \in Nat /\ AccountResets \subseteq Nat
  BY ThrottleAssumption
<1>3. \E e \in Event : /\ log' = Append(log, e) /\ e.agent = a /\ e.ev # "recovered"
                       /\ e.ev = "detected" =>
                             e.at <= now /\ (e.class = "account" \/ e.reset = e.at + BASE)
  <2>1. CASE EmitBare("success", a)
    BY <1>1, <2>1 DEF EmitBare, Emit, Event
  <2>2. CASE Emit("detected", a, "model", now + BASE, now)
    <3>1. PICK e : e = [ev |-> "detected", agent |-> a, class |-> "model", reset |-> now + BASE, at |-> now]
      OBVIOUS
    <3>2. e \in Event
      BY <1>1, <1>2, <3>1 DEF Event
    <3> QED
      BY <1>1, <2>2, <3>1, <3>2 DEF Emit
  <2>3. CASE \E r \in AccountResets : Emit("detected", a, "account", now + r, now)
    <3>1. PICK r \in AccountResets : Emit("detected", a, "account", now + r, now)
      BY <2>3
    <3>2. PICK e : e = [ev |-> "detected", agent |-> a, class |-> "account", reset |-> now + r, at |-> now]
      OBVIOUS
    <3>3. now + r \in Nat
      BY <1>1, <1>2
    <3>4. e \in Event
      BY <1>1, <3>2, <3>3 DEF Event
    <3> QED
      BY <1>1, <3>1, <3>2, <3>4 DEF Emit
  <2> QED
    BY <2>1, <2>2, <2>3 DEF Reports
<1>4. PICK e \in Event : /\ log' = Append(log, e) /\ e.agent = a /\ e.ev # "recovered"
                         /\ e.ev = "detected" =>
                               e.at <= now /\ (e.class = "account" \/ e.reset = e.at + BASE)
  BY <1>3
<1>5. Len(log) \in Nat
  BY <1>1 DEF LogTypes
<1> QED
  BY <1>1, <1>4, <1>5, EventAdded

(* What the skip path announces as over is due.                            *)
LEMMA AnnouncedIsDue ==
  ASSUME OpenInv, PatientInv, pc = "emit", Reliable, NEW a \in cleared
  PROVE  now >= Due(log, a, Len(log))
<1>1. log \in Seq(Event) /\ Len(log) \in Nat
  BY DEF OpenInv, LogTypes
<1>2. /\ seen \in 0..Len(log) /\ a \in used \ DOMAIN active
      /\ \A i \in (seen + 1)..Len(log) : log[i].ev = "recovered"
      /\ now >= Due(log, a, seen)
  BY DEF PatientInv, SkipInv, Reliable
<1>3. Due(log, a, Len(log)) = Due(log, a, seen)
  BY <1>1, <1>2, RecoveredAddsNothing
<1> QED
  BY <1>2, <1>3

LEMMA NappedIsDue ==
  ASSUME OpenInv, PatientInv, pc = "sleep", Reliable, nap.left = 0 \/ now >= nap.deadline
  PROVE  seen = Len(log) /\ now >= Due(log, nap.agent, seen)
<1>1. log \in Seq(Event) /\ now \in Nat
  BY DEF OpenInv, LogTypes
<1>2. /\ seen \in 0..Len(log) /\ seen = Len(log)
      /\ nap \in [agent : used, deadline : Int, left : Nat]
      /\ nap.deadline >= Due(log, nap.agent, seen) /\ now + nap.left >= nap.deadline
  BY DEF PatientInv, SleepInv, Reliable
<1>3. Due(log, nap.agent, seen) \in Int
  BY <1>1, <1>2, DueType
<1>4. nap.deadline \in Int /\ nap.left \in Nat
  BY <1>2
<1>5. now >= nap.deadline
  BY <1>1, <1>2, <1>4
<1> QED
  BY <1>1, <1>2, <1>3, <1>4, <1>5

(* The back-off is as long as the ladder says.                             *)
LEMMA BackOffIsLongEnough ==
  ASSUME OpenInv, PatientInv, GateThrottle, pc' = "sleep"
  PROVE  SleepInv'
<1>1. LogTypes /\ EventsInv /\ RecoveredInv /\ log \in Seq(Event) /\ now \in Nat /\ Len(log) \in Nat
  BY DEF OpenInv, PatientInv, LogTypes
<1>2. UNCHANGED <<regime, used, log, month, now, raced>> /\ pc = "top" /\ seen' = Len(log)
  BY Zenon DEF GateThrottle
<1>3. PICK t, d : t = CheckThrottleState /\ d = LatestUnrecoveredDetected
  OBVIOUS
<1>4. t # NoState /\ regime = "back_off"
  <2>1. regime \in {"skip", "back_off", "stop", "launch"} /\ regime # "skip"
    BY DEF OpenInv, GateThrottle
  <2>2. ~(t = NoState \/ regime = "launch")
    BY <1>3 DEF GateThrottle, Launch
  <2>3. ~(t # NoState /\ regime = "stop")
    BY <1>3 DEF GateThrottle
  <2> QED
    BY <2>1, <2>2, <2>3
<1> DEFINE raw == IF d.ev # "none" /\ d.agent = t.agent THEN CoerceEpochInt(d.reset, t.reset) ELSE t.reset
<1>5. PICK deadline, wait :
          /\ deadline = ComputeAdjustedResetAt(t.class, raw, t.agent)
          /\ wait = IF deadline > now THEN deadline - now ELSE 0
          /\ nap' = [agent |-> t.agent, deadline |-> deadline, left |-> Least(wait, BACK_OFF_CAP_S)]
          /\ capped' = (capped \/ wait > BACK_OFF_CAP_S)
  BY <1>3, <1>4 DEF GateThrottle
<1>6. /\ d \in Event /\ d.ev = "detected"
      /\ d = ScanForTransient(log) /\ ScanForTransient(log).ev # "none"
  BY <1>1, <1>3, <1>4, ScalarIsOpen, TwoScansAreOne DEF CheckThrottleState
<1>7. /\ t.agent = d.agent /\ t.class = d.class
      /\ t.reset = StateOf(d, NoCache).reset /\ t.reset > now
  <2>1. PICK r : r = EventsDerivedReset(d.agent, d.class, CoerceEpochInt(d.reset, 0), NoCache)
    OBVIOUS
  <2>2. StateOf(d, NoCache) = [agent |-> d.agent, class |-> d.class, reset |-> r]
    BY <2>1 DEF StateOf
  <2>3. r \in Int
    <3>1. StateOf(d, NoCache).reset \in Int
      BY <1>1, <1>6, ResetType
    <3> QED
      BY <2>2, <3>1
  <2>4. t = IF r <= now THEN NoState ELSE [agent |-> d.agent, class |-> d.class, reset |-> r]
    BY <1>3, <1>6, <2>1 DEF CheckThrottleState
  <2>5. t = [agent |-> d.agent, class |-> d.class, reset |-> r] /\ r > now
    BY <1>1, <1>4, <2>3, <2>4
  <2> QED
    BY <2>2, <2>5
<1>8. PICK i \in DOMAIN log : /\ log[i] = d
                              /\ \A j \in DOMAIN log : log[j].ev \in Transient => j <= i
  BY <1>1, <1>6, ScanFindsNewest
<1>9. PICK N \in Nat : N = Len(log) /\ N \in 0..Len(log)
  BY <1>1
<1>10. /\ Due(log, d.agent, N) = WaitOf(d, BackoffExponent(d.agent))
       /\ Due(log, d.agent, N) <= t.reset
  <2>1. \A j \in DOMAIN log : log[j].ev = "detected" /\ log[j].agent = d.agent => j <= i
    BY <1>8 DEF Transient
  <2> QED
    BY <1>1, <1>6, <1>7, <1>8, <1>9, <2>1, ResetIsDue, DueIs
<1>11. PICK x \in Nat : x = BackoffExponent(d.agent)
  BY <1>1, <1>9, ScanCountsTheRow, RowType
<1>12. /\ BASE \in Nat /\ EXP_CAP \in Nat /\ ABSOLUTE_CAP_S \in Nat /\ BACK_OFF_CAP_S \in Nat
       /\ SANITY_S \in Nat
  BY ThrottleAssumption
<1>13. d.reset \in Nat /\ d.at \in Nat /\ d.at <= now /\ d.agent \in used
  BY <1>1, <1>6, <1>8 DEF EventsInv, Event
<1>14. Due(log, d.agent, N) \in Int
  BY <1>1, <1>9, DueType
<1>15. deadline \in Int /\ deadline >= Due(log, d.agent, N)
  <2>1. CASE d.class = "account"
    <3>1. t.reset = CoerceEpochInt(d.reset, 0)
      BY <1>7, <2>1 DEF StateOf, EventsDerivedReset, ExtendReset
    <3>2. d.reset <= now + SANITY_S /\ t.reset = d.reset
      BY <1>1, <1>7, <1>12, <1>13, <3>1 DEF CoerceEpochInt
    <3>3. raw = d.reset
      BY <1>1, <1>6, <1>7, <1>12, <1>13, <3>2 DEF CoerceEpochInt
    <3>4. deadline = d.reset
      BY <1>5, <1>7, <2>1, <3>3 DEF ComputeAdjustedResetAt
    <3> QED
      BY <1>10, <1>13, <1>14, <3>2, <3>4
  <2>2. CASE d.class # "account"
    <3>1. PICK k \in Nat : k = Least(x, EXP_CAP)
      BY <1>11, <1>12 DEF Least
    <3>2. PICK p \in Int : p = 2 ^ k
      BY PowerOfTwo
    <3>3. BASE * p \in Int
      BY <1>12
    <3>4. PICK u \in Int : u = Least(BASE * p, ABSOLUTE_CAP_S)
      BY <1>12, <3>3 DEF Least
    <3>5. BASE * 2 ^ Least(x, EXP_CAP) = BASE * p
      BY <3>1, <3>2
    <3>6. deadline = now + u
      BY <1>5, <1>7, <1>11, <2>2, <3>4, <3>5 DEF ComputeAdjustedResetAt
    <3>7. Due(log, d.agent, N) = d.at + u
      BY <1>10, <1>11, <2>2, <3>4, <3>5 DEF WaitOf
    <3> QED
      BY <1>1, <1>13, <3>4, <3>6, <3>7
  <2> QED
    BY <2>1, <2>2
<1>16. PICK left : left = Least(wait, BACK_OFF_CAP_S)
  OBVIOUS
<1>17. left \in Nat /\ (~(wait > BACK_OFF_CAP_S) => now + left >= deadline)
  BY <1>1, <1>5, <1>12, <1>15, <1>16 DEF Least
<1>18. /\ nap' = [agent |-> d.agent, deadline |-> deadline, left |-> left]
       /\ nap' \in [agent : used, deadline : Int, left : Nat]
  BY <1>5, <1>7, <1>13, <1>15, <1>16, <1>17
<1>19. Reliable' => ~(wait > BACK_OFF_CAP_S)
  BY <1>5 DEF Reliable
<1> QED
  BY <1>2, <1>4, <1>9, <1>15, <1>17, <1>18, <1>19 DEF SleepInv

LEMMA PatientInit == Init => PatientInv
BY DEF Init, PatientInv, EventsInv, RecoveredInv, SkipInv, SleepInv

LEMMA PatientStep == OpenInv /\ PatientInv /\ [Next]_vars => PatientInv'
<1> SUFFICES ASSUME OpenInv, PatientInv, [Next]_vars PROVE PatientInv'
  OBVIOUS
<1>1. LogTypes /\ EventsInv /\ RecoveredInv /\ log \in Seq(Event) /\ now \in Nat /\ Len(log) \in Nat
  BY DEF OpenInv, PatientInv, LogTypes
<1> DEFINE Elsewhere == pc' \notin {"scan", "emit", "select", "sleep", "round"}
<1>2. ASSUME UNCHANGED <<log, used>>, now' \in Nat, now <= now', Reliable' => Reliable
      PROVE  EventsInv' /\ RecoveredInv'
  BY <1>1, <1>2, EventsStay
<1>3. ASSUME UNCHANGED <<log, used, now, regime, capped>>, raced' = raced, Elsewhere
      PROVE  PatientInv'
  <2>1. EventsInv' /\ RecoveredInv'
    BY <1>1, <1>2, <1>3 DEF Reliable
  <2> QED
    BY <1>3, <2>1 DEF PatientInv, SkipInv, SleepInv
<1>4. CASE UNCHANGED vars
  <2>1. UNCHANGED <<log, used, now, regime, capped, raced, pc, active, cleared, nap, ran, seen>>
    BY <1>4, Zenon DEF vars
  <2>2. EventsInv' /\ RecoveredInv'
    BY <1>1, <1>2, <2>1 DEF Reliable
  <2> QED
    BY <2>1, <2>2 DEF PatientInv, SkipInv, SleepInv, Reliable
<1>5. CASE SkipScan
  <2>1. /\ UNCHANGED <<log, used, now, regime, capped, raced>> /\ regime = "skip"
        /\ active' = ActiveNow /\ seen' = Len(log) /\ pc' = "scan"
    BY <1>5, Zenon DEF SkipScan
  <2>2. EventsInv' /\ RecoveredInv'
    BY <1>1, <1>2, <2>1 DEF Reliable
  <2>3. ASSUME Reliable, NEW a \in used \ DOMAIN ActiveNow PROVE now >= Due(log, a, Len(log))
    <3>1. a \in Agents
      BY DEF OpenInv
    <3>2. ASSUME a \in Troubled, LatestTransientPerAgent[a].ev = "detected"
          PROVE  StateOf(LatestTransientPerAgent[a], NoCache).reset <= now
      <4>1. ~(StateOf(LatestTransientPerAgent[a], NoCache).reset > now)
        BY <1>1, <2>3, <3>2, ActiveEntries
      <4>2. LatestTransientPerAgent[a] \in Event
        BY <1>1, <3>2, NewestOf
      <4>3. PICK r \in Int : r = StateOf(LatestTransientPerAgent[a], NoCache).reset
        BY <1>1, <4>2, ResetType
      <4> QED
        BY <1>1, <4>1, <4>3
    <3> QED
      BY <1>1, <2>3, <3>1, <3>2, FreeIsDue
  <2>4. \A i \in (Len(log) + 1)..Len(log) : FALSE
    BY <1>1
  <2>5. Len(log) \in 0..Len(log)
    BY <1>1
  <2> QED
    BY <2>1, <2>2, <2>3, <2>4, <2>5 DEF PatientInv, SkipInv, SleepInv, Reliable
<1>6. CASE SkipRescan
  <2>1. /\ UNCHANGED <<log, used, now, regime, capped, raced, active, seen>> /\ pc = "scan"
        /\ cleared' = PendingRecovered(active)
        /\ pc' = IF cleared' = {} THEN "select" ELSE "emit"
    BY <1>6, Zenon DEF SkipRescan
  <2>2. EventsInv' /\ RecoveredInv'
    BY <1>1, <1>2, <2>1 DEF Reliable
  <2>3. ASSUME NEW a \in PendingRecovered(active) PROVE a \in used \ DOMAIN active
    <3>1. a \in Troubled /\ a \notin DOMAIN active
      BY DEF PendingRecovered, LatestTransientPerAgent
    <3>2. \E i \in DOMAIN log : log[i].agent = a
      BY <1>1, <3>1, NewestOf
    <3> QED
      BY <1>1, <3>1, <3>2 DEF EventsInv
  <2> QED
    BY <2>1, <2>2, <2>3 DEF PatientInv, SkipInv, SleepInv, Reliable
<1>7. CASE EmitRecovered
  <2>1. /\ UNCHANGED <<used, now, regime, capped, raced, active, seen>> /\ pc = "emit"
        /\ pc' = IF cleared' = {} THEN "select" ELSE "emit"
    BY <1>7, Zenon DEF EmitRecovered
  <2>2. PICK a \in cleared : EmitBare("recovered", a) /\ cleared' = cleared \ {a}
    BY <1>7 DEF EmitRecovered
  <2>3. a \in used \ DOMAIN active /\ a \in Agents
    BY <2>1 DEF PatientInv, SkipInv, OpenInv
  <2>4. PICK e \in Event : log' = Append(log, e) /\ e.ev = "recovered" /\ e.agent = a
    BY <2>2, <2>3 DEF EmitBare, Emit, Event
  <2>5. Reliable => now >= Due(log, a, Len(log))
    BY <2>1, <2>2, AnnouncedIsDue
  <2>6. /\ EventsInv' /\ RecoveredInv'
        /\ Len(log') = Len(log) + 1 /\ log'[Len(log) + 1] = e
        /\ \A i \in 1..Len(log) : log'[i] = log[i]
        /\ \A b, n : n \in 0..Len(log) => Due(log', b, n) = Due(log, b, n)
    BY <1>1, <2>1, <2>3, <2>4, <2>5, EventAdded DEF Reliable
  <2>7. /\ regime = "skip" /\ ~capped /\ seen \in 0..Len(log)
        /\ Reliable => \A b \in used \ DOMAIN active : now >= Due(log, b, seen)
        /\ ~raced => \A i \in (seen + 1)..Len(log) : log[i].ev = "recovered"
        /\ cleared \subseteq used \ DOMAIN active
    BY <2>1 DEF PatientInv, SkipInv
  <2>8. PICK t, N : t = log' /\ N = Len(log) /\ N \in Nat /\ Len(t) = N + 1
    BY <1>1, <2>6
  <2>9. seen \in 0..Len(t)
    BY <2>7, <2>8
  <2>10. ~raced => \A i \in (seen + 1)..Len(t) : t[i].ev = "recovered"
    <3>1. SUFFICES ASSUME ~raced, NEW i \in (seen + 1)..(N + 1) PROVE t[i].ev = "recovered"
      BY <2>8
    <3>2. CASE i = N + 1
      BY <2>4, <2>6, <2>8, <3>2
    <3>3. CASE i # N + 1
      <4>1. i \in (seen + 1)..N /\ i \in 1..N
        BY <2>7, <2>8, <3>3
      <4> QED
        BY <2>6, <2>7, <2>8, <3>1, <4>1
    <3> QED
      BY <3>2, <3>3
  <2>11. Reliable => \A b \in used \ DOMAIN active : now >= Due(t, b, seen)
    BY <2>6, <2>7, <2>8
  <2>12. SkipInv'
    BY <2>1, <2>2, <2>7, <2>8, <2>9, <2>10, <2>11 DEF SkipInv, Reliable
  <2> QED
    BY <2>1, <2>6, <2>12 DEF PatientInv, SleepInv
<1>8. CASE SkipSelect
  <2>1. /\ UNCHANGED <<log, used, now, regime, capped, raced>>
        /\ \/ pc' \in {"paused", "down"}
           \/ pc' = "round" /\ ran' \in used
    BY <1>8 DEF SkipSelect, Launch
  <2>2. EventsInv' /\ RecoveredInv'
    BY <1>1, <1>2, <2>1 DEF Reliable
  <2> QED
    BY <2>1, <2>2 DEF PatientInv, SkipInv, SleepInv
<1>9. CASE PauseEnds
  <2>1. UNCHANGED <<log, used, now, regime, capped, raced>> /\ pc' = "top"
    BY <1>9, Zenon DEF PauseEnds
  <2> QED
    BY <1>3, <2>1
<1>10. CASE GateThrottle
  <2>1. UNCHANGED <<log, used, now, regime, raced>> /\ regime # "skip"
    BY <1>10, Zenon DEF GateThrottle
  <2>2. \/ pc' = "round" /\ ran' \in used
        \/ pc' = "sleep"
        \/ pc' = "down"
    BY <1>10 DEF GateThrottle, Launch, OpenInv
  <2>3. capped => capped'
    BY <1>10 DEF GateThrottle, OpenInv
  <2>4. EventsInv' /\ RecoveredInv'
    BY <1>1, <1>2, <2>1, <2>3 DEF Reliable
  <2>5. SleepInv'
    BY <1>10, <2>2, BackOffIsLongEnough DEF SleepInv
  <2> QED
    BY <2>1, <2>2, <2>4, <2>5 DEF PatientInv, SkipInv
<1>11. CASE BackOffEnds
  <2>1. /\ UNCHANGED <<regime, used, now, raced, capped>> /\ pc = "sleep"
        /\ nap.left = 0 \/ now >= nap.deadline
        /\ EmitBare("recovered", nap.agent) /\ \E a \in used : Launch(a)
    BY <1>11, Zenon DEF BackOffEnds
  <2>2. nap.agent \in used /\ nap.agent \in Agents
    BY <2>1 DEF PatientInv, SleepInv, OpenInv
  <2>3. PICK e \in Event : log' = Append(log, e) /\ e.ev = "recovered" /\ e.agent = nap.agent
    BY <2>1, <2>2 DEF EmitBare, Emit, Event
  <2>4. Reliable => now >= Due(log, e.agent, Len(log))
    BY <2>1, <2>3, NappedIsDue
  <2>5. EventsInv' /\ RecoveredInv'
    BY <1>1, <2>1, <2>2, <2>3, <2>4, EventAdded DEF Reliable
  <2>6. pc' = "round" /\ ran' \in used
    BY <2>1 DEF Launch
  <2> QED
    BY <2>1, <2>5, <2>6 DEF PatientInv, SkipInv, SleepInv
<1>12. CASE ServeDies
  <2>1. UNCHANGED <<log, used, now, regime, capped, raced>> /\ pc' = "down"
    BY <1>12, Zenon DEF ServeDies
  <2> QED
    BY <1>3, <2>1
<1>13. CASE ServeStarts
  <2>1. UNCHANGED <<log, used, now, regime, capped, raced>> /\ pc' = "top"
    BY <1>13, Zenon DEF ServeStarts
  <2> QED
    BY <1>3, <2>1
<1>14. CASE RoundEnds
  <2>1. /\ UNCHANGED <<regime, used, now, raced, capped>> /\ pc = "round" /\ pc' = "top"
        /\ Reports(ran)
    BY <1>14, Zenon DEF RoundEnds
  <2>2. ran \in used
    BY <2>1 DEF PatientInv
  <2>3. EventsInv' /\ RecoveredInv'
    BY <2>1, <2>2, ReportAdded DEF Reliable
  <2> QED
    BY <2>1, <2>3 DEF PatientInv, SkipInv, SleepInv
<1>15. CASE OtherRoundEnds
  <2>1. /\ UNCHANGED <<regime, used, now, pc, active, cleared, nap, ran, seen, capped>> /\ pc # "round"
        /\ raced' = (raced \/ pc \in {"scan", "emit", "sleep"})
    BY <1>15, Zenon DEF OtherRoundEnds
  <2>2. PICK a \in used : Reports(a)
    BY <1>15 DEF OtherRoundEnds
  <2>3. Reliable' => Reliable
    BY <2>1 DEF Reliable
  <2>4. /\ EventsInv' /\ RecoveredInv'
        /\ Len(log') = Len(log) + 1 /\ Len(log) \in Nat
        /\ \A b, n : n \in 0..Len(log) => Due(log', b, n) = Due(log, b, n)
    BY <2>1, <2>2, <2>3, ReportAdded
  <2>5. \A n \in 0..Len(log) : n \in 0..Len(log')
    BY <2>4
  <2>6. SkipInv'
    <3>1. regime' = "skip" => ~capped'
      BY <2>1 DEF PatientInv, SkipInv
    <3>2. ASSUME pc' \in {"scan", "emit", "select"}
          PROVE  /\ regime' = "skip" /\ seen' \in 0..Len(log')
                 /\ Reliable' => \A b \in used' \ DOMAIN active' : now' >= Due(log', b, seen')
      <4>1. /\ regime = "skip" /\ seen \in 0..Len(log)
            /\ Reliable => \A b \in used \ DOMAIN active : now >= Due(log, b, seen)
        BY <2>1, <3>2 DEF PatientInv, SkipInv
      <4> QED
        BY <2>1, <2>3, <2>4, <2>5, <4>1
    <3>3. pc' \in {"scan", "emit"} => raced'
      BY <2>1
    <3>4. pc' = "emit" => cleared' \subseteq used' \ DOMAIN active'
      BY <2>1 DEF PatientInv, SkipInv
    <3> QED
      BY <3>1, <3>2, <3>3, <3>4 DEF SkipInv
  <2>7. SleepInv'
    <3>1. SUFFICES ASSUME pc' = "sleep" PROVE SleepInv'
      BY DEF SleepInv
    <3>2. raced' /\ ~Reliable'
      BY <2>1, <3>1 DEF Reliable
    <3>3. regime = "back_off" /\ seen \in 0..Len(log) /\ nap \in [agent : used, deadline : Int, left : Nat]
      BY <2>1, <3>1 DEF PatientInv, SleepInv
    <3> QED
      BY <2>1, <2>5, <3>2, <3>3 DEF SleepInv
  <2> QED
    BY <2>1, <2>4, <2>6, <2>7 DEF PatientInv
<1>16. CASE MonthTurns
  <2>1. UNCHANGED <<log, used, now, regime, capped, raced, pc, active, cleared, nap, ran, seen>>
    BY <1>16, Zenon DEF MonthTurns
  <2>2. EventsInv' /\ RecoveredInv'
    BY <1>1, <1>2, <2>1 DEF Reliable
  <2> QED
    BY <2>1, <2>2 DEF PatientInv, SkipInv, SleepInv, Reliable
<1>17. CASE Tick \/ ClockCorrected
  <2>1. /\ UNCHANGED <<log, used, regime, capped, raced, pc, ran, seen>>
        /\ pc \notin {"scan", "emit", "select"} /\ now' \in Nat /\ now < now'
    <3>1. CASE Tick
      BY <1>1, <3>1 DEF Tick
    <3>2. CASE ClockCorrected
      BY <1>1, <3>2 DEF ClockCorrected
    <3> QED
      BY <1>17, <3>1, <3>2
  <2>2. EventsInv' /\ RecoveredInv'
    BY <1>1, <1>2, <2>1 DEF Reliable
  <2>3. SleepInv'
    <3>1. SUFFICES ASSUME pc = "sleep" PROVE SleepInv'
      BY <2>1 DEF SleepInv
    <3>2. /\ regime = "back_off" /\ seen \in 0..Len(log)
          /\ nap \in [agent : used, deadline : Int, left : Nat]
          /\ ~raced => seen = Len(log)
          /\ Reliable => nap.deadline >= Due(log, nap.agent, seen) /\ now + nap.left >= nap.deadline
      BY <3>1 DEF PatientInv, SleepInv
    <3>3. PICK deadline, left, later :
              /\ deadline \in Int /\ left \in Nat
              /\ deadline = nap.deadline /\ left = nap.left /\ later = nap'
      BY <3>2
    <3>4. /\ later \in [agent : used, deadline : Int, left : Nat]
          /\ later.agent = nap.agent /\ later.deadline = deadline /\ later.left \in Nat
          /\ now + left <= now' + later.left
      <4>1. CASE Tick
        <5>1. later = [nap EXCEPT !.left = IF @ > 0 THEN @ - 1 ELSE 0] /\ now' = now + 1
          BY <3>3, <4>1 DEF Tick
        <5>2. later = [nap EXCEPT !.left = IF left > 0 THEN left - 1 ELSE 0]
          BY <3>2, <3>3, <5>1
        <5>3. PICK l \in Nat : l = IF left > 0 THEN left - 1 ELSE 0
          <6>1. (IF left > 0 THEN left - 1 ELSE 0) \in Nat
            BY <3>3
          <6> QED
            BY <6>1
        <5>4. later = [nap EXCEPT !.left = l]
          BY <5>2, <5>3
        <5>5. /\ later \in [agent : used, deadline : Int, left : Nat]
              /\ later.agent = nap.agent /\ later.deadline = deadline /\ later.left = l
          BY <3>2, <3>3, <5>4
        <5> QED
          BY <1>1, <3>3, <5>1, <5>3, <5>5
      <4>2. CASE ClockCorrected
        BY <1>1, <3>2, <3>3, <4>2 DEF ClockCorrected
      <4> QED
        BY <1>17, <4>1, <4>2
    <3>5. Reliable => now' + later.left >= deadline
      BY <1>1, <2>1, <3>2, <3>3, <3>4
    <3> QED
      BY <2>1, <3>2, <3>3, <3>4, <3>5 DEF SleepInv, Reliable
  <2> QED
    BY <2>1, <2>2, <2>3 DEF PatientInv, SkipInv
<1> QED
  BY <1>4, <1>5, <1>6, <1>7, <1>8, <1>9, <1>10, <1>11, <1>12, <1>13, <1>14, <1>15,
     <1>16, <1>17 DEF Next

LEMMA PatientAlways == Spec => [](OpenInv /\ PatientInv)
<1>1. OpenInv /\ PatientInv /\ [Next]_vars => (OpenInv /\ PatientInv)'
  BY OpenStep, PatientStep
<1> QED
  BY InitIsOpen, PatientInit, <1>1, PTL DEF Spec

(* A step that launches a round.                                           *)
RetryIsDue ==
    /\ pc' = "round" /\ pc # "round" /\ ~raced
    /\ \/ regime = "skip"
       \/ regime # "launch" /\ Cardinality(used) = 1 /\ ~capped
    => now >= DueAt(ran', seen')

(* A single agent has no sibling whose events could hide its throttle.      *)
LEMMA ScalarIsEnough ==
  ASSUME OpenInv, PatientInv, NEW u, used = {u}, CheckThrottleState = NoState,
         u \in Troubled, LatestTransientPerAgent[u].ev = "detected"
  PROVE  StateOf(LatestTransientPerAgent[u], NoCache).reset <= now
<1>1. LogTypes /\ EventsInv /\ log \in Seq(Event) /\ now \in Nat
  BY DEF OpenInv, PatientInv, LogTypes
<1>2. PICK i \in DOMAIN log :
          /\ LatestTransientPerAgent[u] = log[i] /\ log[i].ev \in Transient
          /\ \A j \in DOMAIN log : log[j].ev \in Transient /\ log[j].agent = u => j <= i
  BY <1>1, NewestOf
<1>3. \A j \in DOMAIN log : log[j].ev \in Transient => j <= i
  BY <1>1, <1>2 DEF EventsInv
<1>4. PICK d \in Event : d = log[i] /\ d.ev = "detected"
  BY <1>1, <1>2
<1>5. ScanForTransient(log) = d
  BY <1>1, <1>2, <1>3, <1>4, ScanIs
<1>6. LatestUnrecoveredDetected = d
  BY <1>1, <1>4, <1>5, TwoScansAreOne
<1>7. PICK r : r = EventsDerivedReset(d.agent, d.class, CoerceEpochInt(d.reset, 0), NoCache)
  OBVIOUS
<1>8. StateOf(d, NoCache) = [agent |-> d.agent, class |-> d.class, reset |-> r]
  BY <1>7 DEF StateOf
<1>9. r \in Int
  <2>1. StateOf(d, NoCache).reset \in Int
    BY <1>1, ResetType
  <2> QED
    BY <1>8, <2>1
<1>10. NoState = IF r <= now THEN NoState ELSE [agent |-> d.agent, class |-> d.class, reset |-> r]
  BY <1>4, <1>6, <1>7 DEF CheckThrottleState
<1>11. r <= now
  <2>1. SUFFICES ASSUME ~(r <= now) PROVE FALSE
    OBVIOUS
  <2>2. NoState = [agent |-> d.agent, class |-> d.class, reset |-> r]
    BY <1>10, <2>1
  <2>3. r = 0
    BY <2>2 DEF NoState
  <2> QED
    BY <1>1, <2>1, <2>3
<1> QED
  BY <1>2, <1>4, <1>8, <1>11

LEMMA LaunchIsDue == OpenInv /\ PatientInv /\ [Next]_vars => RetryIsDue
<1> SUFFICES ASSUME OpenInv, PatientInv, [Next]_vars,
                    pc' = "round", pc # "round", ~raced,
                    \/ regime = "skip"
                    \/ regime # "launch" /\ Cardinality(used) = 1 /\ ~capped
             PROVE  now >= DueAt(ran', seen')
  BY DEF RetryIsDue
<1>1. /\ LogTypes /\ EventsInv /\ RecoveredInv /\ now \in Nat /\ used \subseteq Agents
      /\ regime = "skip" => ~capped
  BY DEF OpenInv, PatientInv, SkipInv, LogTypes
<1>2. Reliable
  BY <1>1 DEF Reliable
<1>3. PICK a, n : a = ran' /\ n = seen'
  OBVIOUS
<1>4. SUFFICES now >= Due(log, a, n)
  BY <1>3, DueIs
<1>5. ASSUME regime # "skip" PROVE \E u : used = {u}
  <2>1. IsFiniteSet(used)
    BY <1>1, ThrottleAssumption, FS_Subset
  <2> QED
    BY <1>5, <2>1, FS_Singleton
<1>6. CASE SkipSelect
  <2>1. pc = "select" /\ a \in used \ DOMAIN active /\ n = seen
    BY <1>3, <1>6 DEF SkipSelect, Launch
  <2> QED
    BY <1>2, <2>1 DEF PatientInv, SkipInv
<1>7. CASE GateThrottle
  <2>1. regime # "skip" /\ n = Len(log)
    BY <1>3, <1>7 DEF GateThrottle
  <2>2. PICK u : used = {u}
    BY <1>5, <2>1
  <2>3. CheckThrottleState = NoState
    <3>1. SUFFICES ASSUME CheckThrottleState # NoState PROVE FALSE
      OBVIOUS
    <3>2. PICK t : t = CheckThrottleState /\ t # NoState
      BY <3>1
    <3>3. regime \in {"back_off", "stop"}
      BY <2>1 DEF OpenInv
    <3> QED
      BY <1>7, <3>2, <3>3 DEF GateThrottle
  <2>4. \E b \in used : Launch(b)
    BY <1>7, <2>3 DEF GateThrottle
  <2>5. a = u /\ u \in Agents
    BY <1>1, <1>3, <2>2, <2>4 DEF Launch
  <2>6. now >= Due(log, u, Len(log))
    BY <1>1, <1>2, <2>2, <2>3, <2>5, ScalarIsEnough, FreeIsDue
  <2> QED
    BY <2>1, <2>5, <2>6
<1>8. CASE BackOffEnds
  <2>1. /\ pc = "sleep" /\ n = seen /\ (nap.left = 0 \/ now >= nap.deadline)
        /\ \E b \in used : Launch(b)
    BY <1>3, <1>8 DEF BackOffEnds
  <2>2. regime = "back_off" /\ nap.agent \in used
    BY <2>1 DEF PatientInv, SleepInv
  <2>3. PICK u : used = {u}
    BY <1>5, <2>2
  <2>4. a = nap.agent
    BY <1>3, <2>1, <2>2, <2>3 DEF Launch
  <2>5. now >= Due(log, nap.agent, seen)
    BY <1>2, <2>1, NappedIsDue
  <2> QED
    BY <2>1, <2>4, <2>5
<1>9. SkipSelect \/ GateThrottle \/ BackOffEnds
  <2>1. UNCHANGED vars => pc' = pc
    BY DEF vars
  <2> QED
    BY <2>1 DEF Next, SkipScan, SkipRescan, EmitRecovered, PauseEnds, ServeDies, ServeStarts,
        RoundEnds, OtherRoundEnds, MonthTurns, Tick, ClockCorrected
<1> QED
  BY <1>6, <1>7, <1>8, <1>9

(* Serve never launches a throttled agent before the ladder of its whole    *)
(* history lets it, for every ladder, history and turn of the month, where  *)
(* NoEarlyRetry says so: the map of the skip path, the scalar of a single   *)
(* agent and the back-off sleep all end no sooner than the last failure's   *)
(* reset (_active_throttles, _check_throttle_state, _apply_back_off).       *)
THEOREM RetriesAreDue == Spec => NoEarlyRetry
<1>1. OpenInv /\ PatientInv /\ [Next]_vars => [RetryIsDue]_vars
  BY LaunchIsDue
<1> QED
  BY PatientAlways, <1>1, PTL DEF Spec, NoEarlyRetry, RetryIsDue
=============================================================================
