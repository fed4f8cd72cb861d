--------------------------- MODULE WatcherProofs ---------------------------
(***************************************************************************)
(* The two watchers of a round. The monitor holds the newest of the events  *)
(* it has read, and acts once on every episode, for every size of its       *)
(* buffer and of its memory of episodes, every deployment and every number  *)
(* of faults. Serve's own watcher leaves no process and no memory limit     *)
(* behind, and ends a round only for a pressure that lasts, for every       *)
(* threshold, configuration and number of rounds and of faults.             *)
(***************************************************************************)
EXTENDS Monitor, SpawnRound, SequenceTheorems, FiniteSetTheorems, TLAPS

----------------------------------------------------------------------------
(* LastOf. *)

LEMMA LargestOfTwo ==
  ASSUME NEW a \in Int, NEW b \in Int
  PROVE  Largest({a, b}) = IF a <= b THEN b ELSE a
<1> DEFINE m == IF a <= b THEN b ELSE a
<1>1. m \in {a, b} /\ \A y \in {a, b} : y <= m
  OBVIOUS
<1>2. ASSUME NEW x \in {a, b}, \A y \in {a, b} : y <= x
      PROVE  x = m
  BY <1>2
<1> QED
  BY <1>1, <1>2 DEF Largest

LEMMA LastOfFacts ==
  ASSUME NEW S, NEW s \in Seq(S), NEW n \in Nat
  PROVE  LET l == LastOf(s, n)
             d == IF Len(s) <= n THEN 0 ELSE Len(s) - n
         IN  /\ l \in Seq(S)
             /\ Len(l) = Len(s) - d
             /\ \A i \in 1..Len(l) : l[i] = s[i + d]
<1> DEFINE d == IF Len(s) <= n THEN 0 ELSE Len(s) - n
<1>1. Len(s) \in Nat /\ s \in [1..Len(s) -> S]
  BY LenProperties
<1>2. Largest({1, Len(s) - n + 1}) = d + 1
  <2>1. Len(s) - n + 1 \in Int
    BY <1>1
  <2> QED
    BY <1>1, <2>1, LargestOfTwo
<1>3. d \in Nat /\ d <= Len(s)
  BY <1>1
<1>4. LastOf(s, n) = SubSeq(s, d + 1, Len(s))
  BY <1>2 DEF LastOf
<1> HIDE DEF d
<1>5. \A i \in (d + 1)..Len(s) : s[i] \in S
  BY <1>1, <1>3
<1>6. /\ SubSeq(s, d + 1, Len(s)) \in Seq(S)
      /\ Len(SubSeq(s, d + 1, Len(s))) = IF d + 1 <= Len(s) THEN Len(s) - (d + 1) + 1 ELSE 0
      /\ \A i \in 1..(Len(s) - (d + 1) + 1) : SubSeq(s, d + 1, Len(s))[i] = s[(d + 1) + i - 1]
  <2>1. d + 1 \in Int /\ Len(s) \in Int
    BY <1>1, <1>3
  <2> QED
    BY <1>5, <2>1, SubSeqProperties
<1>7. Len(LastOf(s, n)) = Len(s) - d
  <2>1. \A x, y \in Nat : y <= x => (IF y + 1 <= x THEN x - (y + 1) + 1 ELSE 0) = x - y
    OBVIOUS
  <2> QED
    BY <1>1, <1>3, <1>4, <1>6, <2>1
<1>8. \A i \in 1..Len(LastOf(s, n)) : LastOf(s, n)[i] = s[i + d]
  <2> SUFFICES ASSUME NEW i \in 1..Len(LastOf(s, n))
               PROVE  LastOf(s, n)[i] = s[i + d]
    OBVIOUS
  <2>1. i \in 1..(Len(s) - (d + 1) + 1)
    BY <1>1, <1>3, <1>7
  <2>2. (d + 1) + i - 1 = i + d
    BY <1>1, <1>3, <1>7
  <2> QED
    BY <1>4, <1>6, <2>1, <2>2
<1> QED
  BY <1>4, <1>6, <1>7, <1>8 DEF d

(* The newest n of what was held and what is new are the newest n of all. *)
LEMMA LastOfConcat ==
  ASSUME NEW S, NEW a \in Seq(S), NEW b \in Seq(S), NEW n \in Nat
  PROVE  LastOf(LastOf(a, n) \o b, n) = LastOf(a \o b, n)
<1> DEFINE l == LastOf(a, n)
           d == IF Len(a) <= n THEN 0 ELSE Len(a) - n
           ab == a \o b
           lb == l \o b
           D == IF Len(ab) <= n THEN 0 ELSE Len(ab) - n
           E == IF Len(lb) <= n THEN 0 ELSE Len(lb) - n
           L == LastOf(ab, n)
           R == LastOf(lb, n)
<1>1. l \in Seq(S) /\ Len(l) = Len(a) - d /\ \A i \in 1..Len(l) : l[i] = a[i + d]
  BY LastOfFacts
<1>2. Len(a) \in Nat /\ Len(b) \in Nat /\ Len(l) \in Nat
  BY <1>1, LenProperties
<1>3. /\ ab \in Seq(S) /\ Len(ab) = Len(a) + Len(b)
      /\ \A i \in 1..Len(a) + Len(b) : ab[i] = IF i <= Len(a) THEN a[i] ELSE b[i - Len(a)]
  BY ConcatProperties
<1> HIDE DEF l
<1>4. /\ lb \in Seq(S) /\ Len(lb) = Len(l) + Len(b)
      /\ \A i \in 1..Len(l) + Len(b) : lb[i] = IF i <= Len(l) THEN l[i] ELSE b[i - Len(l)]
  BY <1>1, ConcatProperties
<1> HIDE DEF ab, lb
<1>5. L \in Seq(S) /\ Len(L) = Len(ab) - D /\ \A i \in 1..Len(L) : L[i] = ab[i + D]
  BY <1>3, LastOfFacts
<1>6. R \in Seq(S) /\ Len(R) = Len(lb) - E /\ \A i \in 1..Len(R) : R[i] = lb[i + E]
  BY <1>4, LastOfFacts
<1>7. D = E + d /\ E \in Nat /\ d \in Nat
  <2>1. ASSUME NEW x \in Nat, NEW y \in Nat, NEW c \in Nat, NEW z \in Int,
               c = (IF x <= n THEN 0 ELSE x - n), z = x - c
        PROVE  /\ (IF x + y <= n THEN 0 ELSE (x + y) - n)
                      = (IF z + y <= n THEN 0 ELSE (z + y) - n) + c
               /\ (IF z + y <= n THEN 0 ELSE (z + y) - n) \in Nat
    BY <2>1
  <2>2. d \in Nat
    BY <1>2
  <2>3. d = (IF Len(a) <= n THEN 0 ELSE Len(a) - n)
    OBVIOUS
  <2> HIDE DEF d
  <2>4. /\ (IF Len(a) + Len(b) <= n THEN 0 ELSE (Len(a) + Len(b)) - n)
             = (IF Len(l) + Len(b) <= n THEN 0 ELSE (Len(l) + Len(b)) - n) + d
        /\ (IF Len(l) + Len(b) <= n THEN 0 ELSE (Len(l) + Len(b)) - n) \in Nat
    <3>1. Len(l) = Len(a) - d /\ Len(l) \in Int /\ Len(a) \in Nat /\ Len(b) \in Nat
      BY <1>1, <1>2
    <3>2. PICK x \in Nat : x = Len(a)
      BY <3>1
    <3>3. PICK y \in Nat : y = Len(b)
      BY <3>1
    <3>4. PICK z \in Int : z = Len(l)
      BY <3>1
    <3>5. PICK c \in Nat : c = d
      BY <2>2
    <3>6. c = (IF x <= n THEN 0 ELSE x - n) /\ z = x - c
      BY <2>3, <3>1, <3>2, <3>4, <3>5
    <3>7. /\ (IF x + y <= n THEN 0 ELSE (x + y) - n)
               = (IF z + y <= n THEN 0 ELSE (z + y) - n) + c
          /\ (IF z + y <= n THEN 0 ELSE (z + y) - n) \in Nat
      BY <2>1, <3>6
    <3> QED
      BY <3>2, <3>3, <3>4, <3>5, <3>7
  <2> QED
    BY <1>3, <1>4, <2>2, <2>4
<1> HIDE DEF L, R, D, E, d
<1>8. Len(L) = Len(R) /\ Len(L) \in Nat
  BY <1>1, <1>2, <1>3, <1>4, <1>5, <1>6, <1>7, LenProperties
<1>9. ASSUME NEW i \in 1..Len(L)
      PROVE  L[i] = R[i]
  <2>1. L[i] = ab[i + D] /\ R[i] = lb[i + E]
    BY <1>5, <1>6, <1>8
  <2>2. i + D \in 1..Len(a) + Len(b) /\ i + E \in 1..Len(l) + Len(b)
    BY <1>2, <1>3, <1>4, <1>5, <1>6, <1>7, <1>8
  <2>3. CASE i + E <= Len(l)
    <3>1. lb[i + E] = l[i + E] /\ i + E \in 1..Len(l)
      BY <1>2, <1>4, <1>7, <2>2, <2>3
    <3>2. l[i + E] = a[(i + E) + d]
      BY <1>1, <3>1
    <3>3. (i + E) + d = i + D /\ i + D <= Len(a)
      BY <1>1, <1>2, <1>7, <2>3, <1>8
    <3> QED
      BY <1>3, <2>1, <2>2, <3>1, <3>2, <3>3
  <2>4. CASE ~(i + E <= Len(l))
    <3>1. lb[i + E] = b[(i + E) - Len(l)]
      BY <1>4, <2>2, <2>4
    <3>2. ~(i + D <= Len(a)) /\ (i + D) - Len(a) = (i + E) - Len(l)
      BY <1>1, <1>2, <1>7, <1>8, <2>4
    <3> QED
      BY <1>3, <2>1, <2>2, <3>1, <3>2
  <2> QED
    BY <2>3, <2>4
<1>10. L = R
  BY <1>5, <1>6, <1>8, <1>9, SeqEqual
<1> QED
  BY <1>10 DEF L, R, ab, lb, l

----------------------------------------------------------------------------
(* What has been read of the two files, and what is new in them. *)

LEMMA PrefixOfConcat ==
  ASSUME NEW S, NEW s \in Seq(S), NEW t \in Seq(S), NEW n \in 0..Len(s)
  PROVE  SubSeq(s \o t, 1, n) = SubSeq(s, 1, n)
<1>1. Len(s) \in Nat
  BY LenProperties
<1>2. CASE n = 0
  BY <1>1, <1>2, SubSeqEmpty
<1>3. CASE n # 0
  <2>1. n \in 1..Len(s) /\ 1 \in 1..Len(s)
    BY <1>1, <1>3
  <2> QED
    BY <2>1, SubSeqOfConcat1
<1> QED
  BY <1>2, <1>3

LEMMA SubSeqType ==
  ASSUME NEW S, NEW s \in Seq(S), NEW m \in 1..Len(s) + 1, NEW n \in 0..Len(s)
  PROVE  SubSeq(s, m, n) \in Seq(S)
<1>1. Len(s) \in Nat /\ s \in [1..Len(s) -> S]
  BY LenProperties
<1>2. m \in Int /\ n \in Int /\ \A i \in m..n : s[i] \in S
  BY <1>1
<1> QED
  BY <1>2, SubSeqProperties

LEMMA CutInTwo ==
  ASSUME NEW S, NEW s \in Seq(S), NEW n \in 0..Len(s)
  PROVE  /\ SubSeq(s, 1, n) \in Seq(S) /\ SubSeq(s, n + 1, Len(s)) \in Seq(S)
         /\ SubSeq(s, 1, n) \o SubSeq(s, n + 1, Len(s)) = s
<1>1. Len(s) \in Nat
  BY LenProperties
<1>2. 1 \in 1..Len(s) + 1 /\ n + 1 \in 1..Len(s) + 1 /\ Len(s) \in 0..Len(s)
      /\ n \in (1 - 1)..Len(s) /\ Len(s) \in n..Len(s)
  BY <1>1
<1>3. SubSeq(s, 1, n) \in Seq(S) /\ SubSeq(s, n + 1, Len(s)) \in Seq(S)
  BY <1>1, <1>2, SubSeqType
<1>4. SubSeq(s, 1, n) \o SubSeq(s, n + 1, Len(s)) = SubSeq(s, 1, Len(s))
  BY <1>2, ConcatAdjacentSubSeq
<1> QED
  BY <1>3, <1>4, SubSeqFull

(* m lines of one file and n of the next are old, the others new; the second  *)
(* file is begun only once the first has been read to its end.               *)
Split(f, m, g, n, old, new, all) ==
    /\ all = f \o g
    /\ m \in 0..Len(f) /\ n \in 0..Len(g) /\ (n > 0 => m = Len(f))
    /\ old = SubSeq(all, 1, m + n)
    /\ new = SubSeq(f, m + 1, Len(f)) \o SubSeq(g, n + 1, Len(g))

LEMMA OldAndNew ==
  ASSUME NEW S, NEW f \in Seq(S), NEW m, NEW g \in Seq(S), NEW n, NEW old, NEW new, NEW all,
         Split(f, m, g, n, old, new, all)
  PROVE  old \in Seq(S) /\ new \in Seq(S) /\ old \o new = all
<1> USE DEF Split
<1> DEFINE f1 == SubSeq(f, 1, m)
           f2 == SubSeq(f, m + 1, Len(f))
           g1 == SubSeq(g, 1, n)
           g2 == SubSeq(g, n + 1, Len(g))
<1>1. f1 \in Seq(S) /\ f2 \in Seq(S) /\ f1 \o f2 = f
  BY CutInTwo
<1>2. g1 \in Seq(S) /\ g2 \in Seq(S) /\ g1 \o g2 = g
  BY CutInTwo
<1>3. Len(f) \in Nat /\ Len(g) \in Nat
  BY LenProperties
<1>4. f2 \o g2 \in Seq(S)
  BY <1>1, <1>2, ConcatProperties
<1>5. CASE n = 0
  <2>1. m + n = m /\ g2 = g
    BY <1>3, <1>5, SubSeqFull
  <2>2. SubSeq(f \o g, 1, m + n) = f1
    BY <2>1, PrefixOfConcat
  <2>3. f1 \o (f2 \o g) = f \o g
    <3> HIDE DEF f1, f2
    <3>0. f1 \in Seq(S) /\ f2 \in Seq(S) /\ g \in Seq(S)
      BY <1>1
    <3>1. (f1 \o f2) \o g = f1 \o (f2 \o g)
      BY ONLY <3>0
    <3> QED
      BY <1>1, <3>1
  <2> QED
    BY <1>1, <1>4, <2>1, <2>2, <2>3
<1>6. CASE n # 0
  <2>1. m = Len(f)
    BY <1>3, <1>6
  <2>2. f2 = <<>>
    BY <1>3, <2>1, SubSeqEmpty
  <2>3. f2 \o g2 = g2
    BY <1>2, <2>2, ConcatEmptySeq
  <2>4. f \o g = (f \o g1) \o g2 /\ f \o g1 \in Seq(S) /\ Len(f \o g1) = Len(f) + Len(g1)
    <3> HIDE DEF g1, g2
    <3>0. g1 \in Seq(S) /\ g2 \in Seq(S) /\ f \in Seq(S)
      BY <1>2
    <3>1. (f \o g1) \o g2 = f \o (g1 \o g2)
      BY ONLY <3>0
    <3>2. f \o g1 \in Seq(S) /\ Len(f \o g1) = Len(f) + Len(g1)
      BY <1>2, ConcatProperties
    <3> QED
      BY <1>2, <3>1, <3>2
  <2>5. Len(g1) = n
    <3>1. 1 \in Int /\ n \in Int /\ \A i \in 1..n : g[i] \in S
      BY <1>3, LenProperties
    <3>2. Len(g1) = IF 1 <= n THEN n - 1 + 1 ELSE 0
      BY <3>1, SubSeqProperties
    <3> QED
      BY <1>3, <1>6, <3>2
  <2>6. SubSeq(f \o g, 1, m + n) = SubSeq(f \o g1, 1, m + n)
    <3>1. m + n \in 0..Len(f \o g1)
      BY <1>3, <2>1, <2>4, <2>5
    <3> QED
      <4> DEFINE fg == f \o g1
      <4>1. fg \in Seq(S) /\ g2 \in Seq(S) /\ m + n \in 0..Len(fg)
        BY <1>2, <2>4, <3>1
      <4> HIDE DEF fg, g2
      <4>2. SubSeq(fg \o g2, 1, m + n) = SubSeq(fg, 1, m + n)
        BY <4>1, PrefixOfConcat
      <4> QED
        BY <2>4, <4>2 DEF fg
  <2>7. SubSeq(f \o g1, 1, m + n) = f \o g1
    BY <2>1, <2>4, <2>5, SubSeqFull
  <2> QED
    BY <1>4, <2>3, <2>4, <2>6, <2>7
<1> QED
  BY <1>3, <1>5, <1>6

----------------------------------------------------------------------------
(* The tail. *)

(* Two files of events; the second is begun when the month turns. *)
FilesInv ==
    /\ \E S : files \in [1..2 -> Seq(S)]
    /\ cur \in 1..2 /\ (cur = 1 => files[2] = <<>>)

(* How far the monitor has read in each. *)
OffsetsInv ==
    /\ offsets \in [1..2 -> Nat]
    /\ offsets[1] <= Len(files[1]) /\ offsets[2] <= Len(files[2])
    /\ offsets[2] > 0 => offsets[1] = Len(files[1])
    /\ read_to = offsets[1] + offsets[2]

BufferInv == buffer = LastOf(SubSeq(Log, 1, read_to), BUFFER)

TailInv == FilesInv /\ OffsetsInv /\ BufferInv

LEMMA LastOfNone == LastOf(<<>>, BUFFER) = <<>>
<1>1. PICK e \in Seq({}) : e = <<>>
  <2>1. <<>> \in Seq({})
    BY EmptySeq
  <2> QED
    BY <2>1
<1>2. BUFFER \in Nat
  BY MonitorAssumption
<1>3. LET d == IF Len(e) <= BUFFER THEN 0 ELSE Len(e) - BUFFER
      IN  LastOf(e, BUFFER) \in Seq({}) /\ Len(LastOf(e, BUFFER)) = Len(e) - d
  BY <1>2, LastOfFacts
<1>4. Len(e) = 0 /\ 0 <= BUFFER
  BY <1>1, <1>2
<1>5. Len(LastOf(e, BUFFER)) = 0 - (IF 0 <= BUFFER THEN 0 ELSE 0 - BUFFER)
  BY <1>3, <1>4
<1>6. Len(LastOf(e, BUFFER)) = 0
  BY <1>4, <1>5
<1> QED
  BY <1>1, <1>3, <1>6, EmptySeq

LEMMA TailInit == Init => TailInv
<1> SUFFICES ASSUME Init PROVE TailInv
  OBVIOUS
<1>1. files = <<<<>>, <<>>>> /\ cur = 1 /\ offsets = <<0, 0>> /\ read_to = 0 /\ buffer = <<>>
  BY DEF Init
<1>2. files \in [1..2 -> Seq({})] /\ files[1] = <<>> /\ files[2] = <<>>
  <2>1. PICK e : e = <<>>
    OBVIOUS
  <2>2. e \in Seq({})
    BY <2>1
  <2>3. <<e, e>> \in [1..2 -> Seq({})] /\ <<e, e>>[1] = e /\ <<e, e>>[2] = e
    BY <2>2
  <2> QED
    BY <1>1, <2>1, <2>3
<1>3. FilesInv
  BY <1>1, <1>2 DEF FilesInv
<1>4. OffsetsInv
  BY <1>1, <1>2 DEF OffsetsInv
<1>5. SubSeq(Log, 1, read_to) = <<>>
  BY <1>1, SubSeqEmpty
<1> QED
  BY <1>1, <1>3, <1>4, <1>5, LastOfNone DEF TailInv, BufferInv

LEMMA TailFrame ==
  ASSUME TailInv, UNCHANGED <<files, cur, offsets, read_to, buffer>>
  PROVE  TailInv'
<1>1. files' = files /\ cur' = cur /\ offsets' = offsets /\ read_to' = read_to /\ buffer' = buffer
  OBVIOUS
<1>2. FilesInv'
  BY <1>1 DEF TailInv, FilesInv
<1>3. OffsetsInv'
  BY <1>1 DEF TailInv, OffsetsInv
<1>4. BufferInv'
  BY <1>1 DEF TailInv, BufferInv, Log
<1> QED
  BY <1>2, <1>3, <1>4 DEF TailInv

(* emit appends to the newest file, so to the log. *)
LEMMA EmitAppends ==
  ASSUME FilesInv, NEW T, NEW evs \in Seq(T), Emit(evs), cur' = cur
  PROVE  /\ FilesInv'
         /\ Log' = Log \o evs
         /\ \E S : Log \in Seq(S) /\ evs \in Seq(S)
         /\ files'[1] = files[1] \/ files[2] = <<>>
         /\ \A f \in 1..2 : Len(files[f]) \in Nat /\ Len(files[f]) <= Len(files'[f])
         /\ Len(Log) = Len(files[1]) + Len(files[2])
<1>1. PICK S0 : files \in [1..2 -> Seq(S0)]
  BY DEF FilesInv
<1> DEFINE S == S0 \cup T
<1>2. evs \in Seq(S)
  BY SeqMonotonic
<1>3. \A f \in 1..2 : files[f] \in Seq(S)
  BY <1>1, SeqMonotonic
<1>4. files \in [1..2 -> Seq(S)]
  BY <1>1, <1>3
<1> HIDE DEF S
<1>5. files' = [files EXCEPT ![cur] = files[cur] \o evs] /\ cur \in 1..2
  BY DEF Emit, FilesInv
<1>6. \A f \in 1..2 : /\ files[f] \o evs \in Seq(S)
                      /\ Len(files[f] \o evs) = Len(files[f]) + Len(evs)
                      /\ Len(files[f]) \in Nat /\ Len(evs) \in Nat
  BY <1>2, <1>3, ConcatProperties, LenProperties
<1>7. files' \in [1..2 -> Seq(S)] /\ \A f \in 1..2 : files'[f] = IF f = cur THEN files[f] \o evs ELSE files[f]
  BY <1>4, <1>5, <1>6
<1>8. FilesInv'
  <2>1. cur' = 1 => files'[2] = <<>>
    BY <1>5, <1>7 DEF FilesInv
  <2> QED
    BY <1>5, <1>7, <2>1 DEF FilesInv
<1>9. Log' = Log \o evs
  <2>1. CASE cur = 1
    <3>1. files[2] = <<>> /\ files'[1] = files[1] \o evs /\ files'[2] = <<>>
      BY <1>7, <2>1 DEF FilesInv
    <3>2. files[1] \o <<>> = files[1] /\ (files[1] \o evs) \o <<>> = files[1] \o evs
      BY <1>3, <1>6, ConcatEmptySeq
    <3> QED
      BY <3>1, <3>2 DEF Log
  <2>2. CASE cur = 2
    <3>1. files'[1] = files[1] /\ files'[2] = files[2] \o evs
      BY <1>7, <2>2
    <3>2. files[1] \in Seq(S) /\ files[2] \in Seq(S) /\ evs \in Seq(S)
      BY <1>2, <1>3
    <3>3. (files[1] \o files[2]) \o evs = files[1] \o (files[2] \o evs)
      <4>1. \A a, b, c \in Seq(S) : (a \o b) \o c = a \o (b \o c)
        <5> TAKE a, b, c \in Seq(S)
        <5> QED
          OBVIOUS
      <4> QED
        BY <3>2, <4>1, Zenon
    <3> QED
      BY <3>1, <3>3 DEF Log
  <2> QED
    BY <1>5, <2>1, <2>2
<1>10. Log \in Seq(S) /\ Len(Log) = Len(files[1]) + Len(files[2])
  BY <1>3, ConcatProperties DEF Log
<1>11. files'[1] = files[1] \/ files[2] = <<>>
  BY <1>5, <1>7 DEF FilesInv
<1>12. \A f \in 1..2 : Len(files[f]) \in Nat /\ Len(files[f]) <= Len(files'[f])
  BY <1>6, <1>7
<1> QED
  BY <1>2, <1>8, <1>9, <1>10, <1>11, <1>12

(* What is emitted is not in what has been read. *)
LEMMA TailEmit ==
  ASSUME TailInv, NEW T, NEW evs \in Seq(T), Emit(evs),
         UNCHANGED <<cur, offsets, read_to, buffer>>
  PROVE  TailInv'
<1>1. FilesInv /\ OffsetsInv /\ BufferInv
  BY DEF TailInv
<1>2. cur' = cur /\ offsets' = offsets /\ read_to' = read_to /\ buffer' = buffer
  OBVIOUS
<1>3. /\ FilesInv'
      /\ Log' = Log \o evs
      /\ \E S : Log \in Seq(S) /\ evs \in Seq(S)
      /\ files'[1] = files[1] \/ files[2] = <<>>
      /\ \A f \in 1..2 : Len(files[f]) \in Nat /\ Len(files[f]) <= Len(files'[f])
      /\ Len(Log) = Len(files[1]) + Len(files[2])
  BY <1>1, <1>2, EmitAppends
<1>4. OffsetsInv'
  <2>1. /\ offsets[1] \in Nat /\ offsets[2] \in Nat
        /\ offsets[1] <= Len(files[1]) /\ offsets[2] <= Len(files[2])
        /\ offsets[2] > 0 => offsets[1] = Len(files[1])
        /\ read_to = offsets[1] + offsets[2]
    BY <1>1 DEF OffsetsInv
  <2>2. PICK S : Log \in Seq(S)
    BY <1>3
  <2>3. offsets[1] <= Len(files'[1]) /\ offsets[2] <= Len(files'[2])
    <3>1. \A f \in 1..2 : Len(files[f]) <= Len(files'[f]) /\ Len(files[f]) \in Nat /\ Len(files'[f]) \in Nat
      <4>1. PICK R : files' \in [1..2 -> Seq(R)]
        BY <1>3 DEF FilesInv
      <4> QED
        BY <1>3, <4>1, LenProperties
    <3> QED
      BY <2>1, <3>1
  <2>4. offsets[2] > 0 => offsets[1] = Len(files'[1])
    <3> SUFFICES ASSUME offsets[2] > 0 PROVE offsets[1] = Len(files'[1])
      OBVIOUS
    <3>1. files[2] # <<>>
      BY <1>3, <2>1, EmptySeq
    <3> QED
      BY <1>3, <2>1, <3>1
  <2> QED
    BY <1>1, <1>2, <2>1, <2>3, <2>4 DEF OffsetsInv
<1>5. SubSeq(Log', 1, read_to) = SubSeq(Log, 1, read_to)
  <2>1. PICK S : Log \in Seq(S) /\ evs \in Seq(S)
    BY <1>3
  <2>2. read_to \in 0..Len(Log)
    <3>1. Len(files[1]) \in Nat /\ Len(files[2]) \in Nat
      BY <1>3
    <3>2. /\ offsets[1] \in Nat /\ offsets[2] \in Nat
          /\ offsets[1] <= Len(files[1]) /\ offsets[2] <= Len(files[2])
          /\ read_to = offsets[1] + offsets[2]
      BY <1>1 DEF OffsetsInv
    <3>3. Len(Log) = Len(files[1]) + Len(files[2])
      BY <1>3
    <3>4. \A a, b, c, d \in Nat : a <= c /\ b <= d => a + b \in 0..(c + d)
      OBVIOUS
    <3>5. offsets[1] + offsets[2] \in 0..(Len(files[1]) + Len(files[2]))
      BY <3>1, <3>2, <3>4
    <3> QED
      BY <3>2, <3>3, <3>5
  <2> QED
    BY <1>3, <2>1, <2>2, PrefixOfConcat
<1>6. BufferInv'
  BY <1>1, <1>2, <1>5 DEF BufferInv
<1> QED
  BY <1>3, <1>4, <1>6 DEF TailInv

(* A read takes both files to their end and keeps the newest of it all. *)
LEMMA ReadHolds ==
  ASSUME TailInv, TailRead
  PROVE  /\ buffer' = LastOf(Log, BUFFER)
         /\ offsets' = <<Len(files[1]), Len(files[2])>>
         /\ read_to' = Len(files[1]) + Len(files[2])
         /\ Len(files[1]) \in Nat /\ Len(files[2]) \in Nat
         /\ \E S : Log \in Seq(S)
         /\ Len(Log) = Len(files[1]) + Len(files[2])
<1>1. PICK S : files \in [1..2 -> Seq(S)]
  BY DEF TailInv, FilesInv
<1>2. PICK f \in Seq(S) : f = files[1]
  BY <1>1
<1>3. PICK g \in Seq(S) : g = files[2]
  BY <1>1
<1>4. Len(f) \in Nat /\ Len(g) \in Nat
  BY LenProperties
<1>5. /\ offsets[1] \in Nat /\ offsets[2] \in Nat
      /\ offsets[1] <= Len(f) /\ offsets[2] <= Len(g)
      /\ offsets[2] > 0 => offsets[1] = Len(f)
      /\ read_to = offsets[1] + offsets[2]
  BY <1>2, <1>3 DEF TailInv, OffsetsInv
<1>6. PICK m \in 0..Len(f) : m = offsets[1]
  BY <1>4, <1>5
<1>7. PICK n \in 0..Len(g) : n = offsets[2]
  BY <1>4, <1>5
<1>18. PICK all : all = f \o g
  OBVIOUS
<1>16. PICK old : old = SubSeq(all, 1, m + n)
  OBVIOUS
<1>17. PICK new : new = SubSeq(f, m + 1, Len(f)) \o SubSeq(g, n + 1, Len(g))
  OBVIOUS
<1>8. ReadNew = new
  <2>1. ~(Len(f) < m) /\ ~(Len(g) < n)
    BY <1>4
  <2> QED
    BY <1>2, <1>3, <1>6, <1>7, <1>17, <2>1 DEF ReadNew, NewIn
<1>9. old \in Seq(S) /\ new \in Seq(S) /\ old \o new = all
  <2>1. n > 0 => m = Len(f)
    BY <1>5, <1>6, <1>7
  <2>2. Split(f, m, g, n, old, new, all)
    BY <1>16, <1>17, <1>18, <2>1 DEF Split
  <2> QED
    BY <2>2, OldAndNew
<1>10. Log = all
  BY <1>2, <1>3, <1>18 DEF Log
<1>11. buffer = LastOf(old, BUFFER)
  BY <1>5, <1>6, <1>7, <1>10, <1>16 DEF TailInv, BufferInv
<1>12. LastOf(LastOf(old, BUFFER) \o new, BUFFER) = LastOf(old \o new, BUFFER)
  BY <1>9, MonitorAssumption, LastOfConcat
<1>13. buffer' = LastOf(Log, BUFFER)
  BY <1>8, <1>9, <1>10, <1>11, <1>12 DEF TailRead
<1>14. Log \in Seq(S) /\ Len(Log) = Len(f) + Len(g)
  BY <1>10, <1>18, ConcatProperties
<1>15. offsets' = <<Len(f), Len(g)>> /\ read_to' = Len(Log)
  BY <1>2, <1>3 DEF TailRead
<1> QED
  BY <1>2, <1>3, <1>4, <1>13, <1>14, <1>15

(* After a read, and whatever is emitted in the same step. *)
LEMMA TailAfterRead ==
  ASSUME TailInv, TailRead, NEW T, NEW evs \in Seq(T), Emit(evs), cur' = cur
  PROVE  TailInv'
<1>1. FilesInv
  BY DEF TailInv
<1>2. /\ buffer' = LastOf(Log, BUFFER)
      /\ offsets' = <<Len(files[1]), Len(files[2])>>
      /\ read_to' = Len(files[1]) + Len(files[2])
      /\ Len(files[1]) \in Nat /\ Len(files[2]) \in Nat
  BY ReadHolds
<1>3. /\ FilesInv'
      /\ Log' = Log \o evs
      /\ \E S : Log \in Seq(S) /\ evs \in Seq(S)
      /\ files'[1] = files[1] \/ files[2] = <<>>
      /\ \A f \in 1..2 : Len(files[f]) \in Nat /\ Len(files[f]) <= Len(files'[f])
      /\ Len(Log) = Len(files[1]) + Len(files[2])
  BY <1>1, EmitAppends
<1>4. PICK a \in Nat : a = Len(files[1])
  BY <1>2
<1>5. PICK b \in Nat : b = Len(files[2])
  BY <1>2
<1>6. offsets' = <<a, b>> /\ read_to' = a + b
  BY <1>2, <1>4, <1>5
<1>7. b > 0 => a = Len(files'[1])
  <2>1. Len(<<>>) = 0
    OBVIOUS
  <2>2. files[2] = <<>> => b = 0
    BY <1>5, <2>1
  <2> QED
    BY <1>3, <1>4, <2>2
<1>8. OffsetsInv'
  <2>1. a <= Len(files'[1]) /\ b <= Len(files'[2])
    BY <1>3, <1>4, <1>5
  <2>2. <<a, b>> \in [1..2 -> Nat] /\ <<a, b>>[1] = a /\ <<a, b>>[2] = b
    OBVIOUS
  <2> QED
    BY <1>6, <1>7, <2>1, <2>2 DEF OffsetsInv
<1>9. BufferInv'
  <2>1. PICK S : Log \in Seq(S) /\ evs \in Seq(S)
    BY <1>3
  <2>2. Len(Log) \in 0..Len(Log) /\ read_to' = Len(Log)
    <3>1. a + b \in 0..(a + b)
      OBVIOUS
    <3>2. Len(Log) = a + b
      BY <1>3, <1>4, <1>5
    <3> QED
      BY <1>6, <3>1, <3>2
  <2>3. SubSeq(Log \o evs, 1, Len(Log)) = SubSeq(Log, 1, Len(Log))
    BY <2>1, <2>2, PrefixOfConcat
  <2>4. SubSeq(Log, 1, Len(Log)) = Log
    BY <2>1, SubSeqFull
  <2> QED
    BY <1>2, <1>3, <2>2, <2>3, <2>4 DEF BufferInv
<1> QED
  BY <1>3, <1>8, <1>9 DEF TailInv

LEMMA EmitNothing ==
  ASSUME FilesInv, UNCHANGED files
  PROVE  Emit(<<>>) /\ <<>> \in Seq({})
<1>1. PICK S : files \in [1..2 -> Seq(S)]
  BY DEF FilesInv
<1>2. cur \in 1..2 /\ files[cur] \in Seq(S)
  BY <1>1 DEF FilesInv
<1>3. files[cur] \o <<>> = files[cur]
  BY <1>2, ConcatEmptySeq
<1>4. [files EXCEPT ![cur] = files[cur]] = files
  BY <1>1, <1>2
<1> QED
  BY <1>3, <1>4 DEF Emit

(* The events of one step are a sequence. *)
LEMMA OneEvent ==
  ASSUME NEW ev, NEW round, NEW what, NEW resume
  PROVE  <<Event(ev, round, what, resume)>> \in Seq({Event(ev, round, what, resume)})
<1>1. PICK e : e = Event(ev, round, what, resume)
  OBVIOUS
<1> QED
  BY <1>1

LEMMA OwnEvents ==
  ASSUME NEW kinds, NEW K, kinds \in Seq(K), NEW detector
  PROVE  \E T : [i \in DOMAIN kinds |-> Event(kinds[i], 0, detector, 0)] \in Seq(T)
<1>1. DOMAIN kinds = 1..Len(kinds) /\ Len(kinds) \in Nat
  BY LenProperties
<1> DEFINE e(i) == Event(kinds[i], 0, detector, 0)
           T == {e(i) : i \in 1..Len(kinds)}
           s == [i \in 1..Len(kinds) |-> e(i)]
<1>2. s \in [1..Len(kinds) -> T]
  <2> HIDE DEF e
  <2> QED
    OBVIOUS
<1>3. s \in Seq(T)
  <2> HIDE DEF s, T
  <2> QED
    BY <1>1, <1>2, SeqDef
<1> QED
  BY <1>1, <1>3

LEMMA SameEvents ==
  ASSUME NEW n \in Nat, NEW e
  PROVE  [i \in 1..n |-> e] \in Seq({e})
<1>1. [i \in 1..n |-> e] \in [1..n -> {e}]
  OBVIOUS
<1> QED
  BY <1>1, SeqDef

----------------------------------------------------------------------------
(* The detectors are twelve. *)

LEMMA OneMore ==
  ASSUME NEW S, IsFiniteSet(S), NEW x, x \notin S, NEW n \in Nat, Cardinality(S) = n
  PROVE  IsFiniteSet(S \cup {x}) /\ Cardinality(S \cup {x}) = n + 1
BY FS_AddElement

LEMMA TwelveDetectors ==
  IsFiniteSet(DetectorNames) /\ Cardinality(DetectorNames) = 12
<1> DEFINE S0 == {}
           S1 == S0 \cup {"timeout_rate"}
           S2 == S1 \cup {"hung"}
           S3 == S2 \cup {"orphan_chain"}
           S4 == S3 \cup {"disk_warning"}
           S5 == S4 \cup {"disk_critical"}
           S6 == S5 \cup {"disk_growth"}
           S7 == S6 \cup {"mem_pressure"}
           S8 == S7 \cup {"mem_pressure_gate_inert"}
           S9 == S8 \cup {"oauth_fail"}
           S10 == S9 \cup {"network_fail"}
           S11 == S10 \cup {"anomaly_repetitive_active"}
           S12 == S11 \cup {"supervisor_stale"}
<1>0. IsFiniteSet(S0) /\ Cardinality(S0) = 0
  BY FS_EmptySet
<1>1. IsFiniteSet(S1) /\ Cardinality(S1) = 1
  BY <1>0, OneMore
<1>2. IsFiniteSet(S2) /\ Cardinality(S2) = 2
  BY <1>1, OneMore
<1>3. IsFiniteSet(S3) /\ Cardinality(S3) = 3
  BY <1>2, OneMore
<1>4. IsFiniteSet(S4) /\ Cardinality(S4) = 4
  BY <1>3, OneMore
<1>5. IsFiniteSet(S5) /\ Cardinality(S5) = 5
  BY <1>4, OneMore
<1>6. IsFiniteSet(S6) /\ Cardinality(S6) = 6
  BY <1>5, OneMore
<1>7. IsFiniteSet(S7) /\ Cardinality(S7) = 7
  BY <1>6, OneMore
<1>8. IsFiniteSet(S8) /\ Cardinality(S8) = 8
  BY <1>7, OneMore
<1>9. IsFiniteSet(S9) /\ Cardinality(S9) = 9
  BY <1>8, OneMore
<1>10. IsFiniteSet(S10) /\ Cardinality(S10) = 10
  BY <1>9, OneMore
<1>11. IsFiniteSet(S11) /\ Cardinality(S11) = 11
  BY <1>10, OneMore
<1>12. IsFiniteSet(S12) /\ Cardinality(S12) = 12
  BY <1>11, OneMore
<1>13. S12 = DetectorNames
  BY DEF DetectorNames
<1> QED
  BY <1>12, <1>13

----------------------------------------------------------------------------
(* Every step keeps the tail's invariant. *)

ScenarioInv == sc \in Scenarios

LEMMA ServeEmitsKeepsTail ==
  ASSUME TailInv, NEW ev, NEW round, NEW what, NEW resume, ServeEmits(ev, round, what, resume)
  PROVE  TailInv'
<1>1. Emit(<<Event(ev, round, what, resume)>>)
  BY DEF ServeEmits
<1>2. UNCHANGED <<cur, offsets, read_to, buffer>>
  BY Zenon DEF ServeEmits, mvars
<1>3. PICK evs : evs = <<Event(ev, round, what, resume)>>
  OBVIOUS
<1>4. evs \in Seq({Event(ev, round, what, resume)}) /\ Emit(evs)
  BY <1>1, <1>3, OneEvent
<1> QED
  BY <1>2, <1>4, TailEmit

LEMMA OwnEventsKeepTail ==
  ASSUME TailInv, NEW kinds, NEW K, kinds \in Seq(K), NEW detector, EmitOwn(kinds, detector),
         UNCHANGED <<cur, offsets, read_to, buffer>>
  PROVE  TailInv'
<1>1. PICK evs : evs = [i \in DOMAIN kinds |-> Event(kinds[i], 0, detector, 0)]
  OBVIOUS
<1>2. PICK T : evs \in Seq(T)
  BY <1>1, OwnEvents
<1>3. Emit(evs)
  BY <1>1 DEF EmitOwn
<1> QED
  BY <1>2, <1>3, TailEmit

LEMMA OneKind ==
  ASSUME NEW k
  PROVE  <<k>> \in Seq({k})
OBVIOUS

LEMMA ServeStepKeepsTail ==
  ASSUME TailInv, ServeStep
  PROVE  TailInv'
<1>1. CASE RoundStarts
  BY <1>1, ServeEmitsKeepsTail DEF RoundStarts
<1>2. CASE AgentExits
  BY <1>2, ServeEmitsKeepsTail DEF AgentExits
<1>3. CASE RoundNotes
  <2>1. PICK ev \in sc.notes : ServeEmits(ev, rn, "same", 0)
    BY <1>3, Zenon DEF RoundNotes
  <2> QED
    BY <2>1, ServeEmitsKeepsTail
<1>4. CASE RoundEnds
  BY <1>4, ServeEmitsKeepsTail DEF RoundEnds
<1>5. CASE Pauses
  <2>1. PICK ev \in sc.pauses :
          ServeEmits(ev, 0, "none", IF ev = "schedule_paused" THEN now + 1 ELSE 0)
    BY <1>5, Zenon DEF Pauses
  <2> QED
    BY <2>1, ServeEmitsKeepsTail
<1>6. CASE Resumes
  <2>1. \E ev : ServeEmits(ev, 0, "none", 0)
    BY <1>6, Zenon DEF Resumes
  <2> QED
    BY <2>1, ServeEmitsKeepsTail
<1>7. CASE Sample
  <2>1. UNCHANGED <<files, cur, offsets, read_to, buffer>>
    BY <1>7, Zenon DEF Sample, mvars
  <2> QED
    BY <2>1, TailFrame
<1>8. CASE ServeExits
  <2>1. UNCHANGED <<files, cur, offsets, read_to, buffer>>
    BY <1>8, Zenon DEF ServeExits, mvars
  <2> QED
    BY <2>1, TailFrame
<1>9. CASE ServeDies
  <2>1. UNCHANGED <<files, cur, offsets, read_to, buffer>>
    BY <1>9, Zenon DEF ServeDies, mvars
  <2> QED
    BY <2>1, TailFrame
<1>10. CASE ServeStarts
  <2>1. UNCHANGED <<files, cur, offsets, read_to, buffer>>
    BY <1>10, Zenon DEF ServeStarts, mvars
  <2> QED
    BY <2>1, TailFrame
<1> QED
  BY <1>1, <1>2, <1>3, <1>4, <1>5, <1>6, <1>7, <1>8, <1>9, <1>10 DEF ServeStep

(* The buffer of a monitor that starts is empty, and so is what it has read. *)
LEMMA MonitorStartsKeepsTail ==
  ASSUME TailInv, MonitorStarts
  PROVE  TailInv'
<1>1. /\ EmitOwn(<<"monitor_started">>, "none")
      /\ offsets' = <<0, 0>> /\ buffer' = <<>> /\ read_to' = 0 /\ cur' = cur
  BY Zenon DEF MonitorStarts
<1>2. PICK evs : evs = [i \in DOMAIN <<"monitor_started">> |-> Event(<<"monitor_started">>[i], 0, "none", 0)]
  OBVIOUS
<1>3. PICK T : evs \in Seq(T)
  BY <1>2, OneKind, OwnEvents
<1>4. Emit(evs)
  BY <1>1, <1>2 DEF EmitOwn
<1>5. FilesInv' /\ \A f \in 1..2 : Len(files[f]) \in Nat /\ Len(files[f]) <= Len(files'[f])
  BY <1>1, <1>3, <1>4, EmitAppends DEF TailInv
<1>6. OffsetsInv'
  <2>1. PICK S : files' \in [1..2 -> Seq(S)]
    BY <1>5 DEF FilesInv
  <2>2. Len(files'[1]) \in Nat /\ Len(files'[2]) \in Nat
    BY <2>1, LenProperties
  <2>3. <<0, 0>> \in [1..2 -> Nat] /\ <<0, 0>>[1] = 0 /\ <<0, 0>>[2] = 0
    OBVIOUS
  <2> QED
    BY <1>1, <2>2, <2>3 DEF OffsetsInv
<1>7. SubSeq(Log', 1, 0) = <<>>
  BY SubSeqEmpty
<1> QED
  BY <1>1, <1>5, <1>6, <1>7, LastOfNone DEF TailInv, BufferInv

LEMMA PollKeepsTail ==
  ASSUME TailInv, ScenarioInv, Poll
  PROVE  TailInv'
<1>1. /\ TailRead /\ cur' = cur
      /\ Emit([i \in 1..Cardinality(sc.crashing) |-> Event("detector_error", 0, "none", 0)])
  BY Zenon DEF Poll
<1>2. Cardinality(sc.crashing) \in Nat
  <2>1. sc.crashing \in SUBSET DetectorNames
    BY MonitorAssumption DEF ScenarioInv
  <2> QED
    BY <2>1, TwelveDetectors, FS_Subset, FS_CardinalityType
<1>3. PICK e : e = Event("detector_error", 0, "none", 0)
  OBVIOUS
<1>4. PICK n \in Nat : n = Cardinality(sc.crashing)
  BY <1>2
<1>5. PICK evs : evs = [i \in 1..n |-> e]
  OBVIOUS
<1>6. evs \in Seq({e})
  BY <1>5, SameEvents
<1>7. Emit(evs)
  BY <1>1, <1>3, <1>4, <1>5
<1> QED
  BY <1>1, <1>6, <1>7, TailAfterRead

LEMMA PollFailsKeepsTail ==
  ASSUME TailInv, PollFails
  PROVE  TailInv'
<1>1. files' = files /\ cur' = cur
  BY Zenon DEF PollFails
<1>2. CASE TailRead
  <2>1. Emit(<<>>) /\ <<>> \in Seq({})
    BY <1>1, EmitNothing DEF TailInv
  <2> QED
    BY <1>1, <1>2, <2>1, TailAfterRead
<1>3. CASE UNCHANGED <<buffer, offsets, read_to>>
  BY <1>1, <1>3, TailFrame
<1> QED
  BY <1>2, <1>3, Zenon DEF PollFails

LEMMA StopReturnsKeepsTail ==
  ASSUME TailInv, StopReturns
  PROVE  TailInv'
<1>1. UNCHANGED <<cur, offsets, read_to, buffer>>
  BY Zenon DEF StopReturns
<1>2. PICK raised \in {FALSE} \cup (IF sc.mode = "stale_unit" THEN {TRUE} ELSE {}) :
        EmitOwn(CASE StopVerdict(Alive, raised) = "triggered" -> <<"auto_stop_triggered">>
                  [] StopVerdict(Alive, raised) = "failed" -> <<"auto_stop_failed">>
                  [] StopVerdict(Alive, raised) = "draining" -> <<>>, Head(alerts).detector)
  BY Zenon DEF StopReturns
<1>3. PICK verdict : verdict = StopVerdict(Alive, raised)
  OBVIOUS
<1>4. verdict \in {"triggered", "failed", "draining"}
  BY <1>3 DEF StopVerdict
<1>5. PICK kinds : kinds = (CASE verdict = "triggered" -> <<"auto_stop_triggered">>
                              [] verdict = "failed" -> <<"auto_stop_failed">>
                              [] verdict = "draining" -> <<>>)
  OBVIOUS
<1>6. kinds \in Seq({"auto_stop_triggered", "auto_stop_failed"})
  BY <1>4, <1>5
<1>7. EmitOwn(kinds, Head(alerts).detector)
  BY <1>2, <1>3, <1>5
<1> QED
  BY <1>1, <1>6, <1>7, OwnEventsKeepTail

LEMMA MonitorStepKeepsTail ==
  ASSUME TailInv, ScenarioInv, MonitorStep
  PROVE  TailInv'
<1>1. CASE MonitorStarts
  BY <1>1, MonitorStartsKeepsTail
<1>2. CASE Poll
  BY <1>2, PollKeepsTail
<1>3. CASE PollFails
  BY <1>3, PollFailsKeepsTail
<1>4. CASE Suppress
  <2>1. UNCHANGED <<files, cur, offsets, read_to, buffer>>
    BY <1>4, Zenon DEF Suppress
  <2> QED
    BY <2>1, TailFrame
<1>5. ASSUME NewEpisode
      PROVE  TailInv'
  <2>1. EmitOwn(<<"alert_emitted">>, Head(alerts).detector) /\ UNCHANGED <<cur, offsets, read_to, buffer>>
    BY <1>5, Zenon DEF NewEpisode
  <2> QED
    BY <2>1, OneKind, OwnEventsKeepTail
<1>6. CASE RecordOnly
  BY <1>5, <1>6 DEF RecordOnly
<1>7. CASE StopService
  BY <1>5, <1>7 DEF StopService
<1>8. CASE StopReturns
  BY <1>8, StopReturnsKeepsTail
<1>9. CASE EndPoll
  <2>1. UNCHANGED <<files, cur, offsets, read_to, buffer>>
    BY <1>9, Zenon DEF EndPoll
  <2> QED
    BY <2>1, TailFrame
<1> QED
  BY <1>1, <1>2, <1>3, <1>4, <1>6, <1>7, <1>8, <1>9 DEF MonitorStep

(* When the month turns the second file is still empty. *)
LEMMA MonthTurnsKeepsTail ==
  ASSUME TailInv, MonthTurns
  PROVE  TailInv'
<1>1. /\ files' = files /\ cur = 1 /\ cur' = 2
      /\ offsets' = offsets /\ read_to' = read_to /\ buffer' = buffer
  BY Zenon DEF MonthTurns, mvars
<1>2. FilesInv'
  BY <1>1 DEF TailInv, FilesInv
<1>3. OffsetsInv'
  BY <1>1 DEF TailInv, OffsetsInv
<1>4. BufferInv'
  BY <1>1 DEF TailInv, BufferInv, Log
<1> QED
  BY <1>2, <1>3, <1>4 DEF TailInv

LEMMA TailStep ==
  ASSUME TailInv, ScenarioInv, [Next]_vars
  PROVE  TailInv'
<1>1. CASE ServeStep
  BY <1>1, ServeStepKeepsTail
<1>2. CASE MonitorStep
  BY <1>2, MonitorStepKeepsTail
<1>3. CASE MonitorDies
  <2>1. UNCHANGED <<files, cur, offsets, read_to, buffer>>
    BY <1>3, Zenon DEF MonitorDies
  <2> QED
    BY <2>1, TailFrame
<1>4. CASE MonthTurns
  BY <1>4, MonthTurnsKeepsTail
<1>5. CASE Tick
  <2>1. UNCHANGED <<files, cur, offsets, read_to, buffer>>
    BY <1>5, Zenon DEF Tick
  <2> QED
    BY <2>1, TailFrame
<1>6. CASE UNCHANGED vars
  <2>1. UNCHANGED <<files, cur, offsets, read_to, buffer>>
    BY <1>6, Zenon DEF vars, mvars
  <2> QED
    BY <2>1, TailFrame
<1> QED
  BY <1>1, <1>2, <1>3, <1>4, <1>5, <1>6 DEF Next

(* The scenario is chosen once. *)
LEMMA ScenarioStep ==
  ASSUME ScenarioInv, [Next]_vars
  PROVE  ScenarioInv'
<1>1. ASSUME sc' = sc PROVE ScenarioInv'
  BY <1>1 DEF ScenarioInv
<1>2. CASE ServeStep
  <2>1. sc' = sc
    BY <1>2, Zenon DEF ServeStep, RoundStarts, AgentExits, RoundNotes, RoundEnds, Pauses, Resumes,
                       Sample, ServeExits, ServeDies, ServeStarts, ServeEmits
  <2> QED
    BY <1>1, <2>1
<1>3. CASE MonitorStep
  <2>1. sc' = sc
    BY <1>3, Zenon DEF MonitorStep, MonitorStarts, Poll, PollFails, Suppress, RecordOnly, StopService,
                       StopReturns, EndPoll, NewEpisode
  <2> QED
    BY <1>1, <2>1
<1>4. CASE MonitorDies \/ MonthTurns \/ Tick \/ UNCHANGED vars
  <2>1. sc' = sc
    BY <1>4, Zenon DEF MonitorDies, MonthTurns, Tick, vars
  <2> QED
    BY <1>1, <2>1
<1> QED
  BY <1>2, <1>3, <1>4 DEF Next

(* The tail is complete for every buffer size and every deployment: of the    *)
(* events read so far the buffer holds exactly the newest, in order           *)
(* (_EventTail, _read_new_events).                                            *)
THEOREM TailIsComplete == Spec => []TailComplete
<1>1. Init => TailInv /\ ScenarioInv
  <2>1. Init => ScenarioInv
    BY DEF Init, ScenarioInv
  <2> QED
    BY <2>1, TailInit
<1>2. TailInv /\ ScenarioInv /\ [Next]_vars => TailInv' /\ ScenarioInv'
  BY TailStep, ScenarioStep
<1>3. TailInv => TailComplete
  BY DEF TailInv, BufferInv, TailComplete
<1> QED
  BY <1>1, <1>2, <1>3, PTL DEF Spec

----------------------------------------------------------------------------
(* What the detectors find: at most one alert each, each under keys of its own. *)

OneOf(seq, names) == seq = <<>> \/ \E n \in names : \E e, act : seq = Alert(n, e, act)

LEMMA TimeoutRateAlert ==
  ASSUME NEW ev PROVE OneOf(DetectTimeoutRate(ev), {"timeout_rate"})
BY DEF OneOf, DetectTimeoutRate, NoAlert
LEMMA HungAlert ==
  ASSUME NEW ev, NEW t PROVE OneOf(DetectHung(ev, t), {"hung"})
BY DEF OneOf, DetectHung, NoAlert
LEMMA OrphanChainAlert ==
  ASSUME NEW ev PROVE OneOf(DetectOrphanChain(ev), {"orphan_chain"})
BY DEF OneOf, DetectOrphanChain, NoAlert
LEMMA DiskWarningAlert ==
  ASSUME NEW m PROVE OneOf(DetectDiskWarning(m), {"disk_warning"})
BY DEF OneOf, DetectDiskWarning, NoAlert
LEMMA DiskCriticalAlert ==
  ASSUME NEW m PROVE OneOf(DetectDiskCritical(m), {"disk_critical"})
BY DEF OneOf, DetectDiskCritical, NoAlert
LEMMA DiskGrowthAlert ==
  ASSUME NEW m PROVE OneOf(DetectDiskGrowth(m), {"disk_growth"})
BY DEF OneOf, DetectDiskGrowth, NoAlert
LEMMA MemPressureAlert ==
  ASSUME NEW m PROVE OneOf(DetectMemPressure(m), {"mem_pressure", "mem_signal_unavailable"})
BY DEF OneOf, DetectMemPressure, NoAlert
LEMMA GateInertAlert ==
  ASSUME NEW m PROVE OneOf(DetectMemPressureGateInert(m), {"mem_pressure_gate_inert"})
BY DEF OneOf, DetectMemPressureGateInert, NoAlert
LEMMA OauthFailAlert ==
  ASSUME NEW ev PROVE OneOf(DetectOauthFail(ev), {"oauth_fail"})
BY DEF OneOf, DetectOauthFail, NoAlert
LEMMA NetworkFailAlert ==
  ASSUME NEW ev PROVE OneOf(DetectNetworkFail(ev), {"network_fail"})
BY DEF OneOf, DetectNetworkFail, NoAlert
LEMMA AnomalyAlert ==
  ASSUME NEW ev PROVE OneOf(DetectAnomalyRepetitiveActive(ev), {"anomaly_repetitive_active"})
BY DEF OneOf, DetectAnomalyRepetitiveActive, NoAlert
LEMMA StaleAlert ==
  ASSUME NEW ev, NEW t PROVE OneOf(DetectSupervisorStale(ev, t), {"supervisor_stale"})
BY DEF OneOf, DetectSupervisorStale, NoAlert

(* At most n alerts, of these detectors, no two for the same episode. *)
Found(seq, names, n) ==
    /\ \E S : seq \in Seq(S)
    /\ Len(seq) <= n
    /\ \A i \in 1..Len(seq) : seq[i].key[1] \in names
    /\ \A i, j \in 1..Len(seq) : seq[i].key = seq[j].key => i = j

LEMMA FoundNone == ASSUME NEW names PROVE Found(<<>>, names, 1)
BY EmptySeq DEF Found

LEMMA FoundOne ==
  ASSUME NEW seq, NEW names, OneOf(seq, names)
  PROVE  Found(seq, names, 1)
<1>1. CASE seq = <<>>
  BY <1>1, FoundNone
<1>2. CASE \E n \in names : \E e, act : seq = Alert(n, e, act)
  <2>0. PICK n \in names : \E e, act : seq = Alert(n, e, act)
    BY <1>2
  <2>1. PICK e, act : seq = Alert(n, e, act)
    BY <2>0
  <2>2. PICK a : a = [detector |-> n, key |-> <<n, e>>, action |-> act]
    OBVIOUS
  <2>3. a.key[1] = n
    BY <2>2
  <2>4. seq = <<a>>
    BY <2>1, <2>2 DEF Alert
  <2>5. seq \in Seq({a}) /\ Len(seq) = 1 /\ seq[1] = a
    BY <2>4
  <2>6. \A i \in 1..Len(seq) : i = 1
    BY <2>5
  <2> QED
    BY <2>3, <2>5, <2>6 DEF Found
<1> QED
  BY <1>1, <1>2 DEF OneOf

LEMMA FoundBoth ==
  ASSUME NEW s, NEW N, NEW m \in Nat, Found(s, N, m),
         NEW t, NEW P, NEW n \in Nat, Found(t, P, n), N \cap P = {},
         NEW u, u = s \o t
  PROVE  Found(u, N \cup P, m + n)
<1>1. PICK S1 : s \in Seq(S1)
  BY DEF Found
<1>2. PICK S2 : t \in Seq(S2)
  BY DEF Found
<1> DEFINE S == S1 \cup S2
<1>3. s \in Seq(S) /\ t \in Seq(S)
  BY <1>1, <1>2, SeqMonotonic
<1> HIDE DEF S
<1>4. /\ u \in Seq(S) /\ Len(u) = Len(s) + Len(t)
      /\ \A i \in 1..Len(s) + Len(t) : u[i] = IF i <= Len(s) THEN s[i] ELSE t[i - Len(s)]
  BY <1>3, ConcatProperties
<1>5. PICK a \in Nat : a = Len(s)
  BY <1>3, LenProperties
<1>6. PICK b \in Nat : b = Len(t)
  BY <1>3, LenProperties
<1>7. a <= m /\ b <= n /\ Len(u) = a + b
  BY <1>4, <1>5, <1>6 DEF Found
<1>8. \A i \in 1..(a + b) :
         \/ i \in 1..a /\ u[i] = s[i]
         \/ i - a \in 1..b /\ u[i] = t[i - a]
  BY <1>4, <1>5, <1>6
<1>9. \A i \in 1..a : s[i].key[1] \in N
  BY <1>5 DEF Found
<1>10. \A i \in 1..b : t[i].key[1] \in P
  BY <1>6 DEF Found
<1>11. \A i, j \in 1..a : s[i].key = s[j].key => i = j
  BY <1>5 DEF Found
<1>12. \A i, j \in 1..b : t[i].key = t[j].key => i = j
  BY <1>6 DEF Found
<1>13. \A i \in 1..(a + b) : u[i].key[1] \in N \cup P
  BY <1>8, <1>9, <1>10
<1>14. ASSUME NEW i \in 1..(a + b), NEW j \in 1..(a + b), u[i].key = u[j].key
       PROVE  i = j
  <2>1. CASE i \in 1..a /\ u[i] = s[i] /\ j \in 1..a /\ u[j] = s[j]
    BY <1>11, <1>14, <2>1
  <2>2. CASE i - a \in 1..b /\ u[i] = t[i - a] /\ j - a \in 1..b /\ u[j] = t[j - a]
    <3>1. i - a = j - a
      BY <1>12, <1>14, <2>2
    <3> QED
      BY <3>1
  <2>3. CASE i \in 1..a /\ u[i] = s[i] /\ j - a \in 1..b /\ u[j] = t[j - a]
    <3>1. s[i].key[1] \in N /\ s[i].key[1] \in P
      BY <1>9, <1>10, <1>14, <2>3
    <3> QED
      BY <3>1
  <2>4. CASE i - a \in 1..b /\ u[i] = t[i - a] /\ j \in 1..a /\ u[j] = s[j]
    <3>1. s[j].key[1] \in N /\ s[j].key[1] \in P
      BY <1>9, <1>10, <1>14, <2>4
    <3> QED
      BY <3>1
  <2> QED
    BY <1>8, <2>1, <2>2, <2>3, <2>4
<1>15. a + b <= m + n
  BY <1>7
<1> QED
  BY <1>4, <1>7, <1>13, <1>14, <1>15 DEF Found

(* The next detector in the row runs, or raises and has nothing to say. *)
Runs(raises, verdict, s, u) == u = s \o (IF raises THEN <<>> ELSE verdict)

LEMMA FoundNext ==
  ASSUME NEW s, NEW N, NEW m \in Nat, Found(s, N, m),
         NEW verdict, NEW P, OneOf(verdict, P), N \cap P = {},
         NEW raises, NEW u, Runs(raises, verdict, s, u)
  PROVE  Found(u, N \cup P, m + 1)
<1>1. PICK t : t = (IF raises THEN <<>> ELSE verdict)
  OBVIOUS
<1>2. Found(t, P, 1)
  <2>1. CASE raises
    BY <1>1, <2>1, FoundNone
  <2>2. CASE ~raises
    BY <1>1, <2>2, FoundOne
  <2> QED
    BY <2>1, <2>2
<1>3. u = s \o t
  BY <1>1 DEF Runs
<1> QED
  BY <1>2, <1>3, FoundBoth
(* A poll finds at most twelve alerts, no two of them for one episode. *)
LEMMA AllFound ==
  ASSUME NEW ev, NEW m, NEW t, NEW crashing
  PROVE  \E names : Found(RunAllDetectors(ev, m, t, crashing), names, 12)
<1> DEFINE Run(name, verdict) == IF name \in crashing THEN <<>> ELSE verdict
           u1 == Run("timeout_rate", DetectTimeoutRate(ev))
           u2 == u1 \o Run("hung", DetectHung(ev, t))
           u3 == u2 \o Run("orphan_chain", DetectOrphanChain(ev))
           u4 == u3 \o Run("disk_warning", DetectDiskWarning(m))
           u5 == u4 \o Run("disk_critical", DetectDiskCritical(m))
           u6 == u5 \o Run("disk_growth", DetectDiskGrowth(m))
           u7 == u6 \o Run("mem_pressure", DetectMemPressure(m))
           u8 == u7 \o Run("mem_pressure_gate_inert", DetectMemPressureGateInert(m))
           u9 == u8 \o Run("oauth_fail", DetectOauthFail(ev))
           u10 == u9 \o Run("network_fail", DetectNetworkFail(ev))
           u11 == u10 \o Run("anomaly_repetitive_active", DetectAnomalyRepetitiveActive(ev))
           u12 == u11 \o Run("supervisor_stale", DetectSupervisorStale(ev, t))
           N1 == {"timeout_rate"}
           N2 == N1 \cup {"hung"}
           N3 == N2 \cup {"orphan_chain"}
           N4 == N3 \cup {"disk_warning"}
           N5 == N4 \cup {"disk_critical"}
           N6 == N5 \cup {"disk_growth"}
           N7 == N6 \cup {"mem_pressure", "mem_signal_unavailable"}
           N8 == N7 \cup {"mem_pressure_gate_inert"}
           N9 == N8 \cup {"oauth_fail"}
           N10 == N9 \cup {"network_fail"}
           N11 == N10 \cup {"anomaly_repetitive_active"}
           N12 == N11 \cup {"supervisor_stale"}
<1>0. RunAllDetectors(ev, m, t, crashing) = u12
  BY Zenon DEF RunAllDetectors
<1>1. Found(u1, N1, 1)
  <2>1. u1 = <<>> \/ u1 = DetectTimeoutRate(ev)
    OBVIOUS
  <2> HIDE DEF u1
  <2> QED
    BY <2>1, TimeoutRateAlert, FoundNone, FoundOne
<1>2. Found(u2, N2, 2)
  <2>1. OneOf(DetectHung(ev, t), {"hung"})
    BY HungAlert
  <2>2. N1 \cap {"hung"} = {}
    OBVIOUS
  <2>3. Runs("hung" \in crashing, DetectHung(ev, t), u1, u2)
    BY DEF Runs
  <2> HIDE DEF u1, u2, N1
  <2> QED
    BY <1>1, <2>1, <2>2, <2>3, FoundNext DEF N2
<1>3. Found(u3, N3, 3)
  <2>1. OneOf(DetectOrphanChain(ev), {"orphan_chain"})
    BY OrphanChainAlert
  <2>2. N2 \cap {"orphan_chain"} = {}
    OBVIOUS
  <2>3. Runs("orphan_chain" \in crashing, DetectOrphanChain(ev), u2, u3)
    BY DEF Runs
  <2> HIDE DEF u2, u3, N2
  <2> QED
    BY <1>2, <2>1, <2>2, <2>3, FoundNext DEF N3
<1>4. Found(u4, N4, 4)
  <2>1. OneOf(DetectDiskWarning(m), {"disk_warning"})
    BY DiskWarningAlert
  <2>2. N3 \cap {"disk_warning"} = {}
    OBVIOUS
  <2>3. Runs("disk_warning" \in crashing, DetectDiskWarning(m), u3, u4)
    BY DEF Runs
  <2> HIDE DEF u3, u4, N3
  <2> QED
    BY <1>3, <2>1, <2>2, <2>3, FoundNext DEF N4
<1>5. Found(u5, N5, 5)
  <2>1. OneOf(DetectDiskCritical(m), {"disk_critical"})
    BY DiskCriticalAlert
  <2>2. N4 \cap {"disk_critical"} = {}
    OBVIOUS
  <2>3. Runs("disk_critical" \in crashing, DetectDiskCritical(m), u4, u5)
    BY DEF Runs
  <2> HIDE DEF u4, u5, N4
  <2> QED
    BY <1>4, <2>1, <2>2, <2>3, FoundNext DEF N5
<1>6. Found(u6, N6, 6)
  <2>1. OneOf(DetectDiskGrowth(m), {"disk_growth"})
    BY DiskGrowthAlert
  <2>2. N5 \cap {"disk_growth"} = {}
    OBVIOUS
  <2>3. Runs("disk_growth" \in crashing, DetectDiskGrowth(m), u5, u6)
    BY DEF Runs
  <2> HIDE DEF u5, u6, N5
  <2> QED
    BY <1>5, <2>1, <2>2, <2>3, FoundNext DEF N6
<1>7. Found(u7, N7, 7)
  <2>1. OneOf(DetectMemPressure(m), {"mem_pressure", "mem_signal_unavailable"})
    BY MemPressureAlert
  <2>2. N6 \cap {"mem_pressure", "mem_signal_unavailable"} = {}
    OBVIOUS
  <2>3. Runs("mem_pressure" \in crashing, DetectMemPressure(m), u6, u7)
    BY DEF Runs
  <2> HIDE DEF u6, u7, N6
  <2> QED
    BY <1>6, <2>1, <2>2, <2>3, FoundNext DEF N7
<1>8. Found(u8, N8, 8)
  <2>1. OneOf(DetectMemPressureGateInert(m), {"mem_pressure_gate_inert"})
    BY GateInertAlert
  <2>2. N7 \cap {"mem_pressure_gate_inert"} = {}
    OBVIOUS
  <2>3. Runs("mem_pressure_gate_inert" \in crashing, DetectMemPressureGateInert(m), u7, u8)
    BY DEF Runs
  <2> HIDE DEF u7, u8, N7
  <2> QED
    BY <1>7, <2>1, <2>2, <2>3, FoundNext DEF N8
<1>9. Found(u9, N9, 9)
  <2>1. OneOf(DetectOauthFail(ev), {"oauth_fail"})
    BY OauthFailAlert
  <2>2. N8 \cap {"oauth_fail"} = {}
    OBVIOUS
  <2>3. Runs("oauth_fail" \in crashing, DetectOauthFail(ev), u8, u9)
    BY DEF Runs
  <2> HIDE DEF u8, u9, N8
  <2> QED
    BY <1>8, <2>1, <2>2, <2>3, FoundNext DEF N9
<1>10. Found(u10, N10, 10)
  <2>1. OneOf(DetectNetworkFail(ev), {"network_fail"})
    BY NetworkFailAlert
  <2>2. N9 \cap {"network_fail"} = {}
    OBVIOUS
  <2>3. Runs("network_fail" \in crashing, DetectNetworkFail(ev), u9, u10)
    BY DEF Runs
  <2> HIDE DEF u9, u10, N9
  <2> QED
    BY <1>9, <2>1, <2>2, <2>3, FoundNext DEF N10
<1>11. Found(u11, N11, 11)
  <2>1. OneOf(DetectAnomalyRepetitiveActive(ev), {"anomaly_repetitive_active"})
    BY AnomalyAlert
  <2>2. N10 \cap {"anomaly_repetitive_active"} = {}
    OBVIOUS
  <2>3. Runs("anomaly_repetitive_active" \in crashing, DetectAnomalyRepetitiveActive(ev), u10, u11)
    BY DEF Runs
  <2> HIDE DEF u10, u11, N10
  <2> QED
    BY <1>10, <2>1, <2>2, <2>3, FoundNext DEF N11
<1>12. Found(u12, N12, 12)
  <2>1. OneOf(DetectSupervisorStale(ev, t), {"supervisor_stale"})
    BY StaleAlert
  <2>2. N11 \cap {"supervisor_stale"} = {}
    OBVIOUS
  <2>3. Runs("supervisor_stale" \in crashing, DetectSupervisorStale(ev, t), u11, u12)
    BY DEF Runs
  <2> HIDE DEF u11, u12, N11
  <2> QED
    BY <1>11, <2>1, <2>2, <2>3, FoundNext DEF N12
<1> QED
  <2> HIDE DEF u12, N12
  <2> QED
    BY <1>0, <1>12

----------------------------------------------------------------------------
(* The OrderedDict. *)

Reflexive(dict) == \A k \in Keys(dict) : <<k, k>> \in dict

LEMMA OnlyKeys ==
  ASSUME NEW d, Reflexive(d), NEW K
  PROVE  Keys(Only(d, K)) = Keys(d) \cap K /\ Reflexive(Only(d, K))
<1>1. ASSUME NEW k \in Keys(d) \cap K
      PROVE  <<k, k>> \in Only(d, K)
  BY DEF Reflexive, Only
<1>2. \A k \in Keys(d) \cap K : k \in Keys(Only(d, K))
  <2> TAKE k \in Keys(d) \cap K
  <2>1. PICK p \in Only(d, K) : p = <<k, k>>
    BY <1>1
  <2>2. p[1] = k
    BY <2>1
  <2> QED
    BY <2>2 DEF Keys
<1>3. Keys(Only(d, K)) \subseteq Keys(d) \cap K
  BY DEF Keys, Only
<1> QED
  BY <1>1, <1>2, <1>3 DEF Reflexive

LEMMA WithoutKeys ==
  ASSUME NEW d, Reflexive(d), NEW key
  PROVE  Keys(Without(d, key)) = Keys(d) \ {key} /\ Reflexive(Without(d, key))
<1>1. Keys(Without(d, key)) = Keys(d) \cap (Keys(d) \ {key}) /\ Reflexive(Without(d, key))
  BY OnlyKeys DEF Without
<1> QED
  BY <1>1

LEMMA PutLastKeys ==
  ASSUME NEW d, Reflexive(d), NEW key
  PROVE  Keys(PutLast(d, key)) = Keys(d) \cup {key} /\ Reflexive(PutLast(d, key))
<1> DEFINE old == Without(d, key)
           new == {<<k, key>> : k \in Keys(d) \cup {key}}
<1>1. Keys(old) = Keys(d) \ {key} /\ Reflexive(old)
  BY WithoutKeys
<1>2. Keys(new) = Keys(d) \cup {key}
  <2>1. ASSUME NEW k \in Keys(d) \cup {key} PROVE k \in Keys(new)
    <3>1. PICK p \in new : p = <<k, key>>
      OBVIOUS
    <3>2. p[1] = k
      BY <3>1
    <3> QED
      BY <3>2 DEF Keys
  <2>2. ASSUME NEW k \in Keys(new) PROVE k \in Keys(d) \cup {key}
    <3>1. PICK p \in new : k = p[1]
      BY DEF Keys
    <3>2. PICK l \in Keys(d) \cup {key} : p = <<l, key>>
      BY <3>1
    <3> QED
      BY <3>1, <3>2
  <2> QED
    BY <2>1, <2>2
<1>3. PutLast(d, key) = old \cup new
  BY DEF PutLast
<1>4. <<key, key>> \in new
  OBVIOUS
<1> HIDE DEF old, new
<1>5. Keys(old \cup new) = Keys(old) \cup Keys(new)
  BY DEF Keys
<1>6. Reflexive(old \cup new)
  BY <1>1, <1>2, <1>4, <1>5 DEF Reflexive
<1> QED
  BY <1>1, <1>2, <1>3, <1>5, <1>6

----------------------------------------------------------------------------
(* The episodes. *)

(* The poll before left this episode unknown: it had not fired, or its stop   *)
(* was draining.                                                              *)
Fresh(k) == k \notin DOMAIN before \/ before[k] = "draining"

Waiting == mon \in {"alerts", "stopping"}

(* The alert whose stop is under way is remembered, and not handled yet. *)
Stopping(k) == mon = "stopping" /\ k = Head(alerts).key

OrderInv == Reflexive(seen)

AlertsInv ==
    /\ \E S : alerts \in Seq(S)
    /\ Waiting =>
        /\ \A i, j \in 1..Len(alerts) : alerts[i].key = alerts[j].key => i = j
        /\ \A i \in 1..Len(alerts) : alerts[i].key \notin DOMAIN this

HandledInv ==
    mon # "off" => \A k \in DOMAIN this :
        /\ this[k] # "suppressed" <=> Fresh(k)
        /\ k \in Keys(seen) <=> this[k] # "draining"

AheadInv ==
    Waiting => \A k : k \notin DOMAIN this /\ ~Stopping(k) => (k \in Keys(seen) <=> ~Fresh(k))

StoppingInv ==
    mon = "stopping" =>
        alerts # <<>> /\ Head(alerts).key \in Keys(seen) /\ Fresh(Head(alerts).key)

AsleepInv == mon = "sleep" => Keys(seen) \subseteq DOMAIN this

(* A poll handles at most twelve alerts. *)
CountInv ==
    /\ IsFiniteSet(DOMAIN before) /\ IsFiniteSet(DOMAIN this)
    /\ Cardinality(DOMAIN before) <= 12
    /\ Cardinality(DOMAIN this) + Len(alerts) <= 12

EpisodeInv ==
    /\ mon \in {"off", "sleep", "alerts", "stopping"}
    /\ OrderInv /\ AlertsInv /\ HandledInv /\ AheadInv /\ StoppingInv /\ AsleepInv /\ CountInv

LEMMA NothingHandled == DOMAIN Nothing = {} /\ IsFiniteSet(DOMAIN Nothing) /\ Cardinality(DOMAIN Nothing) = 0
<1>1. DOMAIN Nothing = {}
  BY DEF Nothing
<1> QED
  BY <1>1, FS_EmptySet

LEMMA NoKeys == Keys({}) = {} /\ Reflexive({})
BY DEF Keys, Reflexive

LEMMA EpisodeInit == Init => EpisodeInv
<1> SUFFICES ASSUME Init PROVE EpisodeInv
  OBVIOUS
<1>1. mon = "off" /\ alerts = <<>> /\ seen = {} /\ before = Nothing /\ this = Nothing
  BY DEF Init
<1>2. OrderInv
  BY <1>1, NoKeys DEF OrderInv
<1>3. AlertsInv
  BY <1>1, EmptySeq DEF AlertsInv, Waiting
<1>4. CountInv
  BY <1>1, NothingHandled DEF CountInv
<1> QED
  BY <1>1, <1>2, <1>3, <1>4 DEF EpisodeInv, HandledInv, AheadInv, StoppingInv, AsleepInv, Waiting

LEMMA EpisodeFrame ==
  ASSUME EpisodeInv, UNCHANGED <<mon, alerts, seen, before, this>>
  PROVE  EpisodeInv'
<1>1. mon' = mon /\ alerts' = alerts /\ seen' = seen /\ before' = before /\ this' = this
  OBVIOUS
<1>2. OrderInv' /\ AlertsInv' /\ CountInv' /\ AsleepInv'
  BY <1>1 DEF EpisodeInv, OrderInv, AlertsInv, CountInv, AsleepInv, Waiting
<1>3. HandledInv' /\ AheadInv' /\ StoppingInv'
  BY <1>1 DEF EpisodeInv, HandledInv, AheadInv, StoppingInv, Waiting, Fresh, Stopping
<1> QED
  BY <1>1, <1>2, <1>3 DEF EpisodeInv

(* An alert is handled: it gets its verdict, its key is remembered unless its *)
(* stop is draining, and nothing changes for the other episodes.              *)
LEMMA HandleKeeps ==
  ASSUME EpisodeInv, Waiting, alerts # <<>>, NEW key, key = Head(alerts).key,
         NEW verdict, Handle(verdict), before' = before, mon' = "alerts",
         verdict # "suppressed" <=> Fresh(key),
         Reflexive(seen'),
         \A k : k \in Keys(seen') <=> IF k = key THEN verdict # "draining" ELSE k \in Keys(seen)
  PROVE  EpisodeInv'
<1>1. alerts' = Tail(alerts) /\ this' = [k \in DOMAIN this \cup {key} |-> IF k = key THEN verdict ELSE this[k]]
  BY DEF Handle
<1>2. /\ DOMAIN this' = DOMAIN this \cup {key}
      /\ \A k \in DOMAIN this' : this'[k] = IF k = key THEN verdict ELSE this[k]
  BY <1>1
<1>3. PICK S : alerts \in Seq(S)
  BY DEF EpisodeInv, AlertsInv
<1>4. PICK n \in Nat : n = Len(alerts)
  BY <1>3, LenProperties
<1>5. /\ n > 0 /\ Head(alerts) = alerts[1]
      /\ Tail(alerts) \in Seq(S) /\ Len(Tail(alerts)) = n - 1
      /\ \A i \in 1..(n - 1) : Tail(alerts)[i] = alerts[i + 1]
  <2>1. n # 0
    BY <1>3, <1>4, EmptySeq
  <2> QED
    BY <1>3, <1>4, <2>1, HeadTailProperties
<1>6. /\ \A i, j \in 1..n : alerts[i].key = alerts[j].key => i = j
      /\ \A i \in 1..n : alerts[i].key \notin DOMAIN this
  BY <1>4 DEF EpisodeInv, AlertsInv
<1>7. key = alerts[1].key /\ key \notin DOMAIN this
  BY <1>5, <1>6
<1>8. AlertsInv'
  <2>1. \A i, j \in 1..(n - 1) : Tail(alerts)[i].key = Tail(alerts)[j].key => i = j
    <3> SUFFICES ASSUME NEW i \in 1..(n - 1), NEW j \in 1..(n - 1),
                        Tail(alerts)[i].key = Tail(alerts)[j].key
                 PROVE  i = j
      OBVIOUS
    <3>1. alerts[i + 1].key = alerts[j + 1].key /\ i + 1 \in 1..n /\ j + 1 \in 1..n
      BY <1>5
    <3>2. i + 1 = j + 1
      BY <1>6, <3>1
    <3> QED
      BY <3>2
  <2>2. \A i \in 1..(n - 1) : Tail(alerts)[i].key \notin DOMAIN this \cup {key}
    <3> SUFFICES ASSUME NEW i \in 1..(n - 1)
                 PROVE  Tail(alerts)[i].key \notin DOMAIN this \cup {key}
      OBVIOUS
    <3>1. Tail(alerts)[i].key = alerts[i + 1].key /\ i + 1 \in 1..n /\ 1 \in 1..n /\ i + 1 # 1
      BY <1>5
    <3> QED
      BY <1>6, <1>7, <3>1
  <2> QED
    BY <1>1, <1>2, <1>5, <2>1, <2>2 DEF AlertsInv
<1>9. HandledInv'
  <2> SUFFICES ASSUME NEW k \in DOMAIN this'
               PROVE  /\ this'[k] # "suppressed" <=> Fresh(k)'
                      /\ k \in Keys(seen') <=> this'[k] # "draining"
    BY DEF HandledInv
  <2>1. Fresh(k)' <=> Fresh(k)
    BY DEF Fresh
  <2>2. CASE k = key
    BY <1>2, <2>1, <2>2
  <2>3. CASE k # key
    <3>1. k \in DOMAIN this /\ this'[k] = this[k]
      BY <1>2, <2>3
    <3>2. mon # "off"
      BY DEF Waiting
    <3>3. this[k] # "suppressed" <=> Fresh(k)
      BY <3>1, <3>2 DEF EpisodeInv, HandledInv
    <3>4. k \in Keys(seen) <=> this[k] # "draining"
      BY <3>1, <3>2 DEF EpisodeInv, HandledInv
    <3> QED
      BY <2>1, <2>3, <3>1, <3>3, <3>4
  <2> QED
    BY <2>2, <2>3
<1>10. AheadInv'
  <2> SUFFICES ASSUME NEW k, k \notin DOMAIN this'
               PROVE  k \in Keys(seen') <=> ~Fresh(k)'
    BY DEF AheadInv
  <2>1. k # key /\ k \notin DOMAIN this
    BY <1>2
  <2>2. ~Stopping(k)
    BY <2>1 DEF Stopping
  <2>3. k \in Keys(seen) <=> ~Fresh(k)
    BY <2>1, <2>2 DEF EpisodeInv, AheadInv
  <2>4. Fresh(k)' <=> Fresh(k)
    BY DEF Fresh
  <2> QED
    BY <2>1, <2>3, <2>4
<1>11. CountInv'
  <2>1. /\ IsFiniteSet(DOMAIN before) /\ IsFiniteSet(DOMAIN this)
        /\ Cardinality(DOMAIN before) <= 12 /\ Cardinality(DOMAIN this) + n <= 12
    BY <1>4 DEF EpisodeInv, CountInv
  <2>2. PICK c \in Nat : c = Cardinality(DOMAIN this)
    BY <2>1, FS_CardinalityType
  <2>3. IsFiniteSet(DOMAIN this') /\ Cardinality(DOMAIN this') = c + 1
    BY <1>2, <1>7, <2>1, <2>2, FS_AddElement
  <2>4. (c + 1) + (n - 1) <= 12
    BY <2>1, <2>2
  <2> QED
    BY <1>1, <1>5, <2>1, <2>3, <2>4 DEF CountInv
<1> QED
  BY <1>8, <1>9, <1>10, <1>11 DEF EpisodeInv, OrderInv, StoppingInv, AsleepInv

(* The memory of episodes is never full: before another is remembered, those  *)
(* that are were alerts of this poll or the one before.                       *)
LEMMA NoEviction ==
  ASSUME EpisodeInv, mon = "alerts", alerts # <<>>, NEW key, key = Head(alerts).key
  PROVE  Capped(PutLast(seen, key)) = PutLast(seen, key)
<1>1. Keys(PutLast(seen, key)) = Keys(seen) \cup {key}
  BY PutLastKeys DEF EpisodeInv, OrderInv
<1>2. ASSUME NEW k \in Keys(seen), k \notin DOMAIN this PROVE k \in DOMAIN before
  <2>1. ~Stopping(k) /\ Waiting
    BY DEF Stopping, Waiting
  <2>2. ~Fresh(k)
    BY <1>2, <2>1 DEF EpisodeInv, AheadInv
  <2> QED
    BY <2>2 DEF Fresh
<1>3. /\ IsFiniteSet(DOMAIN before) /\ IsFiniteSet(DOMAIN this)
      /\ Cardinality(DOMAIN before) <= 12 /\ Cardinality(DOMAIN this) + Len(alerts) <= 12
  BY DEF EpisodeInv, CountInv
<1>4. PICK S : alerts \in Seq(S)
  BY DEF EpisodeInv, AlertsInv
<1>5. PICK n \in Nat : n = Len(alerts) /\ n > 0
  <2>1. Len(alerts) \in Nat /\ Len(alerts) # 0
    BY <1>4, EmptySeq, LenProperties
  <2> QED
    BY <2>1
<1> DEFINE D == DOMAIN before
           E == DOMAIN this \cup {key}
<1>6. PICK b \in Nat : b = Cardinality(D)
  BY <1>3, FS_CardinalityType
<1>7. PICK c \in Nat : c = Cardinality(DOMAIN this)
  BY <1>3, FS_CardinalityType
<1>8. IsFiniteSet(E) /\ (Cardinality(E) = c \/ Cardinality(E) = c + 1)
  BY <1>3, <1>7, FS_AddElement
<1>9. PICK e \in Nat : e = Cardinality(E) /\ e <= 12
  <2>1. c <= 11
    BY <1>3, <1>5, <1>7
  <2> QED
    BY <1>8, <2>1
<1>10. IsFiniteSet(D) /\ b <= 12
  BY <1>3, <1>6
<1>11. Keys(seen) \cup {key} \in SUBSET (D \cup E)
  BY <1>2
<1> HIDE DEF D, E
<1>12. IsFiniteSet(D \cup E) /\ Cardinality(D \cup E) <= 24
  <2>1. PICK i \in Nat : i = Cardinality(D \cap E)
    BY <1>10, FS_Intersection, FS_CardinalityType
  <2>2. IsFiniteSet(D \cup E) /\ Cardinality(D \cup E) = b + e - i
    BY <1>6, <1>8, <1>9, <1>10, <2>1, FS_Union
  <2> QED
    BY <1>9, <1>10, <2>2
<1>13. PICK u \in Nat : u = Cardinality(D \cup E)
  BY <1>12, FS_CardinalityType
<1>14. PICK v \in Nat : v = Cardinality(Keys(seen) \cup {key}) /\ v <= 24
  <2>1. IsFiniteSet(Keys(seen) \cup {key}) /\ Cardinality(Keys(seen) \cup {key}) <= u
    BY <1>11, <1>12, <1>13, FS_Subset
  <2>2. PICK v \in Nat : v = Cardinality(Keys(seen) \cup {key})
    BY <2>1, FS_CardinalityType
  <2> QED
    BY <1>12, <1>13, <2>1, <2>2
<1>15. ~(v > SEEN_CAP)
  <2>1. SEEN_CAP \in Nat /\ SEEN_CAP >= 24
    BY MonitorAssumption, TwelveDetectors
  <2> QED
    BY <1>14, <2>1
<1> QED
  BY <1>1, <1>14, <1>15 DEF Capped

(* A new poll: what the last one did with its alerts decides what is fresh. *)
LEMMA PollKeepsEpisodes ==
  ASSUME EpisodeInv, Poll
  PROVE  EpisodeInv'
<1>1. /\ mon = "sleep" /\ mon' = "alerts" /\ before' = this /\ this' = Nothing /\ seen' = seen
      /\ alerts' = RunAllDetectors(buffer', metrics, now, sc.crashing)
  BY Zenon DEF Poll
<1>2. PICK ev : ev = buffer'
  OBVIOUS
<1>3. PICK names : Found(RunAllDetectors(ev, metrics, now, sc.crashing), names, 12)
  BY AllFound
<1>4. Found(alerts', names, 12)
  BY <1>1, <1>2, <1>3
<1>5. DOMAIN this' = {}
  BY <1>1, NothingHandled
<1>6. AlertsInv'
  BY <1>4, <1>5 DEF AlertsInv, Found
<1>7. HandledInv' /\ StoppingInv' /\ AsleepInv'
  BY <1>1, <1>5 DEF HandledInv, StoppingInv, AsleepInv
<1>8. AheadInv'
  <2> SUFFICES ASSUME NEW k PROVE k \in Keys(seen) <=> ~(k \notin DOMAIN this \/ this[k] = "draining")
    BY <1>1 DEF AheadInv, Fresh
  <2>1. k \in Keys(seen) => k \in DOMAIN this
    BY <1>1 DEF EpisodeInv, AsleepInv
  <2>2. k \in DOMAIN this => (k \in Keys(seen) <=> this[k] # "draining")
    BY <1>1 DEF EpisodeInv, HandledInv
  <2> QED
    BY <2>1, <2>2
<1>9. CountInv'
  <2>1. PICK S : alerts' \in Seq(S)
    BY <1>4 DEF Found
  <2>2. Len(alerts') \in Nat /\ Len(alerts') <= 12
    BY <1>4, <2>1, LenProperties DEF Found
  <2>3. PICK T : alerts \in Seq(T)
    BY DEF EpisodeInv, AlertsInv
  <2>4. IsFiniteSet(DOMAIN this) /\ Cardinality(DOMAIN this) + Len(alerts) <= 12
    BY DEF EpisodeInv, CountInv
  <2>5. Cardinality(DOMAIN this) \in Nat /\ Len(alerts) \in Nat
    BY <2>3, <2>4, FS_CardinalityType, LenProperties
  <2>6. Cardinality(DOMAIN this) <= 12
    BY <2>4, <2>5
  <2> QED
    BY <1>1, <2>2, <2>4, <2>6, NothingHandled DEF CountInv
<1>10. OrderInv'
  BY <1>1 DEF EpisodeInv, OrderInv
<1> QED
  BY <1>1, <1>6, <1>7, <1>8, <1>9, <1>10 DEF EpisodeInv

LEMMA MonitorStartsKeepsEpisodes ==
  ASSUME EpisodeInv, MonitorStarts
  PROVE  EpisodeInv'
<1>1. mon' = "sleep" /\ alerts' = <<>> /\ seen' = {} /\ before' = Nothing /\ this' = Nothing
  BY Zenon DEF MonitorStarts
<1>2. OrderInv' /\ AsleepInv'
  BY <1>1, NoKeys DEF OrderInv, AsleepInv
<1>3. AlertsInv'
  BY <1>1, EmptySeq DEF AlertsInv, Waiting
<1>4. CountInv'
  BY <1>1, NothingHandled DEF CountInv
<1>5. HandledInv'
  BY <1>1, NothingHandled DEF HandledInv
<1> QED
  BY <1>1, <1>2, <1>3, <1>4, <1>5 DEF EpisodeInv, AheadInv, StoppingInv, Waiting

LEMMA MonitorDiesKeepsEpisodes ==
  ASSUME EpisodeInv, MonitorDies
  PROVE  EpisodeInv'
<1>1. mon' = "off" /\ alerts' = alerts /\ seen' = seen /\ before' = before /\ this' = this
  BY Zenon DEF MonitorDies
<1> QED
  BY <1>1 DEF EpisodeInv, OrderInv, AlertsInv, HandledInv, AheadInv, StoppingInv, AsleepInv,
              CountInv, Waiting

(* The alert at the head is not one of a stop under way, and is not handled. *)
LEMMA HeadIsAhead ==
  ASSUME EpisodeInv, mon = "alerts", alerts # <<>>, NEW key, key = Head(alerts).key
  PROVE  key \in Keys(seen) <=> ~Fresh(key)
<1>1. PICK S : alerts \in Seq(S)
  BY DEF EpisodeInv, AlertsInv
<1>2. Len(alerts) \in Nat /\ Len(alerts) # 0 /\ Head(alerts) = alerts[1]
  BY <1>1, EmptySeq, LenProperties
<1>3. 1 \in 1..Len(alerts) /\ key = alerts[1].key
  BY <1>2
<1>4. key \notin DOMAIN this
  BY <1>3 DEF EpisodeInv, AlertsInv, Waiting
<1> QED
  BY <1>4 DEF EpisodeInv, AheadInv, Waiting, Stopping

LEMMA SuppressKeepsEpisodes ==
  ASSUME EpisodeInv, Suppress
  PROVE  EpisodeInv'
<1>1. PICK key : key = Head(alerts).key
  OBVIOUS
<1>2. /\ mon = "alerts" /\ alerts # <<>> /\ key \in Keys(seen)
      /\ seen' = PutLast(seen, key) /\ Handle("suppressed") /\ mon' = mon /\ before' = before
  BY <1>1, Zenon DEF Suppress
<1>3. Keys(seen') = Keys(seen) \cup {key} /\ Reflexive(seen')
  BY <1>2, PutLastKeys DEF EpisodeInv, OrderInv
<1>4. ~Fresh(key)
  BY <1>1, <1>2, HeadIsAhead
<1>5. \A k : k \in Keys(seen') <=> IF k = key THEN "suppressed" # "draining" ELSE k \in Keys(seen)
  BY <1>3
<1>6. Waiting
  BY <1>2 DEF Waiting
<1> QED
  BY <1>1, <1>2, <1>3, <1>4, <1>5, <1>6, HandleKeeps

LEMMA NewEpisodeRemembers ==
  ASSUME EpisodeInv, mon = "alerts", NewEpisode, NEW key, key = Head(alerts).key
  PROVE  /\ alerts # <<>> /\ Fresh(key) /\ before' = before
         /\ Keys(seen') = Keys(seen) \cup {key} /\ Reflexive(seen')
<1>1. alerts # <<>> /\ key \notin Keys(seen) /\ seen' = Capped(PutLast(seen, key)) /\ before' = before
  BY Zenon DEF NewEpisode
<1>2. seen' = PutLast(seen, key)
  BY <1>1, NoEviction
<1>3. Keys(seen') = Keys(seen) \cup {key} /\ Reflexive(seen')
  BY <1>2, PutLastKeys DEF EpisodeInv, OrderInv
<1>4. Fresh(key)
  BY <1>1, HeadIsAhead
<1> QED
  BY <1>1, <1>3, <1>4

LEMMA RecordOnlyKeepsEpisodes ==
  ASSUME EpisodeInv, RecordOnly
  PROVE  EpisodeInv'
<1>1. PICK key : key = Head(alerts).key
  OBVIOUS
<1>2. NewEpisode /\ mon = "alerts" /\ Handle("none") /\ mon' = mon
  BY Zenon DEF RecordOnly, NewEpisode
<1>3. /\ alerts # <<>> /\ Fresh(key) /\ before' = before
      /\ Keys(seen') = Keys(seen) \cup {key} /\ Reflexive(seen')
  BY <1>1, <1>2, NewEpisodeRemembers
<1>4. \A k : k \in Keys(seen') <=> IF k = key THEN "none" # "draining" ELSE k \in Keys(seen)
  BY <1>3
<1>5. Waiting
  BY <1>2 DEF Waiting
<1> QED
  BY <1>1, <1>2, <1>3, <1>4, <1>5, HandleKeeps

LEMMA StopServiceKeepsEpisodes ==
  ASSUME EpisodeInv, StopService
  PROVE  EpisodeInv'
<1>1. PICK key : key = Head(alerts).key
  OBVIOUS
<1>2. NewEpisode /\ mon = "alerts" /\ mon' = "stopping" /\ alerts' = alerts /\ this' = this
  BY Zenon DEF StopService, NewEpisode
<1>3. /\ alerts # <<>> /\ Fresh(key) /\ before' = before
      /\ Keys(seen') = Keys(seen) \cup {key} /\ Reflexive(seen')
  BY <1>1, <1>2, NewEpisodeRemembers
<1>4. OrderInv' /\ AsleepInv' /\ CountInv' /\ AlertsInv'
  BY <1>2, <1>3 DEF EpisodeInv, OrderInv, AsleepInv, CountInv, AlertsInv, Waiting
<1>5. key \notin DOMAIN this
  <2>1. PICK S : alerts \in Seq(S)
    BY DEF EpisodeInv, AlertsInv
  <2>2. Len(alerts) \in Nat /\ Len(alerts) # 0 /\ Head(alerts) = alerts[1]
    BY <1>3, <2>1, EmptySeq, LenProperties
  <2>3. 1 \in 1..Len(alerts) /\ key = alerts[1].key
    BY <1>1, <2>2
  <2> QED
    BY <1>2, <2>3 DEF EpisodeInv, AlertsInv, Waiting
<1>6. \A k : Fresh(k)' <=> Fresh(k)
  BY <1>3 DEF Fresh
<1>7. HandledInv'
  <2> SUFFICES ASSUME NEW k \in DOMAIN this
               PROVE  /\ this[k] # "suppressed" <=> Fresh(k)'
                      /\ k \in Keys(seen') <=> this[k] # "draining"
    BY <1>2 DEF HandledInv
  <2>1. this[k] # "suppressed" <=> Fresh(k)
    BY <1>2 DEF EpisodeInv, HandledInv
  <2>2. k \in Keys(seen) <=> this[k] # "draining"
    BY <1>2 DEF EpisodeInv, HandledInv
  <2> QED
    BY <1>3, <1>5, <1>6, <2>1, <2>2
<1>8. AheadInv'
  <2> SUFFICES ASSUME NEW k, k \notin DOMAIN this, k # key
               PROVE  k \in Keys(seen') <=> ~Fresh(k)'
    BY <1>1, <1>2 DEF AheadInv, Stopping
  <2>1. k \in Keys(seen) <=> ~Fresh(k)
    BY <1>2 DEF EpisodeInv, AheadInv, Waiting, Stopping
  <2> QED
    BY <1>3, <1>6, <2>1
<1>9. StoppingInv'
  <2>1. alerts' # <<>> /\ Head(alerts').key = key /\ key \in Keys(seen') /\ Fresh(key)'
    BY <1>1, <1>2, <1>3, <1>6
  <2> QED
    BY <2>1 DEF StoppingInv, Fresh
<1> QED
  BY <1>2, <1>4, <1>7, <1>8, <1>9 DEF EpisodeInv

LEMMA StopReturnsKeepsEpisodes ==
  ASSUME EpisodeInv, StopReturns
  PROVE  EpisodeInv'
<1>1. PICK key : key = Head(alerts).key
  OBVIOUS
<1>2. PICK raised \in {FALSE} \cup (IF sc.mode = "stale_unit" THEN {TRUE} ELSE {}) :
        /\ Handle(StopVerdict(Alive, raised))
        /\ seen' = SeenAfter(StopVerdict(Alive, raised), Head(alerts).key)
  BY Zenon DEF StopReturns
<1>3. PICK verdict : verdict = StopVerdict(Alive, raised)
  OBVIOUS
<1>4. verdict \in {"triggered", "failed", "draining"}
  BY <1>3 DEF StopVerdict
<1>5. Handle(verdict) /\ seen' = SeenAfter(verdict, key)
  BY <1>1, <1>2, <1>3
<1>6. mon = "stopping" /\ mon' = "alerts" /\ before' = before
  BY Zenon DEF StopReturns
<1>7. alerts # <<>> /\ key \in Keys(seen) /\ Fresh(key)
  BY <1>1, <1>6 DEF EpisodeInv, StoppingInv
<1>8. Reflexive(seen)
  BY DEF EpisodeInv, OrderInv
<1>9. /\ Reflexive(seen')
      /\ \A k : k \in Keys(seen') <=> IF k = key THEN verdict # "draining" ELSE k \in Keys(seen)
  <2>1. CASE verdict = "draining"
    <3>1. seen' = Without(seen, key)
      BY <1>5, <2>1 DEF SeenAfter
    <3>2. Keys(seen') = Keys(seen) \ {key} /\ Reflexive(seen')
      BY <1>8, <3>1, WithoutKeys
    <3> QED
      BY <2>1, <3>2
  <2>2. CASE verdict # "draining"
    <3>1. seen' = seen
      BY <1>5, <2>2 DEF SeenAfter
    <3> QED
      BY <1>7, <1>8, <2>2, <3>1
  <2> QED
    BY <2>1, <2>2
<1>10. Waiting
  BY <1>6 DEF Waiting
<1>11. verdict # "suppressed" <=> Fresh(key)
  BY <1>4, <1>7
<1> QED
  BY <1>1, <1>5, <1>6, <1>7, <1>9, <1>10, <1>11, HandleKeeps

(* An episode absent from the poll is forgotten. *)
LEMMA EndPollKeepsEpisodes ==
  ASSUME EpisodeInv, EndPoll
  PROVE  EpisodeInv'
<1>1. /\ mon = "alerts" /\ mon' = "sleep" /\ alerts' = alerts /\ seen' = Only(seen, DOMAIN this)
      /\ before' = before /\ this' = this
  BY Zenon DEF EndPoll
<1>2. Keys(seen') = Keys(seen) \cap DOMAIN this /\ Reflexive(seen')
  BY <1>1, OnlyKeys DEF EpisodeInv, OrderInv
<1>3. AlertsInv' /\ CountInv'
  BY <1>1 DEF EpisodeInv, AlertsInv, CountInv, Waiting
<1>4. HandledInv'
  <2> SUFFICES ASSUME NEW k \in DOMAIN this
               PROVE  /\ this[k] # "suppressed" <=> Fresh(k)'
                      /\ k \in Keys(seen') <=> this[k] # "draining"
    BY <1>1 DEF HandledInv
  <2>1. Fresh(k)' <=> Fresh(k)
    BY <1>1 DEF Fresh
  <2>2. this[k] # "suppressed" <=> Fresh(k)
    BY <1>1 DEF EpisodeInv, HandledInv
  <2>3. k \in Keys(seen) <=> this[k] # "draining"
    BY <1>1 DEF EpisodeInv, HandledInv
  <2> QED
    BY <1>2, <2>1, <2>2, <2>3
<1> QED
  BY <1>1, <1>2, <1>3, <1>4 DEF EpisodeInv, OrderInv, AheadInv, StoppingInv, AsleepInv, Waiting

LEMMA EpisodeStep ==
  ASSUME EpisodeInv, [Next]_vars
  PROVE  EpisodeInv'
<1>1. CASE ServeStep
  <2>1. UNCHANGED <<mon, alerts, seen, before, this>>
    BY <1>1, Zenon DEF ServeStep, RoundStarts, AgentExits, RoundNotes, RoundEnds, Pauses, Resumes,
                       Sample, ServeExits, ServeDies, ServeStarts, ServeEmits, mvars
  <2> QED
    BY <2>1, EpisodeFrame
<1>2. CASE MonitorStep
  <2>1. CASE PollFails
    <3>1. UNCHANGED <<mon, alerts, seen, before, this>>
      BY <2>1, Zenon DEF PollFails
    <3> QED
      BY <3>1, EpisodeFrame
  <2> QED
    BY <1>2, <2>1, MonitorStartsKeepsEpisodes, PollKeepsEpisodes, SuppressKeepsEpisodes,
       RecordOnlyKeepsEpisodes, StopServiceKeepsEpisodes, StopReturnsKeepsEpisodes,
       EndPollKeepsEpisodes DEF MonitorStep
<1>3. CASE MonitorDies
  BY <1>3, MonitorDiesKeepsEpisodes
<1>4. CASE MonthTurns \/ Tick \/ UNCHANGED vars
  <2>1. UNCHANGED <<mon, alerts, seen, before, this>>
    BY <1>4, Zenon DEF MonthTurns, Tick, vars, mvars
  <2> QED
    BY <2>1, EpisodeFrame
<1> QED
  BY <1>1, <1>2, <1>3, <1>4 DEF Next

(* Every episode is acted on once, and a draining stop in the next poll again *)
(* (_monitor_loop_iter's seen), as long as the memory of episodes holds two   *)
(* polls' worth of alerts; so no eviction makes an alert sound twice.         *)
THEOREM ActedOncePerEpisode == Spec => []OncePerEpisode
<1>1. Init => EpisodeInv
  BY EpisodeInit
<1>2. EpisodeInv /\ [Next]_vars => EpisodeInv'
  BY EpisodeStep
<1>3. EpisodeInv => OncePerEpisode
  BY DEF EpisodeInv, HandledInv, OncePerEpisode, Fresh
<1> QED
  BY <1>1, <1>2, <1>3, PTL DEF Spec

LEMMA RememberType ==
    ASSUME recent \in Seq(Pressures), NEW p \in Pressures
    PROVE  Remember(p) \in Seq(Pressures)
<1>1. /\ Append(recent, p) \in Seq(Pressures)
      /\ Len(Append(recent, p)) = Len(recent) + 1
    OBVIOUS
<1>2. Append(recent, p) # <<>>
    <2>1. Len(recent) \in Nat /\ Len(<<>>) = 0
        OBVIOUS
    <2> QED
        BY <1>1, <2>1
<1>3. Tail(Append(recent, p)) \in Seq(Pressures)
    BY <1>1, <1>2
<1> QED
    BY <1>1, <1>3 DEF Remember

(* A step keeps the values in their sets.                                  *)
LEMMA ValueStep == TypeOK /\ [SpawnNext]_spawn_vars => ValueTypes'
<1> SUFFICES ASSUME ValueTypes, [SpawnNext]_spawn_vars PROVE ValueTypes'
    BY DEF TypeOK
<1> USE SpawnRoundAssumption DEF ValueTypes, REST, counters, floor, brake
<1>1. CASE UNCHANGED spawn_vars
    BY <1>1 DEF spawn_vars
<1>2. CASE Spawn
    BY <1>2 DEF Spawn
<1>3. CASE LeaderExits
    BY <1>3 DEF LeaderExits, Finally, RestoreBrake
<1>4. CASE Deadline
    BY <1>4 DEF Deadline, Terminate, RestoreBrake
<1>5. ASSUME NEW p \in Pressures, MemCheck(p) PROVE ValueTypes'
    <2>1. recent' \in Seq(Pressures)
        BY <1>5, RememberType DEF MemCheck
    <2>2. /\ warning_streak' \in Nat /\ none_streak' \in Nat
          /\ brake_previous' \in 1..MaxHigh /\ leaf_high' \in 1..MaxHigh
        BY <1>5 DEF MemCheck, HealthyCheck, PressuredCheck, Engage
    <2> QED
        BY <1>5, <2>1, <2>2 DEF MemCheck
<1>6. CASE JudgeOK \/ CountOnly \/ Nudge \/ Defer \/ FloorTerminates
    <2>1. mem_terminated' \subseteq {"nudge", "terminate"}
        BY <1>6 DEF JudgeOK, CountOnly, Nudge, Defer, FloorTerminates
    <2>2. CASE JudgeOK \/ FloorTerminates
        <3>1. CASE JudgeOK
            BY <3>1, <2>1 DEF JudgeOK, JudgeCritical, Terminate
        <3>2. CASE FloorTerminates
            BY <3>2, <2>1 DEF FloorTerminates, JudgeCritical, Terminate
        <3> QED
            BY <2>2, <3>1, <3>2
    <2>3. CASE CountOnly \/ Nudge \/ Defer
        <3>1. CASE CountOnly
            BY <3>1, <2>1 DEF CountOnly, JudgeCritical
        <3>2. CASE Nudge
            BY <3>2, <2>1 DEF Nudge, JudgeCritical
        <3>3. CASE Defer
            BY <3>3, <2>1 DEF Defer, JudgeCritical
        <3> QED
            BY <2>3, <3>1, <3>2, <3>3
    <2> QED
        BY <1>6, <2>2, <2>3
<1>7. CASE GraceExit \/ KillPg \/ Unreaped
    <2>1. leaf_high' \in 1..MaxHigh /\ restore_lost' \in Nat
        BY <1>7 DEF GraceExit, KillPg, Unreaped, AfterTerminate, Terminated, Finally,
            RestoreBrake
    <2>2. CASE GraceExit \/ Unreaped
        BY <2>1, <2>2 DEF GraceExit, Unreaped, AfterTerminate, Terminated, Finally
    <2>3. CASE KillPg
        BY <2>1, <2>3 DEF KillPg
    <2> QED
        BY <1>7, <2>2, <2>3
<1>8. CASE EmitAndReturn
    <2>1. leaf_high' \in 1..MaxHigh /\ restore_lost' \in Nat
        BY <1>8 DEF EmitAndReturn, Leave, Finally, RestoreBrake
    <2>2. mem_terminated' \subseteq {"nudge", "terminate"}
        BY <1>8 DEF EmitAndReturn
    <2> QED
        BY <1>8, <2>1, <2>2 DEF EmitAndReturn, Leave, Finally
<1>9. CASE Raise
    BY <1>9 DEF Raise, Leave, Terminate
<1>10. CASE Leader
    BY <1>10 DEF Leader, LeaderFinishes, LeaderStuck, LeaderUnstuck
<1> QED
    BY <1>1, <1>2, <1>3, <1>4, <1>5, <1>6, <1>7, <1>8, <1>9, <1>10 DEF SpawnNext, Watcher

(* A step keeps the flags Boolean.                                         *)
LEMMA FlagStep == TypeOK /\ [SpawnNext]_spawn_vars => FlagTypes'
<1> SUFFICES ASSUME FlagTypes, [SpawnNext]_spawn_vars PROVE FlagTypes'
    BY DEF TypeOK
<1> USE DEF FlagTypes, REST, counters, floor, brake
<1>1. CASE UNCHANGED spawn_vars
    BY <1>1, Zenon DEF spawn_vars
<1>2. CASE Spawn
    BY <1>2, Zenon DEF Spawn
<1>3. CASE LeaderExits
    BY <1>3, Zenon DEF LeaderExits, Finally, RestoreBrake
<1>4. CASE Deadline
    BY <1>4, Zenon DEF Deadline, Terminate, RestoreBrake
<1>5. ASSUME NEW p \in Pressures, MemCheck(p) PROVE FlagTypes'
    <2>1. CASE HealthyCheck
        BY <1>5, <2>1, Zenon DEF MemCheck, HealthyCheck
    <2>2. CASE PressuredCheck
        BY <1>5, <2>2, Zenon DEF MemCheck, PressuredCheck, Engage
    <2> QED
        BY <1>5, <2>1, <2>2, Zenon DEF MemCheck
<1>6. CASE JudgeOK \/ CountOnly \/ Nudge \/ Defer \/ FloorTerminates
    BY <1>6, Zenon
    DEF JudgeOK, CountOnly, Nudge, Defer, FloorTerminates, JudgeCritical, Terminate
<1>7. CASE GraceExit \/ KillPg \/ Unreaped
    BY <1>7, Zenon
    DEF GraceExit, KillPg, Unreaped, AfterTerminate, Terminated, Finally, RestoreBrake
<1>8. CASE EmitAndReturn
    BY <1>8, Zenon DEF EmitAndReturn, Leave, Finally, RestoreBrake
<1>9. CASE Raise
    BY <1>9, Zenon DEF Raise, Leave, Terminate
<1>10. CASE Leader
    BY <1>10, Zenon DEF Leader, LeaderFinishes, LeaderStuck, LeaderUnstuck
<1> QED
    BY <1>1, <1>2, <1>3, <1>4, <1>5, <1>6, <1>7, <1>8, <1>9, <1>10, Zenon DEF SpawnNext, Watcher

(* The types hold in every reachable state.                                *)
THEOREM SpawnRoundTypes == SpawnSpec => []TypeOK
<1>1. SpawnInit => FlagTypes
    BY Zenon DEF SpawnInit, FlagTypes
<1>2. SpawnInit => ValueTypes
    BY SpawnRoundAssumption DEF SpawnInit, ValueTypes, ConfigType
<1> QED
    BY <1>1, <1>2, ValueStep, FlagStep, PTL DEF SpawnSpec, TypeOK

-----------------------------------------------------------------------------
(* Where the call is and what it has undone: the brake is off between calls *)
(* and on the wedged path; while it is on, the stashed value is within the  *)
(* operator's, and equal to it as long as no restore was lost.              *)
BrakeInv ==
    /\ pc = "idle" => ~brake_engaged
    /\ pc \in {"watch", "judge"} => why = "nothing"
    /\ pc \in {"grace", "kill_wait", "emit"} /\ why = "wedge" => ~brake_engaged
    /\ leaf_high <= cfg.high
    /\ brake_engaged => brake_previous <= cfg.high
    /\ restore_lost = 0 /\ brake_engaged => brake_previous = cfg.high
    /\ restore_lost = 0 /\ ~brake_engaged => leaf_high = cfg.high

LEMMA BrakeStep == TypeOK /\ BrakeInv /\ [SpawnNext]_spawn_vars => BrakeInv'
<1> SUFFICES ASSUME ValueTypes, BrakeInv, [SpawnNext]_spawn_vars PROVE BrakeInv'
    BY DEF TypeOK
<1> USE SpawnRoundAssumption DEF ValueTypes, ConfigType, BrakeInv, REST, counters, floor, brake
<1>1. CASE UNCHANGED spawn_vars
    BY <1>1 DEF spawn_vars
<1>2. CASE Spawn
    BY <1>2 DEF Spawn
<1>3. CASE LeaderExits
    BY <1>3 DEF LeaderExits, Finally, RestoreBrake
<1>4. CASE Deadline
    BY <1>4 DEF Deadline, Terminate, RestoreBrake
<1>5. ASSUME NEW p \in Pressures, MemCheck(p) PROVE BrakeInv'
    <2>1. CASE HealthyCheck
        BY <1>5, <2>1 DEF MemCheck, HealthyCheck, ReleaseDue
    <2>2. CASE PressuredCheck
        BY <1>5, <2>2 DEF MemCheck, PressuredCheck, EngageDue, Engage
    <2> QED
        BY <1>5, <2>1, <2>2 DEF MemCheck
<1>6. CASE JudgeOK \/ CountOnly \/ Nudge \/ Defer \/ FloorTerminates
    <2>1. CASE JudgeOK \/ FloorTerminates
        BY <2>1 DEF JudgeOK, FloorTerminates, JudgeCritical, Terminate
    <2>2. CASE CountOnly
        BY <2>2 DEF CountOnly, JudgeCritical, Terminate
    <2>3. CASE Nudge
        BY <2>3 DEF Nudge, JudgeCritical, Terminate
    <2>4. CASE Defer
        BY <2>4 DEF Defer, JudgeCritical, Terminate
    <2> QED
        BY <1>6, <2>1, <2>2, <2>3, <2>4
<1>7. CASE GraceExit \/ KillPg \/ Unreaped
    <2>1. CASE GraceExit
        BY <2>1 DEF GraceExit, AfterTerminate, Terminated, Finally, RestoreBrake
    <2>2. CASE KillPg
        BY <2>2 DEF KillPg, AfterTerminate, Terminated, Finally, RestoreBrake
    <2>3. CASE Unreaped
        BY <2>3 DEF Unreaped, AfterTerminate, Terminated, Finally, RestoreBrake
    <2> QED
        BY <1>7, <2>1, <2>2, <2>3
<1>8. CASE EmitAndReturn
    BY <1>8 DEF EmitAndReturn, Leave, Finally, RestoreBrake
<1>9. CASE Raise
    BY <1>9 DEF Raise, Leave, Terminate
<1>10. CASE Leader
    BY <1>10 DEF Leader, LeaderFinishes, LeaderStuck, LeaderUnstuck
<1> QED
    BY <1>1, <1>2, <1>3, <1>4, <1>5, <1>6, <1>7, <1>8, <1>9, <1>10 DEF SpawnNext, Watcher

LEMMA BrakeInvariant == SpawnSpec => []BrakeInv
<1>1. SpawnInit => BrakeInv
    BY SpawnRoundAssumption DEF SpawnInit, BrakeInv, ConfigType
<1> QED
    BY <1>1, BrakeStep, SpawnRoundTypes, PTL DEF SpawnSpec

(* Every way out of a round takes the brake off, unless the restoring       *)
(* write failed.                                                            *)
THEOREM BrakeIsReleased == SpawnSpec => []BrakeReleased
<1>1. BrakeInv => BrakeReleased
    BY DEF BrakeInv, BrakeReleased
<1> QED
    BY <1>1, BrakeInvariant, PTL

(* The brake never raises memory.high above the operator's value.          *)
THEOREM BrakeOnlyTightens == SpawnSpec => []BrakeNeverLoosens
<1>1. BrakeInv => BrakeNeverLoosens
    BY DEF BrakeInv, BrakeNeverLoosens
<1> QED
    BY <1>1, BrakeInvariant, PTL

-----------------------------------------------------------------------------
(* What _terminate_round has achieved when the call goes on or is left.    *)
LeaderInv ==
    /\ NoOrphan
    /\ pc = "emit" => \/ proc = "reaped" /\ result = "returned"
                      \/ proc \in {"killed", "exited"} /\ result = "unreaped"

LEMMA LeaderStep == LeaderInv /\ [SpawnNext]_spawn_vars => LeaderInv'
<1> SUFFICES ASSUME LeaderInv, [SpawnNext]_spawn_vars PROVE LeaderInv'
    OBVIOUS
<1> USE DEF LeaderInv, NoOrphan
<1>1. CASE UNCHANGED spawn_vars
    BY <1>1 DEF spawn_vars
<1>2. CASE Spawn \/ LeaderExits \/ Deadline
    BY <1>2 DEF Spawn, LeaderExits, Deadline, Terminate, Finally
<1>3. ASSUME NEW p \in Pressures, MemCheck(p) PROVE LeaderInv'
    BY <1>3 DEF MemCheck
<1>4. CASE JudgeOK \/ CountOnly \/ Nudge \/ Defer \/ FloorTerminates
    BY <1>4 DEF JudgeOK, CountOnly, Nudge, Defer, FloorTerminates, JudgeCritical, Terminate
<1>5. CASE GraceExit \/ KillPg \/ Unreaped
    BY <1>5 DEF GraceExit, KillPg, Unreaped, AfterTerminate, Terminated, Finally
<1>6. CASE EmitAndReturn
    BY <1>6 DEF EmitAndReturn, Leave, Finally
<1>7. CASE Raise
    BY <1>7 DEF Raise, Leave, Terminate
<1>8. CASE Leader
    BY <1>8 DEF Leader, LeaderFinishes, LeaderStuck, LeaderUnstuck
<1> QED
    BY <1>1, <1>2, <1>3, <1>4, <1>5, <1>6, <1>7, <1>8 DEF SpawnNext, Watcher

(* A returned exit code is that of a reaped leader, and a leader that could *)
(* not be reaped has been killed as far as a signal can.                    *)
THEOREM NoLeaderIsOrphaned == SpawnSpec => []NoOrphan
<1>1. SpawnInit => LeaderInv
    BY DEF SpawnInit, LeaderInv, NoOrphan
<1>2. LeaderInv => NoOrphan
    BY DEF LeaderInv
<1> QED
    BY <1>1, <1>2, LeaderStep, PTL DEF SpawnSpec

-----------------------------------------------------------------------------
(* The streak is a run of critical samples at the end of recent; during     *)
(* "judge" the newest sample is not counted yet.                            *)
Pending == IF pc = "judge" THEN 1 ELSE 0

StreakInv ==
    /\ pc \in {"watch", "judge"} =>
        /\ why = "nothing"
        /\ Len(recent) >= Pending
        /\ Len(recent) <= CriticalSamples
        /\ Len(recent) = CriticalSamples \/ Len(recent) >= critical_streak + Pending
        /\ \A i \in 1..(Len(recent) - Pending) :
              i > Len(recent) - Pending - critical_streak => recent[i] = "critical"
    /\ FloorNeedsSustained

LEMMA StreakStep == TypeOK /\ StreakInv /\ [SpawnNext]_spawn_vars => StreakInv'
<1> SUFFICES ASSUME ValueTypes, StreakInv, [SpawnNext]_spawn_vars PROVE StreakInv'
    BY DEF TypeOK
<1> USE SpawnRoundAssumption DEF ValueTypes, StreakInv, FloorNeedsSustained, Pending
<1>1. CASE UNCHANGED spawn_vars
    BY <1>1 DEF spawn_vars, counters, floor
<1>2. CASE Spawn
    BY <1>2 DEF Spawn
<1>3. CASE LeaderExits \/ Deadline
    BY <1>3 DEF LeaderExits, Deadline, Terminate, Finally, REST, floor, counters
<1>4. ASSUME NEW p \in Pressures, MemCheck(p) PROVE StreakInv'
    <2>1. recent \in Seq(Pressures) /\ Len(recent) \in Nat
        OBVIOUS
    <2>2. CASE Len(recent) < CriticalSamples
        <3>1. recent' = Append(recent, p)
            BY <1>4, <2>1, <2>2 DEF MemCheck, Remember
        <3>2. /\ Len(recent') = Len(recent) + 1
              /\ \A i \in 1..Len(recent) : recent'[i] = recent[i]
            BY <2>1, <3>1
        <3>3. pc = "watch" /\ pc' = "judge" /\ UNCHANGED <<why, critical_streak>>
            BY <1>4 DEF MemCheck
        <3> QED
            BY <2>1, <2>2, <3>2, <3>3
    <2>3. CASE Len(recent) = CriticalSamples
        <3>1. recent' = Tail(Append(recent, p))
            BY <1>4, <2>1, <2>3 DEF MemCheck, Remember
        <3>2. /\ Len(recent') = Len(recent)
              /\ \A i \in 1..(Len(recent) - 1) : recent'[i] = recent[i + 1]
            BY <2>1, <2>3, <3>1
        <3> QED
            BY <1>4, <2>3, <3>2 DEF MemCheck
    <2> QED
        BY <1>4, <2>1, <2>2, <2>3 DEF MemCheck
<1>5. CASE JudgeOK
    BY <1>5 DEF JudgeOK
<1>6. CASE CountOnly \/ Nudge \/ Defer
    <2>1. CASE CountOnly
        BY <2>1 DEF CountOnly, JudgeCritical
    <2>2. CASE Nudge
        BY <2>2 DEF Nudge, JudgeCritical
    <2>3. CASE Defer
        BY <2>3 DEF Defer, JudgeCritical
    <2> QED
        BY <1>6, <2>1, <2>2, <2>3
<1>7. CASE FloorTerminates
    <2>1. /\ cfg.in_round_terminate /\ ~cfg.defer_to_cgroup
          /\ critical_streak + 1 >= CriticalSamples
        BY <1>7 DEF FloorTerminates, JudgeCritical, MidRoundAction
    <2> QED
        BY <1>7, <2>1 DEF FloorTerminates, JudgeCritical, Terminate
<1>8. CASE GraceExit \/ KillPg \/ Unreaped
    BY <1>8 DEF GraceExit, KillPg, Unreaped, AfterTerminate, Terminated, Finally,
        REST, floor, counters
<1>9. CASE EmitAndReturn
    BY <1>9 DEF EmitAndReturn, Leave, Finally, counters
<1>10. CASE Raise
    BY <1>10 DEF Raise, Leave, Terminate, REST, floor, counters
<1>11. CASE Leader
    BY <1>11 DEF Leader, LeaderFinishes, LeaderStuck, LeaderUnstuck, REST, floor, counters
<1> QED
    BY <1>1, <1>2, <1>3, <1>4, <1>5, <1>6, <1>7, <1>8, <1>9, <1>10, <1>11 DEF SpawnNext, Watcher

(* The hard floor never acts on less than CriticalSamples critical samples  *)
(* in a row, nor against its off switch or a binding cgroup.                *)
THEOREM FloorIsPatient == SpawnSpec => []FloorNeedsSustained
<1>1. SpawnInit => StreakInv
    BY SpawnRoundAssumption DEF SpawnInit, StreakInv, FloorNeedsSustained, Pending
<1>2. StreakInv => FloorNeedsSustained
    BY DEF StreakInv
<1> QED
    BY <1>1, <1>2, StreakStep, SpawnRoundTypes, PTL DEF SpawnSpec

-----------------------------------------------------------------------------
DeferInv == DeferReportedOnce /\ (cgroup_defer_notified <=> deferrals = 1)

LEMMA DeferStep == TypeOK /\ DeferInv /\ [SpawnNext]_spawn_vars => DeferInv'
<1> SUFFICES ASSUME ValueTypes, DeferInv, [SpawnNext]_spawn_vars PROVE DeferInv'
    BY DEF TypeOK
<1> USE SpawnRoundAssumption DEF ValueTypes, DeferInv, DeferReportedOnce
<1>1. CASE UNCHANGED spawn_vars
    BY <1>1 DEF spawn_vars, floor, counters
<1>2. CASE Spawn \/ JudgeOK
    BY <1>2 DEF Spawn, JudgeOK
<1>3. CASE CountOnly \/ Nudge \/ FloorTerminates
    BY <1>3 DEF CountOnly, Nudge, FloorTerminates, JudgeCritical, MidRoundAction
<1>4. CASE Defer
    BY <1>4 DEF Defer, JudgeCritical, MidRoundAction
<1>5. ASSUME NEW p \in Pressures, MemCheck(p) PROVE DeferInv'
    BY <1>5 DEF MemCheck
<1>6. CASE EmitAndReturn
    BY <1>6 DEF EmitAndReturn, counters
<1>7. CASE LeaderExits \/ Deadline \/ GraceExit \/ KillPg \/ Unreaped \/ Raise \/ Leader
    BY <1>7 DEF LeaderExits, Deadline, GraceExit, KillPg, Unreaped, Raise, Leader,
        LeaderFinishes, LeaderStuck, LeaderUnstuck, REST, floor, counters
<1> QED
    BY <1>1, <1>2, <1>3, <1>4, <1>5, <1>6, <1>7 DEF SpawnNext, Watcher

(* Each episode of sustained pressure that is left to the kernel is         *)
(* announced exactly once.                                                  *)
THEOREM DeferralsAreReported == SpawnSpec => []DeferReportedOnce
<1>1. SpawnInit => DeferInv
    BY SpawnRoundAssumption DEF SpawnInit, DeferInv, DeferReportedOnce
<1>2. DeferInv => DeferReportedOnce
    BY DEF DeferInv
<1> QED
    BY <1>1, <1>2, DeferStep, SpawnRoundTypes, PTL DEF SpawnSpec

-----------------------------------------------------------------------------
(* The log tells the truth about the floor all along, but for the moments   *)
(* between the floor's SIGTERM and its event, and in a call that unwinds.   *)
Truthful == asked_to_stop <=> mem_terminated # {}

HonestInv ==
    /\ pc \in {"watch", "judge"} => why = "nothing" /\ Truthful
    /\ pc \in {"grace", "kill_wait", "emit"} =>
          \/ why = "wedge" /\ Truthful
          \/ why = "floor" /\ asked_to_stop
          \/ why = "unwind" /\ pc # "emit"
    /\ MemTerminatedHonest

LEMMA HonestStep == HonestInv /\ [SpawnNext]_spawn_vars => HonestInv'
<1> SUFFICES ASSUME HonestInv, [SpawnNext]_spawn_vars PROVE HonestInv'
    OBVIOUS
<1> USE DEF HonestInv, MemTerminatedHonest, Truthful, REST, floor
<1>1. CASE UNCHANGED spawn_vars
    BY <1>1 DEF spawn_vars
<1>2. CASE Spawn
    BY <1>2 DEF Spawn
<1>3. CASE LeaderExits \/ Deadline
    BY <1>3 DEF LeaderExits, Deadline, Terminate, Finally
<1>4. ASSUME NEW p \in Pressures, MemCheck(p) PROVE HonestInv'
    BY <1>4 DEF MemCheck
<1>5. CASE JudgeOK \/ CountOnly \/ Defer
    BY <1>5 DEF JudgeOK, CountOnly, Defer, JudgeCritical
<1>6. CASE Nudge \/ FloorTerminates
    BY <1>6 DEF Nudge, FloorTerminates, JudgeCritical, Terminate
<1>7. CASE GraceExit \/ KillPg \/ Unreaped
    BY <1>7 DEF GraceExit, KillPg, Unreaped, AfterTerminate, Terminated, Finally
<1>8. CASE EmitAndReturn
    BY <1>8 DEF EmitAndReturn, Leave, Finally
<1>9. CASE Raise
    BY <1>9 DEF Raise, Leave, Terminate
<1>10. CASE Leader
    BY <1>10 DEF Leader, LeaderFinishes, LeaderStuck, LeaderUnstuck
<1> QED
    BY <1>1, <1>2, <1>3, <1>4, <1>5, <1>6, <1>7, <1>8, <1>9, <1>10 DEF SpawnNext, Watcher

(* The breaker's evidence is sound: a round that returned is in the log as   *)
(* ended by the memory floor exactly if the floor signalled it.             *)
THEOREM FloorIsOnRecord == SpawnSpec => []MemTerminatedHonest
<1>1. SpawnInit => HonestInv
    BY DEF SpawnInit, HonestInv, MemTerminatedHonest, Truthful
<1>2. HonestInv => MemTerminatedHonest
    BY DEF HonestInv
<1> QED
    BY <1>1, <1>2, HonestStep, PTL DEF SpawnSpec
=============================================================================
