-------------------------- MODULE RoundRunnerProofs --------------------------
(***************************************************************************)
(* Proofs about RoundRunner, for any number of processes and rounds and     *)
(* every configuration: serve never numbers two rounds alike or truncates a *)
(* log, and no noted stash disappears before an agent was told of it.       *)
(***************************************************************************)
EXTENDS RoundRunner, TLAPS

(* The values the numbering works on.                                       *)
NumberTypes ==
    /\ pc \in [Procs -> Places]
    /\ env_num \in [Procs -> Nat]
    /\ serve_num \in Nat /\ serve_log \in Nat /\ status \in Nat
    /\ round_num \in Nat
    /\ started \in Seq([num : Nat, by : {"serve", "hand"}])

(* A published number has its log, is published once, and is not in use.    *)
Published ==
    /\ \A p \in Procs : env_num[p] <= serve_log
    /\ \A p \in Procs : pc[p] = "none" => env_num[p] = 0
    /\ \A p, q \in Procs : p # q /\ env_num[p] # 0 => env_num[p] # env_num[q]

(* A number serve has used has its log, and is not published again.         *)
Used ==
    \A i \in DOMAIN started : started[i].by = "serve" =>
        /\ started[i].num > 0 /\ started[i].num <= serve_log
        /\ \A p \in Procs : pc[p] \in {"start", "inner"} => env_num[p] # started[i].num

NumberInv == NumberTypes /\ FreshLog /\ Published /\ Used /\ UniqueNumbers

(* What every other step leaves of the numbering.                           *)
numbers == <<serve_num, serve_log, env_num, started>>

QuietRound(p) ==
    \/ AcquireLock(p) \/ Spawn(p)
    \/ AgentWorks(p) \/ AgentSalvages(p) \/ AgentCommits(p) \/ AgentExits(p)
    \/ CheckDirty(p) \/ CheckTimesOut(p) \/ Ignored(p) \/ Commit(p)
    \/ ReuseStash(p) \/ StashPush(p) \/ NoteStash(p)
    \/ WriteStatus(p)

EndingRound(p) == RoundRefused(p) \/ EndRound(p) \/ Abort(p) \/ GitTimeout(p)

LEMMA StartedElement ==
    ASSUME NumberTypes, NEW i \in DOMAIN started
    PROVE  started[i].num \in Nat /\ started[i].by \in {"serve", "hand"}
<1> DEFINE S == [num : Nat, by : {"serve", "hand"}]
<1>1. started \in Seq(S)
    BY DEF NumberTypes
<1>2. started[i] \in S
    <2> HIDE DEF S
    <2> QED
        BY <1>1
<1> QED
    BY <1>2

(* A quiet step moves one round that is past "inner", or into it.           *)
LEMMA QuietStep ==
    ASSUME NumberTypes, NEW p \in Procs, QuietRound(p)
    PROVE  /\ UNCHANGED numbers
           /\ status' \in Nat /\ round_num' \in Nat
           /\ pc' \in [Procs -> Places]
           /\ \A q \in Procs : q # p => pc'[q] = pc[q]
           /\ pc[p] # "none" /\ pc'[p] # "none" /\ pc'[p] # "start"
           /\ pc'[p] = "inner" => pc[p] = "start"
<1> USE DEF NumberTypes, numbers, Places, serve, locals, git, files, history
<1>1. CASE AcquireLock(p) \/ Spawn(p)
    BY <1>1 DEF AcquireLock, Spawn
<1>2. CASE AgentWorks(p) \/ AgentSalvages(p) \/ AgentCommits(p) \/ AgentExits(p)
    BY <1>2 DEF AgentWorks, AgentSalvages, AgentCommits, AgentExits
<1>3. CASE CheckDirty(p)
    <2>1. PICK t \in {"resolve", "status"} : pc' = [pc EXCEPT ![p] = t]
        BY <1>3 DEF CheckDirty
    <2> QED
        BY <1>3, <2>1 DEF CheckDirty
<1>4. CASE CheckTimesOut(p) \/ Commit(p)
    BY <1>4 DEF CheckTimesOut, Commit
<1>5. CASE Ignored(p)
    <2>1. pc[p] \in {"resolve", "listing"}
        BY <1>5 DEF Ignored
    <2> QED
        BY <1>5, <2>1 DEF Ignored
<1>6. CASE ReuseStash(p) \/ NoteStash(p)
    BY <1>6 DEF ReuseStash, NoteStash
<1>7. CASE StashPush(p)
    BY <1>7 DEF StashPush
<1>8. CASE WriteStatus(p)
    BY <1>8 DEF WriteStatus
<1> QED
    BY <1>1, <1>2, <1>3, <1>4, <1>5, <1>6, <1>7, <1>8 DEF QuietRound

(* A round that ends gives up its published number.                         *)
LEMMA EndingStep ==
    ASSUME NumberTypes, NEW p \in Procs, EndingRound(p)
    PROVE  /\ UNCHANGED <<serve_num, serve_log, started, status>>
           /\ round_num' \in Nat
           /\ pc' = [pc EXCEPT ![p] = "none"]
           /\ env_num' = [env_num EXCEPT ![p] = 0]
<1> USE DEF NumberTypes, serve, locals, files, history
<1>1. CASE RoundRefused(p)
    BY <1>1 DEF RoundRefused
<1>2. CASE EndRound(p) \/ Abort(p)
    BY <1>2 DEF EndRound, Abort, Leave
<1>3. CASE GitTimeout(p)
    BY <1>3 DEF GitTimeout, Leave
<1> QED
    BY <1>1, <1>2, <1>3 DEF EndingRound

(* Every step, by what it does to the numbering.                            *)
LEMMA NumberStep == NumberInv /\ [Next]_vars => NumberInv'
<1> SUFFICES ASSUME NumberInv, [Next]_vars PROVE NumberInv'
    OBVIOUS
<1> USE DEF NumberInv
<1>1. CASE UNCHANGED vars
    BY <1>1 DEF vars, serve, locals, files, history, NumberTypes, FreshLog,
        Published, Used, UniqueNumbers
<1>2. CASE ServeNumbers
    <2>1. /\ serve_num' = NextRoundNum
          /\ UNCHANGED <<pc, env_num, serve_log, status, round_num, started>>
        BY <1>2 DEF ServeNumbers, locals, files, history
    <2>2. serve_num' \in Nat /\ serve_num' > serve_log
        BY <2>1 DEF NumberTypes, NextRoundNum, Larger
    <2> QED
        BY <2>1, <2>2 DEF NumberTypes, FreshLog, Published, Used, UniqueNumbers
<1>3. CASE ServePauses \/ ServeReaps \/ ServeDies
    <2>1. /\ serve_num' \in {0, serve_num}
          /\ UNCHANGED <<pc, env_num, serve_log, status, round_num, started>>
        BY <1>3 DEF ServePauses, ServeReaps, ServeDies, locals, files, history
    <2> QED
        BY <2>1 DEF NumberTypes, FreshLog, Published, Used, UniqueNumbers
<1>4. CASE ServeSpawns
    <2>1. PICK p \in Procs :
            /\ pc[p] = "none"
            /\ pc' = [pc EXCEPT ![p] = "start"]
            /\ env_num' = [env_num EXCEPT ![p] = serve_num]
        BY <1>4 DEF ServeSpawns
    <2>2. /\ serve_num > serve_log /\ serve_log' = serve_num /\ serve_num' = 0
          /\ UNCHANGED <<status, round_num, started>>
        BY <1>4 DEF ServeSpawns, FreshLog, Larger, NumberTypes, locals, history
    <2>3. NumberTypes'
        BY <2>1, <2>2 DEF NumberTypes, Places
    <2>4. Published'
        BY <2>1, <2>2 DEF NumberTypes, Published
    <2>5. Used'
        <3> SUFFICES ASSUME NEW i \in DOMAIN started, started[i].by = "serve"
                     PROVE  /\ started[i].num > 0 /\ started[i].num <= serve_num
                            /\ \A q \in Procs : pc'[q] \in {"start", "inner"}
                                    => env_num'[q] # started[i].num
            BY <2>2 DEF Used
        <3>1. started[i].num \in Nat
            BY StartedElement
        <3>2. started[i].num > 0 /\ started[i].num <= serve_log
            BY DEF Used
        <3>3. started[i].num < serve_num
            BY <2>2, <3>1, <3>2 DEF NumberTypes
        <3>4. ASSUME NEW q \in Procs, q # p, pc'[q] \in {"start", "inner"}
              PROVE  env_num'[q] # started[i].num
            BY <2>1, <3>4 DEF Used, NumberTypes
        <3>5. env_num'[p] = serve_num
            BY <2>1 DEF NumberTypes
        <3> QED
            BY <3>1, <3>2, <3>3, <3>4, <3>5 DEF NumberTypes
    <2> QED
        BY <2>2, <2>3, <2>4, <2>5 DEF FreshLog, UniqueNumbers
<1>5. CASE HandStarts
    <2>1. PICK p \in Procs : pc[p] = "none" /\ pc' = [pc EXCEPT ![p] = "start"]
        BY <1>5 DEF HandStarts
    <2>2. UNCHANGED <<serve_num, serve_log, status, round_num, started, env_num>>
        BY <1>5 DEF HandStarts, serve, locals, files, history
    <2>3. NumberTypes' /\ Published' /\ FreshLog' /\ UniqueNumbers'
        BY <2>1, <2>2 DEF NumberTypes, Places, Published, FreshLog, UniqueNumbers
    <2>4. env_num[p] = 0
        BY <2>1 DEF Published
    <2>5. Used'
        BY <2>1, <2>2, <2>4 DEF Used, NumberTypes
    <2> QED
        BY <2>3, <2>5
<1>6. ASSUME NEW p \in Procs, Begin(p) PROVE NumberInv'
    <2> DEFINE rec == [num |-> ResolveRoundNum(p),
                       by |-> IF env_num[p] # 0 THEN "serve" ELSE "hand"]
    <2>1. /\ pc[p] = "inner"
          /\ started' = Append(started, rec)
          /\ round_num' = ResolveRoundNum(p)
          /\ pc' = [pc EXCEPT ![p] = "begun"]
          /\ UNCHANGED <<serve_num, serve_log, status, env_num>>
        BY <1>6 DEF Begin, serve, files
    <2>2. rec \in [num : Nat, by : {"serve", "hand"}]
        BY DEF ResolveRoundNum, NextRoundNum, Larger, NumberTypes
    <2>3. rec.by = "serve" => rec.num = env_num[p] /\ rec.num > 0
        BY DEF ResolveRoundNum, NumberTypes
    <2>4. /\ DOMAIN started' = DOMAIN started \cup {Len(started) + 1}
          /\ started'[Len(started) + 1] = rec
          /\ \A i \in DOMAIN started : i # Len(started) + 1 /\ started'[i] = started[i]
        <3> HIDE DEF rec
        <3> QED
            BY <2>1, <2>2 DEF NumberTypes
    <2> HIDE DEF rec
    <2>5. NumberTypes'
        <3>1. started' \in Seq([num : Nat, by : {"serve", "hand"}])
            BY <2>1, <2>2 DEF NumberTypes
        <3>2. round_num' \in Nat
            BY <2>1 DEF ResolveRoundNum, NextRoundNum, Larger, NumberTypes
        <3> QED
            BY <2>1, <3>1, <3>2 DEF NumberTypes, Places
    <2>6. FreshLog' /\ Published'
        BY <2>1 DEF FreshLog, Published, NumberTypes
    <2>7. Used'
        <3> SUFFICES ASSUME NEW i \in DOMAIN started', started'[i].by = "serve"
                     PROVE  /\ started'[i].num > 0 /\ started'[i].num <= serve_log
                            /\ \A q \in Procs : pc'[q] \in {"start", "inner"}
                                    => env_num[q] # started'[i].num
            BY <2>1 DEF Used
        <3>1. CASE i \in DOMAIN started
            BY <3>1, <2>1, <2>4 DEF Used, NumberTypes
        <3>2. CASE i = Len(started) + 1
            <4>1. started'[i].num = env_num[p] /\ env_num[p] > 0
                BY <3>2, <2>3, <2>4
            <4> QED
                BY <4>1, <2>1 DEF Published, NumberTypes
        <3> QED
            BY <3>1, <3>2, <2>4
    <2>8. UniqueNumbers'
        <3>1. \A i \in DOMAIN started :
                started[i].by = "serve" /\ rec.by = "serve" => started[i].num # rec.num
            BY <2>1, <2>3 DEF Used
        <3>2. \A i \in DOMAIN started : started[i].by \in {"serve", "hand"}
            BY StartedElement
        <3>3. rec.by \in {"serve", "hand"}
            BY <2>2
        <3> SUFFICES ASSUME NEW i \in DOMAIN started', NEW j \in DOMAIN started',
                            i # j, started'[i].num = started'[j].num
                     PROVE  started'[i].by = "hand" \/ started'[j].by = "hand"
            BY DEF UniqueNumbers
        <3>4. CASE i \in DOMAIN started /\ j \in DOMAIN started
            BY <3>4, <2>4 DEF UniqueNumbers
        <3>5. CASE i \in DOMAIN started /\ j = Len(started) + 1
            BY <3>5, <2>4, <3>1, <3>2, <3>3
        <3>6. CASE j \in DOMAIN started /\ i = Len(started) + 1
            BY <3>6, <2>4, <3>1, <3>2, <3>3
        <3> QED
            BY <3>4, <3>5, <3>6, <2>4
    <2> QED
        BY <2>5, <2>6, <2>7, <2>8
<1>7. ASSUME NEW p \in Procs, QuietRound(p) PROVE NumberInv'
    <2>1. /\ UNCHANGED <<serve_num, serve_log, env_num, started>>
          /\ status' \in Nat /\ round_num' \in Nat
          /\ pc' \in [Procs -> Places]
          /\ \A q \in Procs : q # p => pc'[q] = pc[q]
          /\ pc[p] # "none" /\ pc'[p] # "none" /\ pc'[p] # "start"
          /\ pc'[p] = "inner" => pc[p] = "start"
        BY <1>7, QuietStep DEF numbers
    <2>2. NumberTypes' /\ FreshLog' /\ UniqueNumbers'
        BY <2>1 DEF NumberTypes, FreshLog, UniqueNumbers
    <2>3. Published'
        BY <2>1 DEF Published
    <2>4. Used'
        BY <2>1 DEF Used
    <2> QED
        BY <2>2, <2>3, <2>4
<1>8. ASSUME NEW p \in Procs, EndingRound(p) PROVE NumberInv'
    <2>1. /\ UNCHANGED <<serve_num, serve_log, started, status>>
          /\ round_num' \in Nat
          /\ pc' = [pc EXCEPT ![p] = "none"]
          /\ env_num' = [env_num EXCEPT ![p] = 0]
        BY <1>8, EndingStep
    <2>2. NumberTypes' /\ FreshLog' /\ UniqueNumbers'
        BY <2>1 DEF NumberTypes, Places, FreshLog, UniqueNumbers
    <2>3. Published'
        BY <2>1 DEF Published, NumberTypes
    <2>4. Used'
        BY <2>1 DEF Used, NumberTypes
    <2> QED
        BY <2>2, <2>3, <2>4
<1>9. CASE WindowPasses \/ StatusRots
    <2>1. /\ status' \in Nat
          /\ UNCHANGED <<pc, env_num, serve_num, serve_log, round_num, started>>
        BY <1>9 DEF WindowPasses, StatusRots, NumberTypes, serve, locals, files, history
    <2> QED
        BY <2>1 DEF NumberTypes, FreshLog, Published, Used, UniqueNumbers
<1> QED
    BY <1>1, <1>2, <1>3, <1>4, <1>5, <1>6, <1>7, <1>8, <1>9
    DEF Next, ServeStep, RoundStep, QuietRound, EndingRound

LEMMA NumberInit == Init => NumberInv
BY RoundRunnerAssumption DEF Init, NumberInv, NumberTypes, Places, FreshLog, Published, Used,
    UniqueNumbers

(* Serve never gives two rounds the same number, whatever dies in between   *)
(* and whatever becomes of status.json.                                     *)
THEOREM ServeNumbersAreUnique == Spec => []UniqueNumbers
<1>1. NumberInv => UniqueNumbers
    BY DEF NumberInv
<1> QED
    BY NumberInit, NumberStep, <1>1, PTL DEF Spec

(* Serve opens no log that exists.                                          *)
THEOREM ServeOverwritesNoLog == Spec => []FreshLog
<1>1. NumberInv => FreshLog
    BY DEF NumberInv
<1> QED
    BY NumberInit, NumberStep, <1>1, PTL DEF Spec

-----------------------------------------------------------------------------
(* Stashes and their notes.                                                 *)

Holding == Places \ {"none", "start"}

OneHolder ==
    /\ pc \in [Procs -> Places]
    /\ \A p \in Procs : pc[p] \in Holding => lock = p

IsSequence(s) == s \in Seq({s[i] : i \in DOMAIN s})

LEMMA AppendSequence ==
    ASSUME NEW s, IsSequence(s), NEW e
    PROVE  /\ IsSequence(Append(s, e))
           /\ Len(s) \in Nat /\ Len(Append(s, e)) = Len(s) + 1
<1> DEFINE R == {s[i] : i \in DOMAIN s}
           t == Append(s, e)
<1>1. s \in Seq(R)
    BY DEF IsSequence
<1>2. R \subseteq R \cup {e} /\ e \in R \cup {e}
    OBVIOUS
<1>3. s \in Seq(R \cup {e})
    <2> HIDE DEF R
    <2> QED
        BY <1>1, <1>2
<1>4. /\ t \in Seq(R \cup {e}) /\ Len(s) \in Nat /\ Len(t) = Len(s) + 1
      /\ DOMAIN t = 1..Len(t)
    <2> HIDE DEF R
    <2> QED
        BY <1>3
<1>5. t \in [1..Len(t) -> {t[i] : i \in DOMAIN t}]
    <2>1. t \in [1..Len(t) -> R \cup {e}]
        <3> HIDE DEF R, t
        <3> QED
            BY <1>4
    <2> HIDE DEF R, t
    <2> QED
        BY <2>1
<1>6. t \in Seq({t[i] : i \in DOMAIN t})
    <2> DEFINE T == {t[i] : i \in DOMAIN t}
    <2>1. t \in [1..Len(t) -> T] /\ Len(t) \in Nat
        BY <1>4, <1>5
    <2> HIDE DEF T, t
    <2> QED
        BY <2>1
<1> QED
    BY <1>4, <1>6 DEF IsSequence

(* A stash that can be noted exists.                                        *)
StashExists ==
    /\ IsSequence(stash) /\ Len(stash) \in Nat
    /\ recent \in Nat /\ recent <= Len(stash)
    /\ \A p \in Procs : pc[p] = "listing" => Len(stash) > 0

(* The note a round may overwrite or clear is one its agent was told of.    *)
Told ==
    /\ 0 \notin recorded
    /\ \A p \in Procs :
        /\ pc[p] = "begun" => orphan_block = orphan.ref
        /\ pc[p] \in {"agent", "exited", "resolve", "listing"}
                => orphan.ref \in announced \cup {0}

NoteInv == OneHolder /\ StashExists /\ Told /\ StashAnnounced

LEMMA NoteInit == Init => NoteInv
<1>1. IsSequence(<<>>)
    BY DEF IsSequence
<1> QED
    BY <1>1 DEF Init, NoteInv, OneHolder, StashExists, Told, StashAnnounced, Places,
        Holding, NoOrphanState

(* Steps before the lock, and steps of serve and the world.                 *)
LEMMA OutsideStep ==
    ASSUME NoteInv,
           \/ ServeStep \/ HandStarts \/ WindowPasses \/ StatusRots
           \/ \E p \in Procs : RoundRefused(p) \/ AcquireLock(p)
    PROVE  NoteInv'
<1> USE DEF NoteInv, OneHolder, StashExists, Told, StashAnnounced, Places, Holding,
        serve, locals, git, files, history
<1>1. CASE ServeNumbers \/ ServePauses \/ ServeReaps \/ ServeDies
    BY <1>1 DEF ServeNumbers, ServePauses, ServeReaps, ServeDies
<1>2. CASE ServeSpawns
    BY <1>2 DEF ServeSpawns
<1>3. CASE HandStarts
    BY <1>3 DEF HandStarts
<1>4. CASE WindowPasses
    BY <1>4 DEF WindowPasses
<1>5. CASE StatusRots
    BY <1>5 DEF StatusRots
<1>6. ASSUME NEW p \in Procs, RoundRefused(p) PROVE NoteInv'
    BY <1>6 DEF RoundRefused
<1>7. ASSUME NEW p \in Procs, AcquireLock(p) PROVE NoteInv'
    BY <1>7, RoundRunnerAssumption DEF AcquireLock
<1> QED
    BY <1>1, <1>2, <1>3, <1>4, <1>5, <1>6, <1>7 DEF ServeStep

(* Steps of the lock's holder.                                              *)
LEMMA HolderStep ==
    ASSUME NoteInv, NEW p \in Procs,
           \/ Begin(p) \/ Spawn(p)
           \/ AgentWorks(p) \/ AgentSalvages(p) \/ AgentCommits(p) \/ AgentExits(p)
           \/ CheckDirty(p) \/ CheckTimesOut(p) \/ Ignored(p) \/ Commit(p)
           \/ ReuseStash(p) \/ StashPush(p) \/ NoteStash(p)
           \/ WriteStatus(p) \/ EndRound(p) \/ Abort(p) \/ GitTimeout(p)
    PROVE  NoteInv'
<1> USE DEF NoteInv, OneHolder, StashExists, Told, StashAnnounced, Places, Holding,
        serve, locals, git, files, history
<1>1. CASE Begin(p)
    <2>1. /\ pc[p] = "inner" /\ pc' = [pc EXCEPT ![p] = "begun"]
          /\ orphan_block' = orphan.ref
          /\ UNCHANGED <<lock, orphan, stash, recent, announced, recorded>>
        BY <1>1 DEF Begin
    <2>2. \A q \in Procs : q # p => pc[q] \notin Holding
        BY <2>1
    <2>3. OneHolder' /\ StashExists' /\ StashAnnounced'
        BY <2>1
    <2>4. Told'
        BY <2>1, <2>2
    <2> QED
        BY <2>3, <2>4
<1>2. CASE Spawn(p)
    BY <1>2 DEF Spawn
<1>3. CASE AgentWorks(p) \/ AgentSalvages(p) \/ AgentCommits(p) \/ AgentExits(p)
    BY <1>3 DEF AgentWorks, AgentSalvages, AgentCommits, AgentExits
<1>4. CASE CheckDirty(p)
    <2>1. PICK t \in {"resolve", "status"} : pc' = [pc EXCEPT ![p] = t]
        BY <1>4 DEF CheckDirty
    <2>2. orphan' = orphan \/ orphan'.ref = 0
        BY <1>4 DEF CheckDirty, NoOrphanState
    <2>3. /\ pc[p] = "exited"
          /\ UNCHANGED <<lock, orphan_block, stash, recent, announced, recorded>>
        BY <1>4 DEF CheckDirty
    <2> QED
        BY <2>1, <2>2, <2>3
<1>5. CASE CheckTimesOut(p) \/ Commit(p)
    BY <1>5 DEF CheckTimesOut, Commit
<1>6. CASE Ignored(p)
    <2>1. /\ pc[p] \in {"resolve", "listing"}
          /\ pc' = [pc EXCEPT ![p] = "status"]
          /\ UNCHANGED <<lock, orphan, orphan_block, stash, recent, announced, recorded>>
        BY <1>6 DEF Ignored
    <2> QED
        BY <2>1
<1>7. CASE ReuseStash(p) \/ NoteStash(p)
    <2>1. /\ pc[p] \in {"resolve", "listing"}
          /\ pc' = [pc EXCEPT ![p] = "status"]
          /\ orphan'.ref = Len(stash) /\ recorded' = recorded \cup {Len(stash)}
          /\ UNCHANGED <<lock, orphan_block, stash, recent, announced>>
        BY <1>7 DEF ReuseStash, NoteStash, WriteOrphanState
    <2>2. Len(stash) > 0
        BY <1>7 DEF ReuseStash, NoteStash, RecentOrphanForRound
    <2> QED
        BY <2>1, <2>2
<1>8. CASE StashPush(p)
    <2> DEFINE e == [round |-> round_num, files |-> tree]
    <2>1. /\ pc[p] = "resolve" /\ pc' = [pc EXCEPT ![p] = "listing"]
          /\ stash' = Append(stash, e) /\ recent' = Len(stash) + 1
          /\ UNCHANGED <<lock, orphan, orphan_block, announced, recorded>>
        BY <1>8 DEF StashPush
    <2> HIDE DEF e
    <2>2. /\ IsSequence(stash') /\ Len(stash) \in Nat
          /\ Len(stash') = Len(stash) + 1
        BY <2>1, AppendSequence
    <2> QED
        BY <2>1, <2>2
<1>9. CASE WriteStatus(p)
    BY <1>9 DEF WriteStatus
<1>10. CASE EndRound(p) \/ Abort(p)
    BY <1>10 DEF EndRound, Abort, Leave
<1>11. CASE GitTimeout(p)
    <2>1. pc[p] \in Holding
        BY <1>11 DEF GitTimeout
    <2>2. /\ pc' = [pc EXCEPT ![p] = "none"]
          /\ UNCHANGED <<orphan, stash, recent, announced, recorded>>
        BY <1>11 DEF GitTimeout, Leave
    <2>3. \A q \in Procs : q # p => pc[q] \notin Holding
        BY <2>1
    <2> QED
        BY <2>2, <2>3
<1> QED
    BY <1>1, <1>2, <1>3, <1>4, <1>5, <1>6, <1>7, <1>8, <1>9, <1>10, <1>11

LEMMA NoteStep == NoteInv /\ [Next]_vars => NoteInv'
<1> SUFFICES ASSUME NoteInv, [Next]_vars PROVE NoteInv'
    OBVIOUS
<1>1. CASE UNCHANGED vars
    BY <1>1 DEF vars, serve, locals, git, files, history, NoteInv, OneHolder, StashExists,
        Told, StashAnnounced
<1>2. CASE Next
    BY <1>2, OutsideStep, HolderStep DEF Next, RoundStep
<1> QED
    BY <1>1, <1>2

(* A noted stash stays noted until an agent has been told of it.            *)
THEOREM NotedStashesAreAnnounced == Spec => []StashAnnounced
<1>1. NoteInv => StashAnnounced
    BY DEF NoteInv
<1> QED
    BY NoteInit, NoteStep, <1>1, PTL DEF Spec
-----------------------------------------------------------------------------
(* What the note says of its stash.                                         *)

LEMMA AppendElements ==
    ASSUME NEW s, IsSequence(s), NEW e
    PROVE  /\ Append(s, e)[Len(s) + 1] = e
           /\ \A k \in 1..Len(s) : Append(s, e)[k] = s[k]
<1> DEFINE R == {s[i] : i \in DOMAIN s} \cup {e}
<1>1. s \in Seq({s[i] : i \in DOMAIN s}) /\ e \in R
    BY DEF IsSequence
<1>2. s \in Seq(R)
    <2>1. {s[i] : i \in DOMAIN s} \subseteq R
        OBVIOUS
    <2> HIDE DEF R
    <2> QED
        BY <1>1, <2>1
<1> HIDE DEF R
<1> QED
    BY <1>1, <1>2

(* Every stash was made by one of the first n rounds.                       *)
MadeBy(n) ==
    \A k \in 1..Len(stash) : \E i \in 1..n : stash[k].round = started[i].num

(* The lock's holder is the newest round; until it pushes, every stash is   *)
(* an older round's, and the tree is what it listed.                        *)
Newest ==
    /\ orphan.ref \in 0..Len(stash)
    /\ MadeBy(Len(started))
    /\ \A p \in Procs :
        /\ pc[p] \in {"begun", "agent", "exited", "resolve", "listing"} =>
              Len(started) > 0 /\ round_num = started[Len(started)].num
        /\ pc[p] \in {"begun", "agent", "exited", "resolve"} => MadeBy(Len(started) - 1)
        /\ pc[p] = "resolve" => dirty \ {LogPath} \subseteq tree
        /\ pc[p] = "listing" => dirty \ {LogPath} \subseteq stash[Len(stash)].files

TruthInv == Newest /\ NoteIsTrue

(* Steps that touch neither the stashes, the note nor the rounds' numbers.  *)
LEMMA TruthFrame ==
    ASSUME TruthInv, UNCHANGED <<stash, started, orphan>>,
           \A p \in Procs : pc'[p] \in {"begun", "agent", "exited", "resolve", "listing"} =>
               /\ pc[p] \in {"begun", "agent", "exited", "resolve", "listing"}
               /\ pc'[p] # "listing" => pc[p] # "listing"
               /\ round_num' = round_num
               /\ pc'[p] = "resolve" => dirty' \ {LogPath} \subseteq tree'
               /\ pc'[p] = "listing" => pc[p] = "listing" /\ dirty' = dirty
    PROVE  TruthInv'
<1>1. NoteIsTrue'
    BY DEF TruthInv, NoteIsTrue, NumbersTellApart
<1>2. Newest'
    BY DEF TruthInv, Newest, MadeBy
<1> QED
    BY <1>1, <1>2 DEF TruthInv

(* One round at a time is past the lock, so its step moves nobody else.     *)
LEMMA Alone ==
    ASSUME OneHolder, NEW p \in Procs, pc[p] \in Holding, NEW to,
           pc' = [pc EXCEPT ![p] = to]
    PROVE  /\ pc'[p] = to
           /\ \A q \in Procs : q # p => pc'[q] = pc[q] /\ pc[q] \in {"none", "start"}
BY DEF OneHolder, Holding

LEMMA TruthStep == NumberInv /\ NoteInv /\ TruthInv /\ [Next]_vars => TruthInv'
<1> SUFFICES ASSUME NumberInv, NoteInv, TruthInv, [Next]_vars PROVE TruthInv'
    OBVIOUS
<1>a. OneHolder /\ StashExists /\ NumberTypes
    BY DEF NoteInv, NumberInv
<1>b. IsSequence(stash) /\ Len(stash) \in Nat /\ Len(started) \in Nat
    BY <1>a DEF StashExists, NumberTypes
<1> DEFINE Held == {"begun", "agent", "exited", "resolve", "listing"}
<1>1. CASE UNCHANGED vars
    BY <1>1, TruthFrame DEF vars, locals, files, git, history, TruthInv, Newest
<1>2. CASE ServeStep \/ HandStarts \/ WindowPasses \/ StatusRots
    <2>1. /\ UNCHANGED <<stash, started, orphan, round_num, dirty, tree>>
          /\ \A p \in Procs : pc'[p] = pc[p] \/ pc'[p] = "start"
        <3>1. CASE ServeSpawns \/ HandStarts
            BY <3>1, <1>a DEF ServeSpawns, HandStarts, locals, files, git, history, OneHolder
        <3>2. CASE ServeNumbers \/ ServePauses \/ ServeReaps \/ ServeDies
            BY <3>2 DEF ServeNumbers, ServePauses, ServeReaps, ServeDies, locals, files, git, history
        <3>3. CASE WindowPasses \/ StatusRots
            BY <3>3 DEF WindowPasses, StatusRots, locals, files, git, history
        <3> QED
            BY <1>2, <3>1, <3>2, <3>3 DEF ServeStep
    <2> QED
        BY <2>1, TruthFrame DEF TruthInv, Newest
<1>3. ASSUME NEW p \in Procs, RoundRefused(p) \/ AcquireLock(p) PROVE TruthInv'
    <2>1. /\ UNCHANGED <<stash, started, orphan, round_num, dirty, tree>>
          /\ \A q \in Procs : pc'[q] = pc[q] \/ pc'[q] \in {"none", "inner"}
        BY <1>3, <1>a DEF RoundRefused, AcquireLock, locals, files, git, history, OneHolder
    <2> QED
        BY <2>1, TruthFrame DEF TruthInv, Newest
<1>4. ASSUME NEW p \in Procs, Begin(p) PROVE TruthInv'
    <2> DEFINE e == [num |-> ResolveRoundNum(p), by |-> IF env_num[p] # 0 THEN "serve" ELSE "hand"]
    <2>1. /\ pc[p] = "inner" /\ pc' = [pc EXCEPT ![p] = "begun"]
          /\ started' = Append(started, e) /\ round_num' = e.num
          /\ UNCHANGED <<stash, orphan>>
        BY <1>4 DEF Begin, files, git
    <2>2. e \in [num : Nat, by : {"serve", "hand"}]
        BY <1>a DEF ResolveRoundNum, NextRoundNum, Larger, NumberTypes
    <2> HIDE DEF e
    <2>3. /\ Len(started') = Len(started) + 1 /\ started'[Len(started) + 1] = e
          /\ \A i \in 1..Len(started) : started'[i] = started[i]
          /\ DOMAIN started = 1..Len(started) /\ DOMAIN started' = 1..(Len(started) + 1)
        BY <1>a, <2>1, <2>2 DEF NumberTypes
    <2>4. pc'[p] = "begun" /\ \A q \in Procs : q # p => pc'[q] \in {"none", "start"}
        BY <1>a, <2>1, Alone DEF Holding, Places
    <2>5. MadeBy(Len(started)) /\ orphan.ref \in 0..Len(stash)
        BY DEF TruthInv, Newest
    <2>6. MadeBy(Len(started) - 1)' /\ MadeBy(Len(started))'
        <3> SUFFICES ASSUME NEW k \in 1..Len(stash)
                     PROVE  \E i \in 1..Len(started) : stash[k].round = started'[i].num
            BY <1>b, <2>1, <2>3 DEF MadeBy
        <3> QED
            BY <2>3, <2>5 DEF MadeBy
    <2>7. Newest'
        BY <1>b, <2>1, <2>3, <2>4, <2>5, <2>6 DEF Newest
    <2>8. NumbersTellApart' => NumbersTellApart
        BY <2>3 DEF NumbersTellApart
    <2>9. NoteIsTrue'
        BY <2>1, <2>8 DEF TruthInv, NoteIsTrue
    <2> QED
        BY <2>7, <2>9 DEF TruthInv
<1>5. ASSUME NEW p \in Procs, Spawn(p) \/ AgentWorks(p) \/ AgentSalvages(p) \/ AgentCommits(p)
                               \/ AgentExits(p) \/ CheckTimesOut(p) \/ WriteStatus(p)
      PROVE  TruthInv'
    <2>1. PICK to : /\ pc' = [pc EXCEPT ![p] = to]
                    /\ \/ to \in {"agent", "exited"} /\ pc[p] \in {"begun", "agent"}
                       \/ to \in {"status", "end"} /\ pc[p] \in Holding
                    /\ UNCHANGED <<stash, started, orphan, round_num, dirty>>
        <3>1. CASE Spawn(p) \/ AgentExits(p) \/ CheckTimesOut(p) \/ WriteStatus(p)
            BY <3>1 DEF Spawn, AgentExits, CheckTimesOut, WriteStatus, locals, files, git, history,
                Holding, Places
        <3>2. CASE AgentWorks(p) \/ AgentSalvages(p) \/ AgentCommits(p)
            <4>1. pc = [pc EXCEPT ![p] = "agent"]
                BY <3>2, <1>a DEF AgentWorks, AgentSalvages, AgentCommits, OneHolder
            <4> QED
                BY <3>2, <4>1 DEF AgentWorks, AgentSalvages, AgentCommits, locals, files, history
        <3> QED
            BY <1>5, <3>1, <3>2
    <2>2. pc[p] \in Holding
        BY <2>1 DEF Holding, Places
    <2>3. pc'[p] = to /\ \A q \in Procs : q # p => pc'[q] \in {"none", "start"}
        BY <1>a, <2>1, <2>2, Alone
    <2> QED
        BY <2>1, <2>3, TruthFrame
<1>6. ASSUME NEW p \in Procs, CheckDirty(p) PROVE TruthInv'
    <2>1. PICK readable \in BOOLEAN :
            /\ dirty' = DirtyFiles(readable)
            /\ pc' = [pc EXCEPT ![p] = IF dirty' # {} /\ result = "ok" THEN "resolve" ELSE "status"]
            /\ orphan' = IF dirty' # {} THEN orphan ELSE NoOrphanState
        BY <1>6 DEF CheckDirty
    <2>2. pc[p] = "exited" /\ UNCHANGED <<stash, started, round_num, tree>>
        BY <1>6 DEF CheckDirty, git, history
    <2>3. /\ pc'[p] \in {"resolve", "status"}
          /\ \A q \in Procs : q # p => pc'[q] \in {"none", "start"}
        BY <1>a, <2>1, <2>2, Alone DEF Holding, Places
    <2>4. orphan' = orphan \/ orphan'.ref = 0
        BY <2>1 DEF NoOrphanState
    <2>5. dirty' \ {LogPath} \subseteq tree
        BY <2>1 DEF DirtyFiles, LogPaths
    <2>6. Newest'
        <3>1. /\ orphan.ref \in 0..Len(stash) /\ MadeBy(Len(started)) /\ MadeBy(Len(started) - 1)
              /\ Len(started) > 0 /\ round_num = started[Len(started)].num
            BY <2>2 DEF TruthInv, Newest
        <3>2. MadeBy(Len(started))' /\ MadeBy(Len(started) - 1)'
            BY <2>2, <3>1 DEF MadeBy
        <3>3. orphan'.ref \in 0..Len(stash)
            BY <1>b, <2>4, <3>1
        <3> QED
            BY <2>2, <2>3, <2>5, <3>1, <3>2, <3>3 DEF Newest
    <2>7. NoteIsTrue'
        BY <2>2, <2>4 DEF TruthInv, NoteIsTrue, NumbersTellApart
    <2> QED
        BY <2>6, <2>7 DEF TruthInv
<1>7. ASSUME NEW p \in Procs, Ignored(p) \/ Commit(p) PROVE TruthInv'
    <2>1. /\ pc[p] \in {"resolve", "listing"} /\ pc' = [pc EXCEPT ![p] = "status"]
          /\ UNCHANGED <<stash, started, orphan, round_num, dirty>>
        BY <1>7 DEF Ignored, Commit, locals, files, git, history
    <2>2. pc'[p] = "status" /\ \A q \in Procs : q # p => pc'[q] \in {"none", "start"}
        BY <1>a, <2>1, Alone DEF Holding, Places
    <2> QED
        BY <2>1, <2>2, TruthFrame
<1>8. ASSUME NEW p \in Procs, ReuseStash(p) PROVE TruthInv'
    <2>1. /\ pc[p] = "resolve" /\ pc' = [pc EXCEPT ![p] = "status"]
          /\ RecentOrphanForRound /\ orphan' = [ref |-> Len(stash), files |-> dirty]
          /\ UNCHANGED <<stash, started, round_num, dirty>>
        BY <1>8 DEF ReuseStash, WriteOrphanState, locals, git
    <2>2. pc'[p] = "status" /\ \A q \in Procs : q # p => pc'[q] \in {"none", "start"}
        BY <1>a, <2>1, Alone DEF Holding, Places
    <2>3. recent \in 1..Len(stash) /\ StartsWith(stash[recent].round, round_num)
        BY <1>a, <2>1 DEF RecentOrphanForRound, StashExists
    <2>4. PICK i \in 1..(Len(started) - 1) : stash[recent].round = started[i].num
        BY <2>1, <2>3 DEF TruthInv, Newest, MadeBy
    <2>5. round_num = started[Len(started)].num /\ DOMAIN started = 1..Len(started)
        BY <1>a, <2>1 DEF TruthInv, Newest, NumberTypes
    <2>6. i \in DOMAIN started /\ Len(started) \in DOMAIN started /\ i # Len(started)
        <3>1. ASSUME NEW n \in Nat, i \in 1..(n - 1) PROVE i \in 1..n /\ n \in 1..n /\ i # n
            BY <3>1
        <3> QED
            BY <1>b, <2>5, <3>1
    <2>7. StartsWith(started[i].num, started[Len(started)].num)
        BY <2>3, <2>4, <2>5
    <2>8. ~NumbersTellApart
        BY <2>6, <2>7 DEF NumbersTellApart
    <2>9. NoteIsTrue'
        BY <2>1, <2>8 DEF NoteIsTrue, NumbersTellApart
    <2>10. Newest'
        <3>1. MadeBy(Len(started))'
            BY <2>1 DEF TruthInv, Newest, MadeBy
        <3>2. orphan'.ref \in 0..Len(stash)
            BY <1>b, <2>1
        <3> QED
            BY <2>1, <2>2, <3>1, <3>2 DEF Newest
    <2> QED
        BY <2>9, <2>10 DEF TruthInv
<1>9. ASSUME NEW p \in Procs, StashPush(p) PROVE TruthInv'
    <2> DEFINE e == [round |-> round_num, files |-> tree]
    <2>1. /\ pc[p] = "resolve" /\ pc' = [pc EXCEPT ![p] = "listing"]
          /\ stash' = Append(stash, e)
          /\ UNCHANGED <<started, orphan, round_num, dirty>>
        BY <1>9 DEF StashPush, locals, files, history
    <2>2. e.round = round_num /\ e.files = tree
        OBVIOUS
    <2> HIDE DEF e
    <2>3. pc'[p] = "listing" /\ \A q \in Procs : q # p => pc'[q] \in {"none", "start"}
        BY <1>a, <2>1, Alone DEF Holding, Places
    <2>4. Len(stash') = Len(stash) + 1 /\ stash'[Len(stash) + 1] = e
          /\ \A k \in 1..Len(stash) : stash'[k] = stash[k]
        BY <1>b, <2>1, AppendSequence, AppendElements
    <2>5. Len(started) > 0 /\ round_num = started[Len(started)].num /\ dirty \ {LogPath} \subseteq tree
        BY <2>1 DEF TruthInv, Newest
    <2>6. MadeBy(Len(started))'
        <3> SUFFICES ASSUME NEW k \in 1..(Len(stash) + 1)
                     PROVE  \E i \in 1..Len(started) : stash'[k].round = started[i].num
            BY <2>1, <2>4 DEF MadeBy
        <3>1. CASE k = Len(stash) + 1
            BY <1>b, <2>2, <2>4, <2>5, <3>1
        <3>2. CASE k \in 1..Len(stash)
            BY <2>4, <3>2 DEF TruthInv, Newest, MadeBy
        <3> QED
            BY <1>b, <3>1, <3>2
    <2>7. Newest'
        <3>1. dirty' \ {LogPath} \subseteq stash'[Len(stash')].files
            BY <1>b, <2>1, <2>2, <2>4, <2>5
        <3>2. orphan'.ref \in 0..Len(stash')
            BY <1>b, <2>1, <2>4 DEF TruthInv, Newest
        <3> QED
            BY <2>1, <2>3, <2>5, <2>6, <3>1, <3>2 DEF Newest
    <2>8. orphan.ref \in 0..Len(stash)
        BY DEF TruthInv, Newest
    <2>9. NoteIsTrue'
        BY <1>b, <2>1, <2>4, <2>8 DEF TruthInv, NoteIsTrue, NumbersTellApart
    <2> QED
        BY <2>7, <2>9 DEF TruthInv
<1>10. ASSUME NEW p \in Procs, NoteStash(p) PROVE TruthInv'
    <2>1. /\ pc[p] = "listing" /\ pc' = [pc EXCEPT ![p] = "status"]
          /\ orphan' = [ref |-> Len(stash), files |-> dirty]
          /\ UNCHANGED <<stash, started, round_num, dirty>>
        BY <1>10 DEF NoteStash, WriteOrphanState, locals, git
    <2>2. pc'[p] = "status" /\ \A q \in Procs : q # p => pc'[q] \in {"none", "start"}
        BY <1>a, <2>1, Alone DEF Holding, Places
    <2>3. Newest'
        BY <1>b, <2>1, <2>2 DEF TruthInv, Newest, MadeBy
    <2>4. NoteIsTrue'
        BY <2>1 DEF TruthInv, Newest, NoteIsTrue
    <2> QED
        BY <2>3, <2>4 DEF TruthInv
<1>11. ASSUME NEW p \in Procs, EndRound(p) \/ Abort(p) \/ GitTimeout(p) PROVE TruthInv'
    <2>1. pc' = [pc EXCEPT ![p] = "none"] /\ UNCHANGED <<stash, started, orphan>>
        BY <1>11 DEF EndRound, Abort, GitTimeout, Leave, files, git, history
    <2>2. \A q \in Procs : q # p => pc'[q] \in {"none", "start"}
        <3>1. lock = p
            BY <1>11, <1>a DEF EndRound, Abort, GitTimeout, OneHolder, Holding, Places
        <3> QED
            BY <2>1, <3>1, <1>a DEF OneHolder, Holding
    <2>3. pc'[p] = "none"
        BY <1>a, <2>1 DEF OneHolder
    <2> QED
        BY <2>1, <2>2, <2>3, TruthFrame
<1> QED
    BY <1>1, <1>2, <1>3, <1>4, <1>5, <1>6, <1>7, <1>8, <1>9, <1>10, <1>11 DEF Next, RoundStep

(* The note names, beside the paths of a log_dir inside the tree, only      *)
(* files that are in its stash, as long as no round's number begins like    *)
(* another's (NoteIsTrue): an older round's stash is never taken for this   *)
(* one's, and nothing changes the tree between the listing and the push.    *)
THEOREM NotesAreTrue == Spec => []NoteIsTrue
<1>1. Init => TruthInv
    BY DEF Init, TruthInv, Newest, MadeBy, NoteIsTrue, NoOrphanState
<1>2. TruthInv => NoteIsTrue
    BY DEF TruthInv
<1> QED
    BY <1>1, <1>2, NumberInit, NumberStep, NoteInit, NoteStep, TruthStep, PTL DEF Spec
=============================================================================
