---------------------------- MODULE ServeProofs ----------------------------
(***************************************************************************)
(* Proofs about the serve loop for every value of its constants: types, the *)
(* stop flag, the throttle snapshot and the convergence of mem_loop         *)
(* restarts; that the breakers' counters are the runs in the history of     *)
(* rounds; and that the loop implements GiveUpContract.                     *)
(***************************************************************************)
EXTENDS ServeHistory, FiniteSetTheorems, TLAPS

-----------------------------------------------------------------------------
(* The loop.                                                               *)

(* Rotation stays inside the list of phases.                               *)
LEMMA RotationType ==
    ASSUME ValueTypes, NEW i \in 0..(Len(PhaseList) - 1)
    PROVE  Rotation(i) \in Phases
<1>1. Len(PhaseList) \in Nat
    BY ServeLoopAssumption
<1>2. (IF slot + i <= Len(PhaseList) THEN slot + i
                                     ELSE slot + i - Len(PhaseList)) \in 1..Len(PhaseList)
    BY <1>1 DEF ValueTypes
<1> QED
    BY <1>2 DEF Rotation, Phases

(* Every verdict is one of serve's exit codes.                             *)
LEMMA VerdictType ==
    ASSUME NEW o, NEW a, NEW b, NEW c, NEW d
    PROVE  Verdict(o, a, b, c, d) \in ServeExitCodes
BY DEF Verdict, ServeExitCodes, RESTART_PREVENT_EXIT_CODES,
       PERMANENT_CONFIG_EXIT, CRASH_LOOP_EXIT, MEM_LOOP_EXIT,
       MEM_LOOP_PERSISTENT_EXIT

(* A step keeps the values in their sets.                                  *)
LEMMA ValueStep == TypeOK /\ [Next]_vars => ValueTypes'
<1> SUFFICES ASSUME ValueTypes, [Next]_vars PROVE ValueTypes'
    BY DEF TypeOK
<1> USE DEF ValueTypes
<1>1. CASE UNCHANGED vars
    BY <1>1 DEF vars, streaks, systemd, world
<1>2. CASE RoundReturns
    <2>1. PICK o \in Outcomes : RoundEnds(o)
        BY <1>2 DEF RoundReturns
    <2>2. exit_code' \in ServeExitCodes
        BY <2>1, VerdictType DEF RoundEnds
    <2>3. /\ consecutive_crashes' \in Nat
          /\ consecutive_mem_terminations' \in Nat
          /\ consecutive_no_progress' \in Nat
        BY <2>1 DEF RoundEnds, CrashStreak, MemStreak, NoProgressStreak, Streak
    <2>4. mem_loop' \in Seq(Nat)
        BY <2>1 DEF RoundEnds
    <2>5. pc' \in Locations /\ rounds_completed' \in Nat
        BY <2>1 DEF RoundEnds, Locations
    <2> QED
        BY <2>1, <2>2, <2>3, <2>4, <2>5
        DEF RoundEnds, SERVE_FRAME, systemd, world
<1>3. CASE Starts
    BY <1>3, ServeLoopAssumption
    DEF Starts, OperatorStart, AutoRestart, StartProcess, streaks, world,
        Locations, ServeExitCodes
<1>4. CASE Serve
    <2> USE DEF SERVE_FRAME, streaks, systemd, world, Locations
    <2>1. CASE Boot
        BY <2>1 DEF Boot
    <2>2. CASE BootFails
        BY <2>2 DEF BootFails, ServeExitCodes, RESTART_PREVENT_EXIT_CODES
    <2>3. CASE Top \/ ThrottleGate \/ BackOffInterrupted \/ Files \/ DeferRound
        <3>1. \E l \in Locations : Goto(l)
            BY <2>3 DEF Top, ThrottleGate, BackOffInterrupted, Files, DeferRound
        <3> QED
            BY <3>1 DEF Goto
    <2>4. CASE SkipGate
        BY <2>4 DEF SkipGate
    <2>5. CASE BackOffDone
        BY <2>5 DEF BackOffDone
    <2>6. CASE IgnoreSchedule \/ SelectLegacy
        BY <2>6 DEF IgnoreSchedule, SelectLegacy, Choose
    <2>7. CASE SelectPhase
        BY <2>7, RotationType DEF SelectPhase, Choose
    <2>8. CASE RateLimitStop
        BY <2>8 DEF RateLimitStop
    <2>9. CASE PauseForSchedule \/ MemPauseEnds \/ SchedPauseEnds \/ CheckStop \/ DelayEnds
        BY <2>9 DEF PauseForSchedule, MemPauseEnds, SchedPauseEnds, CheckStop, DelayEnds, Goto
    <2>10. CASE Spawn
        BY <2>10, ServeLoopAssumption DEF Spawn, NextSlot
    <2>11. CASE Exit
        BY <2>11 DEF Exit, ProcessGone, UnitAfter
    <2> QED
        BY <1>4, <2>1, <2>2, <2>3, <2>4, <2>5, <2>6, <2>7, <2>8, <2>9, <2>10, <2>11
        DEF Serve
<1>5. CASE Outside
    <2> USE DEF OUTSIDE_FRAME, SERVE_OUTSIDE, streaks, systemd, world, Locations
    <2>1. CASE StartLimitHit \/ StartLimitReset
        <3>1. CASE StartLimitHit
            BY <3>1, ServeLoopAssumption DEF StartLimitHit
        <3>2. CASE StartLimitReset
            BY <3>2, ServeLoopAssumption DEF StartLimitReset
        <3> QED
            BY <2>1, <3>1, <3>2
    <2>2. CASE Sigterm \/ StopUnit
        BY <2>2 DEF Sigterm, StopUnit, Signalled
    <2>3. CASE SigtermDuringBoot \/ Crash
        BY <2>3 DEF SigtermDuringBoot, Crash, ProcessGone
    <2>4. CASE StopUnitBetweenStarts \/ AgentWritesDone
        BY <2>4 DEF StopUnitBetweenStarts, AgentWritesDone
    <2>5. CASE AgentThrottled \/ OtherRoundThrottled
        <3>1. CASE AgentThrottled
            BY <3>1 DEF AgentThrottled
        <3>2. CASE OtherRoundThrottled
            BY <3>2 DEF OtherRoundThrottled
        <3> QED
            BY <2>5, <3>1, <3>2
    <2>6. CASE ThrottleResets
        BY <2>6 DEF ThrottleResets
    <2>7. CASE ToggleStopFile \/ MemoryMoves \/ WindowsMove \/ Tick
        <3>1. CASE ToggleStopFile \/ MemoryMoves
            BY <3>1 DEF ToggleStopFile, MemoryMoves
        <3>2. CASE WindowsMove
            BY <3>2 DEF WindowsMove
        <3>3. CASE Tick
            BY <3>3 DEF Tick
        <3> QED
            BY <2>7, <3>1, <3>2, <3>3
    <2> QED
        BY <1>5, <2>1, <2>2, <2>3, <2>4, <2>5, <2>6, <2>7 DEF Outside
<1> QED
    BY <1>1, <1>2, <1>3, <1>4, <1>5 DEF Next

(* A step keeps the flags Boolean.  Zenon reads them as sets of two values. *)
LEMMA FlagStep == TypeOK /\ [Next]_vars => FlagTypes'
<1> SUFFICES ASSUME FlagTypes, [Next]_vars PROVE FlagTypes'
    BY DEF TypeOK
<1> USE DEF FlagTypes
<1>1. CASE UNCHANGED vars
    BY <1>1 DEF vars, systemd, world
<1>2. CASE RoundReturns
    BY <1>2 DEF RoundReturns, RoundEnds, SERVE_FRAME, systemd, world
<1>3. CASE Starts
    BY <1>3, Zenon DEF Starts, OperatorStart, AutoRestart, StartProcess, world
<1>4. CASE Serve
    <2> USE DEF SERVE_FRAME, systemd, world
    <2>1. CASE Boot \/ BootFails
        BY <2>1, Zenon DEF Boot, BootFails
    <2>2. CASE Top \/ SkipGate \/ ThrottleGate \/ BackOffDone
        BY <2>2, Zenon DEF Top, SkipGate, ThrottleGate, BackOffDone, Goto
    <2>3. CASE BackOffInterrupted \/ Files \/ DeferRound \/ IgnoreSchedule \/ SelectLegacy
        BY <2>3, Zenon DEF BackOffInterrupted, Files, DeferRound, IgnoreSchedule,
            SelectLegacy, Goto, Choose
    <2>4. CASE SelectPhase \/ RateLimitStop \/ PauseForSchedule
        BY <2>4, Zenon DEF SelectPhase, RateLimitStop, PauseForSchedule, Goto, Choose
    <2>5. CASE MemPauseEnds \/ SchedPauseEnds \/ CheckStop \/ Spawn \/ DelayEnds
        BY <2>5, Zenon DEF MemPauseEnds, SchedPauseEnds, CheckStop, Spawn, DelayEnds, Goto
    <2>6. CASE Exit
        BY <2>6, Zenon DEF Exit, ProcessGone
    <2> QED
        BY <1>4, <2>1, <2>2, <2>3, <2>4, <2>5, <2>6 DEF Serve
<1>5. CASE Outside
    <2> USE DEF OUTSIDE_FRAME, SERVE_OUTSIDE, systemd, world
    <2>1. CASE StartLimitHit \/ StartLimitReset \/ StopUnitBetweenStarts
        BY <2>1, Zenon DEF StartLimitHit, StartLimitReset, StopUnitBetweenStarts
    <2>2. CASE Sigterm \/ StopUnit
        BY <2>2, Zenon DEF Sigterm, StopUnit, Signalled
    <2>3. CASE SigtermDuringBoot \/ Crash
        BY <2>3, Zenon DEF SigtermDuringBoot, Crash, ProcessGone
    <2>4. CASE \/ AgentWritesDone \/ AgentThrottled \/ OtherRoundThrottled
               \/ ThrottleResets
        BY <2>4, Zenon DEF AgentWritesDone, AgentThrottled, OtherRoundThrottled,
            ThrottleResets
    <2>5. CASE ToggleStopFile \/ MemoryMoves \/ WindowsMove \/ Tick
        BY <2>5, Zenon DEF ToggleStopFile, MemoryMoves, WindowsMove, Tick
    <2> QED
        BY <1>5, <2>1, <2>2, <2>3, <2>4, <2>5 DEF Outside
<1> QED
    BY <1>1, <1>2, <1>3, <1>4, <1>5 DEF Next

LEMMA TypeStep == TypeOK /\ [Next]_vars => TypeOK'
BY ValueStep, FlagStep DEF TypeOK

LEMMA TypeInit == Init => TypeOK
<1> SUFFICES ASSUME Init PROVE TypeOK
    OBVIOUS
<1>1. FlagTypes
    BY Zenon DEF Init, FlagTypes
<1>2. ValueTypes
    BY ServeLoopAssumption DEF Init, ValueTypes, Locations, ServeExitCodes
<1> QED
    BY <1>1, <1>2 DEF TypeOK

(* Type correctness of the serve loop and its unit.                        *)
THEOREM TypeCorrect == Spec => []TypeOK
<1> QED
    BY TypeInit, TypeStep, PTL DEF Spec

-----------------------------------------------------------------------------
(* Stop requests.                                                          *)

LEMMA StopStep == NoRoundAfterStop /\ [Next]_vars => NoRoundAfterStop'
<1> SUFFICES ASSUME NoRoundAfterStop, [Next]_vars PROVE NoRoundAfterStop'
    OBVIOUS
<1> USE DEF NoRoundAfterStop
<1>1. CASE UNCHANGED vars
    BY <1>1 DEF vars
<1>2. CASE RoundReturns
    BY <1>2 DEF RoundReturns, RoundEnds
<1>3. CASE Starts
    BY <1>3 DEF Starts, OperatorStart, AutoRestart, StartProcess
<1>4. CASE Serve
    BY <1>4 DEF Serve, Boot, BootFails, Top, SkipGate, ThrottleGate, BackOffDone,
        BackOffInterrupted, Files, DeferRound, IgnoreSchedule, SelectLegacy, SelectPhase,
        RateLimitStop, PauseForSchedule, MemPauseEnds, SchedPauseEnds,
        CheckStop, Spawn, DelayEnds, Exit, ProcessGone, Goto, Choose
<1>5. CASE Outside
    BY <1>5 DEF Outside, StartLimitHit, StartLimitReset, StopUnitBetweenStarts,
        Sigterm, StopUnit, Signalled, SigtermDuringBoot, Crash, ProcessGone,
        AgentWritesDone, AgentThrottled, OtherRoundThrottled, ThrottleResets,
        ToggleStopFile, MemoryMoves, WindowsMove, Tick, OUTSIDE_FRAME, SERVE_OUTSIDE
<1> QED
    BY <1>1, <1>2, <1>3, <1>4, <1>5 DEF Next

(* A stop that is requested before serve's last look at the flag keeps the  *)
(* next round from starting.                                                *)
THEOREM StopIsRespected == Spec => []NoRoundAfterStop
<1>1. Init => NoRoundAfterStop
    BY DEF Init, NoRoundAfterStop
<1> QED
    BY <1>1, StopStep, PTL DEF Spec

-----------------------------------------------------------------------------
(* The throttle snapshot.                                                  *)

LEMMA SnapshotStep == TypeOK /\ SnapshotCovers /\ [Next]_vars => SnapshotCovers'
<1> SUFFICES ASSUME TypeOK, SnapshotCovers, [Next]_vars PROVE SnapshotCovers'
    OBVIOUS
<1> USE DEF SnapshotCovers, SkipAround, GateToSpawn
<1>1. CASE UNCHANGED vars
    BY <1>1 DEF vars, world
<1>2. CASE RoundReturns
    BY <1>2 DEF RoundReturns, RoundEnds
<1>3. CASE Starts
    BY <1>3 DEF Starts, OperatorStart, AutoRestart, StartProcess
<1>4. CASE Serve
    <2>1. CASE SelectPhase
        BY <2>1 DEF SelectPhase, Choose, Selected, Runnable, SERVE_FRAME, world
    <2>2. CASE IgnoreSchedule
        BY <2>2 DEF IgnoreSchedule, Choose, SERVE_FRAME, world
    <2>7. CASE SelectLegacy
        BY <2>7, ServeLoopAssumption DEF SelectLegacy, Choose, SERVE_FRAME, world,
            TypeOK, ValueTypes
    <2>3. CASE SkipGate
        BY <2>3 DEF SkipGate, GateToSpawn, SERVE_FRAME, world
    <2>4. CASE BackOffDone
        BY <2>4 DEF BackOffDone
    <2>5. CASE Boot \/ BootFails \/ RateLimitStop \/ Spawn \/ Exit
        BY <2>5 DEF Boot, BootFails, RateLimitStop, Spawn, Exit, ProcessGone
    <2>6. CASE \/ Top \/ ThrottleGate \/ BackOffInterrupted \/ Files \/ DeferRound
               \/ PauseForSchedule \/ MemPauseEnds \/ SchedPauseEnds
               \/ CheckStop \/ DelayEnds
        BY <2>6 DEF Top, ThrottleGate, BackOffInterrupted, Files, DeferRound,
            PauseForSchedule, MemPauseEnds, SchedPauseEnds, CheckStop,
            DelayEnds, Goto, SERVE_FRAME, world, SkipAround
    <2> QED
        BY <1>4, <2>1, <2>2, <2>3, <2>4, <2>5, <2>6, <2>7 DEF Serve
<1>5. CASE Outside
    BY <1>5 DEF Outside, StartLimitHit, StartLimitReset, StopUnitBetweenStarts,
        Sigterm, StopUnit, Signalled, SigtermDuringBoot, Crash, ProcessGone,
        AgentWritesDone, AgentThrottled, OtherRoundThrottled, ThrottleResets,
        ToggleStopFile, MemoryMoves, WindowsMove, Tick, OUTSIDE_FRAME, SERVE_OUTSIDE, world
<1> QED
    BY <1>1, <1>2, <1>3, <1>4, <1>5 DEF Next

(* Selection on a snapshot launches a throttled phase only when another     *)
(* round detected the throttle after the gate: the snapshot covers every    *)
(* other throttle that is active until the spawn.                           *)
THEOREM SnapshotIsEnough == Spec => []RoutesAroundThrottles
<1>1. Init => SnapshotCovers
    BY DEF Init, SnapshotCovers
<1>2. SnapshotCovers => RoutesAroundThrottles
    BY DEF SnapshotCovers, RoutesAroundThrottles, GateToSpawn
<1> QED
    BY <1>1, <1>2, SnapshotStep, TypeCorrect, PTL DEF Spec

-----------------------------------------------------------------------------
(* Convergence of mem_loop restarts.                                       *)

(* Only the end of a round writes a mem_loop event, and time moves forward. *)
LEMMA MemLogFrame ==
    ASSUME TypeOK, [Next]_vars, ~RoundReturns
    PROVE  mem_loop' = mem_loop /\ now' \in Nat /\ now <= now'
<1>1. CASE UNCHANGED vars
    BY <1>1 DEF vars, world, TypeOK, ValueTypes
<1>2. CASE Starts
    BY <1>2 DEF Starts, OperatorStart, AutoRestart, StartProcess, world, TypeOK, ValueTypes
<1>3. CASE Serve
    <2>1. UNCHANGED <<mem_loop, now>>
        <3>1. CASE BackOffDone
            BY <3>1 DEF BackOffDone
        <3>2. CASE Boot \/ BootFails \/ SkipGate \/ RateLimitStop \/ Spawn
            BY <3>2 DEF Boot, BootFails, SkipGate, RateLimitStop, Spawn, SERVE_FRAME, world
        <3>3. CASE IgnoreSchedule \/ SelectLegacy \/ SelectPhase
            BY <3>3 DEF IgnoreSchedule, SelectLegacy, SelectPhase, Choose, SERVE_FRAME, world
        <3>4. CASE Exit
            BY <3>4 DEF Exit, ProcessGone, world
        <3>5. CASE \/ Top \/ ThrottleGate \/ BackOffInterrupted \/ Files \/ DeferRound
                   \/ PauseForSchedule \/ MemPauseEnds \/ SchedPauseEnds
                   \/ CheckStop \/ DelayEnds
            BY <3>5 DEF Top, ThrottleGate, BackOffInterrupted, Files, DeferRound,
                PauseForSchedule, MemPauseEnds, SchedPauseEnds, CheckStop,
                DelayEnds, Goto, SERVE_FRAME, world
        <3> QED
            BY <1>3, <3>1, <3>2, <3>3, <3>4, <3>5 DEF Serve
    <2> QED
        BY <2>1 DEF TypeOK, ValueTypes
<1>4. CASE Outside
    BY <1>4 DEF Outside, StartLimitHit, StartLimitReset, StopUnitBetweenStarts,
        Sigterm, StopUnit, Signalled, SigtermDuringBoot, Crash, ProcessGone,
        AgentWritesDone, AgentThrottled, OtherRoundThrottled, ThrottleResets,
        ToggleStopFile, MemoryMoves, WindowsMove, Tick, OUTSIDE_FRAME, SERVE_OUTSIDE, world, TypeOK, ValueTypes
<1> QED
    BY <1>1, <1>2, <1>3, <1>4 DEF Next

(* A restartable mem_loop needs room in the window.                        *)
LEMMA RestartableNeedsRoom ==
    ASSUME NEW o, NEW a, NEW b, NEW c, NEW prior \in Nat,
           Verdict(o, a, b, c, prior) = MEM_LOOP_EXIT
    PROVE  prior + 1 < MEM_LOOP_PERSIST_THRESHOLD
BY ThresholdAssumption
DEF Verdict, MEM_LOOP_EXIT, MEM_LOOP_PERSISTENT_EXIT, PERMANENT_CONFIG_EXIT,
    CRASH_LOOP_EXIT

(* In an ordered log, an event inside the window puts every later one in    *)
(* it, so the count of the window is at least the distance to the end.      *)
LEMMA WindowCount ==
    ASSUME TypeOK, MemLogOrdered,
           NEW i \in 1..Len(mem_loop), mem_loop[i] >= now - Window
    PROVE  /\ MemLoopsInWindow \in Nat
           /\ MemLoopsInWindow >= Len(mem_loop) - i + 1
<1> DEFINE n == Len(mem_loop)
           W == {k \in 1..n : mem_loop[k] >= now - Window}
<1>1. mem_loop \in Seq(Nat) /\ n \in Nat /\ now \in Nat /\ Window \in Nat
    BY ServeLoopAssumption DEF TypeOK, ValueTypes
<1>2. IsFiniteSet(1..n)
    BY <1>1, FS_Interval
<1>3. IsFiniteSet(W) /\ Cardinality(W) \in Nat
    BY <1>2, FS_Subset, FS_CardinalityType
<1>4. i..n \subseteq W
    BY <1>1 DEF MemLogOrdered
<1>5. Cardinality(i..n) <= Cardinality(W)
    BY <1>3, <1>4, FS_Subset
<1>6. Cardinality(i..n) = n - i + 1
    BY <1>1, FS_Interval
<1> QED
    BY <1>1, <1>3, <1>5, <1>6 DEF MemLoopsInWindow

LEMMA MemLoopsInWindowType ==
    ASSUME TypeOK
    PROVE  MemLoopsInWindow \in Nat
<1>1. IsFiniteSet(1..Len(mem_loop))
    BY FS_Interval DEF TypeOK, ValueTypes
<1>2. IsFiniteSet({i \in 1..Len(mem_loop) : mem_loop[i] >= now - Window})
    BY <1>1, FS_Subset
<1> QED
    BY <1>2, FS_CardinalityType DEF MemLoopsInWindow

LEMMA MemLogStep ==
    ASSUME TypeOK, MemLogOrdered, MemLoopConverges, [Next]_vars
    PROVE  MemLogOrdered' /\ MemLoopConverges'
<1>1. mem_loop \in Seq(Nat) /\ now \in Nat /\ Window \in Nat
    BY ServeLoopAssumption DEF TypeOK, ValueTypes
<1>2. CASE ~RoundReturns
    <2>1. mem_loop' = mem_loop /\ now' \in Nat /\ now <= now'
        BY <1>2, MemLogFrame
    <2> QED
        BY <1>1, <2>1 DEF MemLogOrdered, MemLoopConverges
<1>3. CASE RoundReturns
    <2>1. PICK o \in Outcomes : RoundEnds(o)
        BY <1>3 DEF RoundReturns
    <2>2. now' = now
        BY <2>1 DEF RoundEnds, SERVE_FRAME, world
    <2>3. CASE exit_code' # MEM_LOOP_EXIT
        <3>1. mem_loop' = mem_loop
            BY <2>1, <2>3 DEF RoundEnds
        <3> QED
            BY <2>2, <3>1 DEF MemLogOrdered, MemLoopConverges
    <2>4. CASE exit_code' = MEM_LOOP_EXIT
        <3> DEFINE n == Len(mem_loop)
        <3>1. mem_loop' = Append(mem_loop, now) /\ n \in Nat
            BY <1>1, <2>1, <2>4 DEF RoundEnds
        <3>2. /\ Len(mem_loop') = n + 1
              /\ \A i \in 1..n : mem_loop'[i] = mem_loop[i]
              /\ mem_loop'[n + 1] = now
            BY <1>1, <3>1
        <3>3. MemLoopsInWindow + 1 < MEM_LOOP_PERSIST_THRESHOLD
            BY <2>1, <2>4, MemLoopsInWindowType, RestartableNeedsRoom DEF RoundEnds
        <3>4. MemLogOrdered'
            BY <1>1, <2>2, <3>1, <3>2 DEF MemLogOrdered
        <3>5. ASSUME NEW i \in 1..(n + 1), NEW j \in 1..(n + 1),
                     j >= i + MEM_LOOP_PERSIST_THRESHOLD - 1
              PROVE  mem_loop'[j] - mem_loop'[i] > Window
            <4>1. MEM_LOOP_PERSIST_THRESHOLD > 1 /\ MEM_LOOP_PERSIST_THRESHOLD \in Nat
                BY <3>3, MemLoopsInWindowType, ThresholdAssumption
            <4>2. i \in 1..n
                BY <3>1, <3>5, <4>1
            <4>3. CASE j \in 1..n
                BY <3>2, <3>5, <4>2, <4>3 DEF MemLoopConverges
            <4>4. CASE j = n + 1
                <5>1. mem_loop[i] \in Nat
                    BY <1>1, <4>2
                <5>2. ASSUME mem_loop[i] >= now - Window PROVE FALSE
                    BY <3>1, <3>3, <3>5, <4>1, <4>2, <4>4, <5>2, WindowCount
                <5> QED
                    BY <1>1, <3>2, <4>2, <4>4, <5>1, <5>2
            <4> QED
                BY <3>1, <4>3, <4>4
        <3> QED
            BY <3>2, <3>4, <3>5 DEF MemLoopConverges
    <2> QED
        BY <2>3, <2>4
<1> QED
    BY <1>2, <1>3

(* A host under lasting memory pressure cannot restart serve forever: in    *)
(* any behaviour fewer than MEM_LOOP_PERSIST_THRESHOLD restartable mem_loop *)
(* exits fall into one window, for all thresholds and window lengths.       *)
THEOREM MemLoopRestartsConverge == Spec => []MemLoopConverges
<1>1. Init => MemLogOrdered /\ MemLoopConverges
    BY DEF Init, MemLogOrdered, MemLoopConverges
<1>2. TypeOK /\ MemLogOrdered /\ MemLoopConverges /\ [Next]_vars
        => MemLogOrdered' /\ MemLoopConverges'
    BY MemLogStep
<1> QED
    BY <1>1, <1>2, TypeInit, TypeStep, PTL DEF Spec

-----------------------------------------------------------------------------
(* Runs at the end of a sequence.                                          *)

(* One more element extends the run or ends it.                            *)
LEMMA TrailingRunAppend ==
    ASSUME NEW X, NEW h \in Seq(X), NEW o \in X, NEW S, NEW n \in Nat,
           TrailingRun(h, S, n)
    PROVE  TrailingRun(Append(h, o), S, IF o \in S THEN n + 1 ELSE 0)
<1>1. /\ Len(h) \in Nat
      /\ Len(Append(h, o)) = Len(h) + 1
      /\ \A i \in 1..Len(h) : Append(h, o)[i] = h[i]
      /\ Append(h, o)[Len(h) + 1] = o
    OBVIOUS
<1>2. CASE o \in S
    BY <1>1, <1>2 DEF TrailingRun
<1>3. CASE o \notin S
    BY <1>1, <1>3 DEF TrailingRun
<1> QED
    BY <1>2, <1>3

(* With a run shorter than k so far, the last k elements are all in S       *)
(* exactly when the new one completes a run of k.                           *)
LEMMA LastAllAppend ==
    ASSUME NEW X, NEW h \in Seq(X), NEW o \in X, NEW S, NEW n \in Nat,
           NEW k \in Nat \ {0}, TrailingRun(h, S, n), n < k
    PROVE  Contract!LastAll(Append(h, o), k, S) <=> o \in S /\ n + 1 >= k
<1>1. /\ Len(h) \in Nat
      /\ Len(Append(h, o)) = Len(h) + 1
      /\ \A i \in 1..Len(h) : Append(h, o)[i] = h[i]
      /\ Append(h, o)[Len(h) + 1] = o
    OBVIOUS
<1>2. ASSUME o \in S, n + 1 >= k PROVE Contract!LastAll(Append(h, o), k, S)
    BY <1>1, <1>2 DEF TrailingRun, Contract!LastAll
<1>3. ASSUME Contract!LastAll(Append(h, o), k, S) PROVE o \in S /\ n + 1 >= k
    <2>1. o \in S
        BY <1>1, <1>3 DEF Contract!LastAll
    <2>2. ASSUME n + 1 < k PROVE FALSE
        <3>1. n < Len(h) /\ Len(h) - n \in 1..Len(h)
            BY <1>1, <1>3, <2>2 DEF Contract!LastAll
        <3>2. h[Len(h) - n] \notin S
            BY <3>1 DEF TrailingRun
        <3>3. Append(h, o)[Len(h) - n] \in S
            BY <1>1, <1>3, <2>2, <3>1 DEF Contract!LastAll
        <3> QED
            BY <1>1, <3>1, <3>2, <3>3
    <2> QED
        BY <2>1, <2>2
<1> QED
    BY <1>2, <1>3

-----------------------------------------------------------------------------
(* The steps of the loop, as the history sees them.                        *)

Stays ==
    /\ pc # "down" /\ pc' # "down"
    /\ pc = "exit" => pc' = "exit"
    /\ pc' = "boot" => pc = "boot"
    /\ UNCHANGED <<exit_code, streaks>>

RefusesToStart ==
    /\ pc = "boot" /\ pc' = "exit"
    /\ exit_code' = PERMANENT_CONFIG_EXIT
    /\ UNCHANGED streaks

ComesUp == pc = "down" /\ pc' = "boot" /\ exit_code' = 0 /\ UNCHANGED streaks

GoesDown ==
    /\ pc # "down" /\ pc' = "down"
    /\ exit_code' = exit_code
    /\ streaks' = <<0, 0, 0>>

IsDown == pc = "down" /\ pc' = "down" /\ UNCHANGED <<exit_code, streaks>>

LEMMA StepKinds ==
    ASSUME TypeOK, Serve \/ Starts \/ Outside, unit = "auto_restart" => pc = "down"
    PROVE  Stays \/ RefusesToStart \/ ComesUp \/ GoesDown \/ IsDown
<1> USE DEF Stays, RefusesToStart, ComesUp, GoesDown, IsDown
<1>1. CASE Starts
    BY <1>1 DEF Starts, OperatorStart, AutoRestart, StartProcess
<1>2. CASE Serve
    <2>1. CASE BootFails
        BY <2>1 DEF BootFails
    <2>2. CASE Exit
        BY <2>2 DEF Exit, ProcessGone, streaks
    <2>3. CASE Boot \/ SkipGate \/ RateLimitStop \/ Spawn \/ BackOffDone
        BY <2>3 DEF Boot, SkipGate, RateLimitStop, Spawn, BackOffDone
    <2>4. CASE IgnoreSchedule \/ SelectLegacy \/ SelectPhase
        BY <2>4 DEF IgnoreSchedule, SelectLegacy, SelectPhase, Choose
    <2>5. CASE \/ Top \/ ThrottleGate \/ BackOffInterrupted \/ Files \/ DeferRound
               \/ PauseForSchedule \/ MemPauseEnds \/ SchedPauseEnds
               \/ CheckStop \/ DelayEnds
        BY <2>5 DEF Top, ThrottleGate, BackOffInterrupted, Files, DeferRound,
            PauseForSchedule, MemPauseEnds, SchedPauseEnds, CheckStop,
            DelayEnds, Goto
    <2> QED
        BY <1>2, <2>1, <2>2, <2>3, <2>4, <2>5 DEF Serve
<1>3. CASE Outside
    <2>1. CASE Crash \/ SigtermDuringBoot
        BY <2>1 DEF Crash, SigtermDuringBoot, ProcessGone, streaks
    <2>2. CASE Sigterm \/ StopUnit
        BY <2>2 DEF Sigterm, StopUnit, Signalled
    <2>3. CASE StartLimitHit \/ StartLimitReset
        BY <2>3 DEF StartLimitHit, StartLimitReset
    <2>4. CASE \/ StopUnitBetweenStarts \/ AgentWritesDone \/ AgentThrottled
               \/ OtherRoundThrottled \/ ThrottleResets \/ ToggleStopFile \/ MemoryMoves
               \/ WindowsMove \/ Tick
        BY <2>4 DEF StopUnitBetweenStarts, AgentWritesDone, AgentThrottled,
            OtherRoundThrottled, ThrottleResets, ToggleStopFile, MemoryMoves, WindowsMove, Tick,
            OUTSIDE_FRAME, SERVE_OUTSIDE
    <2> QED
        BY <1>3, <2>1, <2>2, <2>3, <2>4 DEF Outside
<1> QED
    BY <1>1, <1>2, <1>3

(* systemd only waits to restart a process that is gone.                   *)
LEMMA UnitStep ==
    ASSUME unit = "auto_restart" => pc = "down", Next
    PROVE  (unit = "auto_restart" => pc = "down")'
<1>1. CASE RoundReturns
    BY <1>1 DEF RoundReturns, RoundEnds, SERVE_FRAME, systemd
<1>2. CASE Starts
    BY <1>2 DEF Starts, OperatorStart, AutoRestart, StartProcess
<1>3. CASE Serve
    <2>1. CASE Exit
        BY <2>1 DEF Exit, ProcessGone
    <2>2. CASE Boot \/ BootFails \/ SkipGate \/ RateLimitStop \/ Spawn \/ BackOffDone
        BY <2>2 DEF Boot, BootFails, SkipGate, RateLimitStop, Spawn, BackOffDone,
            SERVE_FRAME, systemd
    <2>3. CASE IgnoreSchedule \/ SelectLegacy \/ SelectPhase
        BY <2>3 DEF IgnoreSchedule, SelectLegacy, SelectPhase, Choose, SERVE_FRAME, systemd
    <2>4. CASE \/ Top \/ ThrottleGate \/ BackOffInterrupted \/ Files \/ DeferRound
               \/ PauseForSchedule \/ MemPauseEnds \/ SchedPauseEnds
               \/ CheckStop \/ DelayEnds
        BY <2>4 DEF Top, ThrottleGate, BackOffInterrupted, Files, DeferRound,
            PauseForSchedule, MemPauseEnds, SchedPauseEnds, CheckStop,
            DelayEnds, Goto, SERVE_FRAME, systemd
    <2> QED
        BY <1>3, <2>1, <2>2, <2>3, <2>4 DEF Serve
<1>4. CASE Outside
    BY <1>4 DEF Outside, StartLimitHit, StartLimitReset, StopUnitBetweenStarts,
        Sigterm, StopUnit, Signalled, SigtermDuringBoot, Crash, ProcessGone,
        AgentWritesDone, AgentThrottled, OtherRoundThrottled, ThrottleResets,
        ToggleStopFile, MemoryMoves, WindowsMove, Tick, OUTSIDE_FRAME, SERVE_OUTSIDE
<1> QED
    BY <1>1, <1>2, <1>3, <1>4 DEF Next

HInv == TypeOK /\ LoopShape /\ StreaksMatchHistory /\ GiveUpPrompt

(* An empty history has empty runs.                                        *)
LEMMA EmptyRun == ASSUME NEW S PROVE TrailingRun(<<>>, S, 0)
BY DEF TrailingRun

-----------------------------------------------------------------------------
(* A round moves each counter to the length of the new run.                *)
LEMMA RoundStreaks ==
    ASSUME HInv, NEW o \in Outcomes, RoundEnds(o)
    PROVE  LET h == Append(hist, o) IN
           /\ o.rc # PERMANENT_CONFIG_EXIT
                => TrailingRun(h, Contract!CrashRounds, consecutive_crashes')
           /\ TrailingRun(h, Contract!MemRounds, consecutive_mem_terminations')
           /\ TrailingRun(h, Contract!IdleRounds, consecutive_no_progress')
<1> DEFINE h == Append(hist, o)
<1>1. /\ TrailingRun(hist, Contract!CrashRounds, consecutive_crashes)
      /\ TrailingRun(hist, Contract!MemRounds, consecutive_mem_terminations)
      /\ TrailingRun(hist, Contract!IdleRounds, consecutive_no_progress)
    BY DEF HInv, LoopShape, StreaksMatchHistory, RoundEnds, PERMANENT_CONFIG_EXIT
<1>2. /\ hist \in Seq(Outcomes)
      /\ consecutive_crashes \in Nat
      /\ consecutive_mem_terminations \in Nat
      /\ consecutive_no_progress \in Nat
    BY DEF HInv, LoopShape, TypeOK, ValueTypes
<1>3. /\ TrailingRun(h, Contract!CrashRounds,
                     IF o \in Contract!CrashRounds THEN consecutive_crashes + 1 ELSE 0)
      /\ TrailingRun(h, Contract!MemRounds,
                     IF o \in Contract!MemRounds THEN consecutive_mem_terminations + 1 ELSE 0)
      /\ TrailingRun(h, Contract!IdleRounds,
                     IF o \in Contract!IdleRounds THEN consecutive_no_progress + 1 ELSE 0)
    BY <1>1, <1>2, TrailingRunAppend
<1>4. o.rc # PERMANENT_CONFIG_EXIT =>
        consecutive_crashes' =
            IF o \in Contract!CrashRounds THEN consecutive_crashes + 1 ELSE 0
    BY DEF RoundEnds, CrashStreak, Contract!CrashRounds, UnknownShortCrash,
        Contract!UnknownShortCrash, RoundThrottleActive, Contract!RoundThrottleActive,
        PERMANENT_CONFIG_EXIT, Contract!PERMANENT_CONFIG_EXIT,
        ENV_BATTERY_EXIT, Contract!ENV_BATTERY_EXIT
<1>5. consecutive_mem_terminations' =
        IF o \in Contract!MemRounds THEN consecutive_mem_terminations + 1 ELSE 0
    BY DEF RoundEnds, MemStreak, Streak, Contract!MemRounds
<1>6. consecutive_no_progress' =
        IF o \in Contract!IdleRounds THEN consecutive_no_progress + 1 ELSE 0
    BY DEF RoundEnds, NoProgressStreak, Streak, Contract!IdleRounds, NoProgress,
        Contract!NoProgress, RoundThrottleActive, Contract!RoundThrottleActive
<1> QED
    BY <1>3, <1>4, <1>5, <1>6

(* Without a verdict no counter has reached its threshold.                 *)
LEMMA RoundPrompt ==
    ASSUME HInv, NEW o \in Outcomes, RoundEnds(o), exit_code' = 0
    PROVE  GiveUpPrompt'
<1>1. /\ consecutive_crashes \in Nat
      /\ consecutive_mem_terminations \in Nat
      /\ consecutive_no_progress \in Nat
    BY DEF HInv, TypeOK, ValueTypes
<1>2. /\ o.rc # PERMANENT_CONFIG_EXIT
      /\ ~(o.mem /\ consecutive_mem_terminations' >= MEM_LOOP_THRESHOLD)
      /\ ~(UnknownShortCrash(o) /\ consecutive_crashes' >= CRASH_LOOP_THRESHOLD)
      /\ ~(NoProgress(o) /\ consecutive_no_progress' >= CRASH_LOOP_THRESHOLD)
    BY DEF RoundEnds, Verdict, PERMANENT_CONFIG_EXIT, MEM_LOOP_EXIT,
        MEM_LOOP_PERSISTENT_EXIT, CRASH_LOOP_EXIT
<1>3. consecutive_crashes' < CRASH_LOOP_THRESHOLD
    BY <1>1, <1>2, ThresholdAssumption DEF RoundEnds, CrashStreak
<1>4. consecutive_mem_terminations' < MEM_LOOP_THRESHOLD
    BY <1>1, <1>2, ThresholdAssumption DEF RoundEnds, MemStreak, Streak
<1>5. consecutive_no_progress' < CRASH_LOOP_THRESHOLD
    BY <1>1, <1>2, ThresholdAssumption DEF RoundEnds, NoProgressStreak, Streak
<1> QED
    BY <1>3, <1>4, <1>5 DEF GiveUpPrompt

-----------------------------------------------------------------------------
LEMMA HInvRound ==
    ASSUME HInv, NEW o \in Outcomes, RoundEnds(o), hist' = Append(hist, o)
    PROVE  HInv'
<1>1. RoundReturns /\ Next
    BY DEF RoundReturns, Next
<1>2. TypeOK'
    BY <1>1, TypeStep DEF HInv
<1>3. hist' \in Seq(Outcomes)
    BY DEF HInv, LoopShape
<1>4. /\ pc' \notin {"down", "boot"}
      /\ pc' # "exit" => exit_code' = 0
    BY DEF RoundEnds
<1>5. (unit = "auto_restart" => pc = "down")'
    BY <1>1, UnitStep DEF HInv, LoopShape
<1>6. LoopShape'
    BY <1>3, <1>4, <1>5 DEF LoopShape
<1>7. exit_code' # PERMANENT_CONFIG_EXIT => o.rc # PERMANENT_CONFIG_EXIT
    BY DEF RoundEnds, Verdict
<1>8. StreaksMatchHistory'
    <2>1. ASSUME exit_code' # PERMANENT_CONFIG_EXIT
          PROVE  /\ TrailingRun(hist', Contract!CrashRounds, consecutive_crashes')
                 /\ TrailingRun(hist', Contract!MemRounds, consecutive_mem_terminations')
                 /\ TrailingRun(hist', Contract!IdleRounds, consecutive_no_progress')
        BY <1>7, <2>1, RoundStreaks
    <2> QED
        BY <2>1 DEF StreaksMatchHistory, TrailingRun, Contract!CrashRounds,
            Contract!MemRounds, Contract!IdleRounds
<1>9. GiveUpPrompt'
    BY RoundPrompt DEF GiveUpPrompt
<1> QED
    BY <1>2, <1>6, <1>8, <1>9 DEF HInv

LEMMA HInvQuiet ==
    ASSUME HInv, Serve \/ Starts \/ Outside,
           hist' = IF pc' = "down" THEN <<>> ELSE hist
    PROVE  HInv'
<1>1. Next
    BY DEF Next
<1>2. TypeOK'
    BY <1>1, TypeStep DEF HInv
<1>3. (unit = "auto_restart" => pc = "down")'
    BY <1>1, UnitStep DEF HInv, LoopShape
<1>4. Stays \/ RefusesToStart \/ ComesUp \/ GoesDown \/ IsDown
    BY StepKinds DEF HInv, LoopShape
<1>5. LoopShape'
    <2>1. hist' \in Seq(Outcomes)
        BY DEF HInv, LoopShape
    <2>2. (pc \notin {"down", "exit"} => exit_code = 0)'
        BY <1>4 DEF HInv, LoopShape, Stays, RefusesToStart, ComesUp, GoesDown, IsDown
    <2>3. (pc \in {"down", "boot"} => hist = <<>> /\ streaks = <<0, 0, 0>>)'
        BY <1>4 DEF HInv, LoopShape, Stays, RefusesToStart, ComesUp, GoesDown, IsDown
    <2> QED
        BY <1>3, <2>1, <2>2, <2>3 DEF LoopShape
<1>6. CASE RefusesToStart
    BY <1>2, <1>5, <1>6
    DEF HInv, RefusesToStart, StreaksMatchHistory, GiveUpPrompt, PERMANENT_CONFIG_EXIT
<1>7. CASE Stays
    BY <1>2, <1>5, <1>7
    DEF HInv, Stays, StreaksMatchHistory, GiveUpPrompt, TrailingRun, streaks,
        Contract!CrashRounds, Contract!MemRounds, Contract!IdleRounds
<1>8. CASE ComesUp \/ GoesDown \/ IsDown
    <2>1. /\ hist' = <<>>
          /\ consecutive_crashes' = 0
          /\ consecutive_mem_terminations' = 0
          /\ consecutive_no_progress' = 0
        BY <1>8 DEF HInv, LoopShape, ComesUp, GoesDown, IsDown, streaks
    <2>2. StreaksMatchHistory'
        BY <2>1, EmptyRun DEF StreaksMatchHistory, TrailingRun
    <2>3. GiveUpPrompt'
        BY <2>1, ThresholdAssumption DEF GiveUpPrompt
    <2> QED
        BY <1>2, <1>5, <2>2, <2>3 DEF HInv
<1> QED
    BY <1>4, <1>6, <1>7, <1>8

LEMMA HInvStep == HInv /\ [HNext]_hvars => HInv'
<1> SUFFICES ASSUME HInv, [HNext]_hvars PROVE HInv'
    OBVIOUS
<1>1. CASE UNCHANGED hvars
    <2>1. TypeOK'
        BY <1>1, TypeStep DEF HInv, hvars
    <2> QED
        BY <1>1, <2>1
        DEF HInv, hvars, vars, streaks, systemd, LoopShape, StreaksMatchHistory,
            GiveUpPrompt, TrailingRun, Contract!CrashRounds, Contract!MemRounds,
            Contract!IdleRounds
<1>2. CASE HNext
    BY <1>2, HInvRound, HInvQuiet DEF HNext
<1> QED
    BY <1>1, <1>2

LEMMA HInvInit == HInit => HInv
<1> SUFFICES ASSUME HInit PROVE HInv
    OBVIOUS
<1>1. TypeOK
    BY TypeInit DEF HInit
<1>2. LoopShape
    BY DEF HInit, Init, LoopShape, streaks
<1>3. StreaksMatchHistory
    BY EmptyRun DEF HInit, Init, StreaksMatchHistory
<1>4. GiveUpPrompt
    BY ThresholdAssumption DEF HInit, Init, GiveUpPrompt
<1> QED
    BY <1>1, <1>2, <1>3, <1>4 DEF HInv

LEMMA HInvAlways == HSpec => []HInv
BY HInvInit, HInvStep, PTL DEF HSpec

(* The counters of the three breakers are the runs in the history.         *)
THEOREM CountersAreRuns == HSpec => []StreaksMatchHistory
<1>1. HInv => StreaksMatchHistory
    BY DEF HInv
<1> QED
    BY <1>1, HInvAlways, PTL

(* No breaker trips late.                                                  *)
THEOREM BreakersArePrompt == HSpec => []GiveUpPrompt
<1>1. HInv => GiveUpPrompt
    BY DEF HInv
<1> QED
    BY <1>1, HInvAlways, PTL

-----------------------------------------------------------------------------
(* Refinement.                                                             *)

(* The verdict computed from the counters is one the history calls for.    *)
LEMMA VerdictIsCalledFor ==
    ASSUME HInv, NEW o \in Outcomes, RoundEnds(o)
    PROVE  exit_code' \in Contract!VerdictsFor(Append(hist, o))
<1> DEFINE h == Append(hist, o)
<1>1. /\ exit_code = 0
      /\ TrailingRun(hist, Contract!CrashRounds, consecutive_crashes)
      /\ TrailingRun(hist, Contract!MemRounds, consecutive_mem_terminations)
      /\ TrailingRun(hist, Contract!IdleRounds, consecutive_no_progress)
    BY DEF HInv, LoopShape, StreaksMatchHistory, RoundEnds, PERMANENT_CONFIG_EXIT
<1>2. /\ hist \in Seq(Outcomes)
      /\ consecutive_crashes \in Nat /\ consecutive_crashes < CRASH_LOOP_THRESHOLD
      /\ consecutive_mem_terminations \in Nat
      /\ consecutive_mem_terminations < MEM_LOOP_THRESHOLD
      /\ consecutive_no_progress \in Nat
      /\ consecutive_no_progress < CRASH_LOOP_THRESHOLD
    BY <1>1 DEF HInv, LoopShape, TypeOK, ValueTypes, GiveUpPrompt
<1>3. h[Len(h)] = o
    BY <1>2
<1>4. /\ Contract!LastAll(h, CRASH_LOOP_THRESHOLD, Contract!CrashRounds)
            <=> o \in Contract!CrashRounds /\ consecutive_crashes + 1 >= CRASH_LOOP_THRESHOLD
      /\ Contract!LastAll(h, MEM_LOOP_THRESHOLD, Contract!MemRounds)
            <=> o \in Contract!MemRounds /\ consecutive_mem_terminations + 1 >= MEM_LOOP_THRESHOLD
      /\ Contract!LastAll(h, CRASH_LOOP_THRESHOLD, Contract!IdleRounds)
            <=> o \in Contract!IdleRounds /\ consecutive_no_progress + 1 >= CRASH_LOOP_THRESHOLD
    BY <1>1, <1>2, LastAllAppend, ThresholdAssumption
<1>5. /\ o \in Contract!CrashRounds <=> UnknownShortCrash(o)
      /\ o \in Contract!MemRounds <=> o.mem
      /\ o \in Contract!IdleRounds <=> NoProgress(o)
    BY DEF Contract!CrashRounds, Contract!MemRounds, Contract!IdleRounds,
        UnknownShortCrash, Contract!UnknownShortCrash, NoProgress, Contract!NoProgress,
        RoundThrottleActive, Contract!RoundThrottleActive,
        PERMANENT_CONFIG_EXIT, Contract!PERMANENT_CONFIG_EXIT,
        ENV_BATTERY_EXIT, Contract!ENV_BATTERY_EXIT
<1>6. /\ UnknownShortCrash(o) => consecutive_crashes' = consecutive_crashes + 1
      /\ o.mem => consecutive_mem_terminations' = consecutive_mem_terminations + 1
      /\ NoProgress(o) => consecutive_no_progress' = consecutive_no_progress + 1
    BY DEF RoundEnds, CrashStreak, MemStreak, NoProgressStreak, Streak,
        UnknownShortCrash, PERMANENT_CONFIG_EXIT
<1>7. exit_code' = Verdict(o, consecutive_crashes', consecutive_mem_terminations',
                           consecutive_no_progress', MemLoopsInWindow)
    BY DEF RoundEnds
<1> QED
    BY <1>3, <1>4, <1>5, <1>6, <1>7
    DEF Verdict, Contract!VerdictsFor,
        PERMANENT_CONFIG_EXIT, Contract!PERMANENT_CONFIG_EXIT,
        MEM_LOOP_EXIT, Contract!MEM_LOOP_EXIT,
        MEM_LOOP_PERSISTENT_EXIT, Contract!MEM_LOOP_PERSISTENT_EXIT,
        CRASH_LOOP_EXIT, Contract!CRASH_LOOP_EXIT

LEMMA ContractStep ==
    HInv /\ [HNext]_hvars => [Contract!ContractNext]_(Contract!contractVars)
<1> SUFFICES ASSUME HInv, [HNext]_hvars
             PROVE  [Contract!ContractNext]_(Contract!contractVars)
    OBVIOUS
<1> USE DEF Contract!contractVars
<1>1. CASE UNCHANGED hvars
    BY <1>1 DEF hvars, vars
<1>2. ASSUME NEW o \in Outcomes, RoundEnds(o), hist' = Append(hist, o)
      PROVE  Contract!Round
    <2>1. exit_code' \in Contract!VerdictsFor(hist')
        BY <1>2, VerdictIsCalledFor
    <2>2. pc # "down" /\ pc' # "down" /\ exit_code = 0
        BY <1>2 DEF RoundEnds, HInv, LoopShape
    <2> QED
        BY <1>2, <2>1, <2>2 DEF Contract!Round
<1>3. ASSUME Serve \/ Starts \/ Outside,
             hist' = IF pc' = "down" THEN <<>> ELSE hist
      PROVE  [Contract!ContractNext]_(Contract!contractVars)
    <2>1. Stays \/ RefusesToStart \/ ComesUp \/ GoesDown \/ IsDown
        BY <1>3, StepKinds DEF HInv, LoopShape
    <2>2. CASE Stays
        BY <1>3, <2>2 DEF Stays
    <2>3. CASE RefusesToStart
        BY <1>3, <2>3 DEF RefusesToStart, Contract!ContractNext, Contract!RefuseToStart,
            HInv, LoopShape, PERMANENT_CONFIG_EXIT, Contract!PERMANENT_CONFIG_EXIT
    <2>4. CASE ComesUp
        BY <1>3, <2>4 DEF ComesUp, Contract!ContractNext, Contract!Begin, HInv, LoopShape
    <2>5. CASE GoesDown
        BY <1>3, <2>5 DEF GoesDown, Contract!ContractNext, Contract!End
    <2>6. CASE IsDown
        BY <1>3, <2>6 DEF IsDown, HInv, LoopShape
    <2> QED
        BY <2>1, <2>2, <2>3, <2>4, <2>5, <2>6
<1>4. CASE HNext
    BY <1>2, <1>3, <1>4 DEF HNext, Contract!ContractNext
<1> QED
    BY <1>1, <1>4

(* The serve loop, with its counters, restarts, pauses and stops,           *)
(* implements the counter-free statement of when it gives up.               *)
THEOREM ServeImplementsContract == HSpec => ImplementsContract
<1>1. HInit => Contract!ContractInit
    BY DEF HInit, Init, Contract!ContractInit
<1> QED
    BY <1>1, HInvAlways, ContractStep, PTL
    DEF HSpec, ImplementsContract, Contract!ContractSpec
=============================================================================
