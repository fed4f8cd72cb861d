------------------------ MODULE ServiceControlProofs ------------------------
(***************************************************************************)
(* Proofs about ServiceControl for any number of processes: types, the      *)
(* files that name the running serve and the running round, and the drain.  *)
(***************************************************************************)
EXTENDS ServiceControl, TLAPS

(* A step keeps the values in their sets.                                  *)
LEMMA ValueStep == TypeOK /\ [Next]_vars => ValueTypes'
<1> SUFFICES ASSUME ValueTypes, [Next]_vars PROVE ValueTypes'
    BY DEF TypeOK
<1> USE ServiceControlAssumption
    DEF ValueTypes, InLoop, Armed, HoldsServeLock, HoldsRoundLock, Exits, Down, Up,
        AllVerbs, serves, rounds, files, locks, systemd, cli
<1>1. CASE UNCHANGED vars
    BY <1>1 DEF vars
<1>2. ASSUME NEW s \in Serves, HandLaunch(s) \/ UnitStarts(s) PROVE ValueTypes'
    BY <1>2 DEF HandLaunch, UnitStarts, MainBegins, Begin
<1>3. ASSUME NEW s \in Serves, ArmSignals(s) \/ WritePid(s) \/ PassGates(s)
      PROVE  ValueTypes'
    BY <1>3 DEF ArmSignals, WritePid, PassGates
<1>4. ASSUME NEW s \in Serves, SpawnChild(s) \/ RoundOver(s) \/ UnlinkPid(s)
      PROVE  ValueTypes'
    BY <1>4 DEF SpawnChild, RoundOver, UnlinkPid
<1>5. ASSUME NEW s \in Serves,
             \/ AcquireServeLock(s) \/ BootFails(s) \/ ReleaseServeLock(s)
             \/ ServeCrashes(s)
      PROVE  ValueTypes'
    BY <1>5 DEF AcquireServeLock, BootFails, ReleaseServeLock, ServeCrashes, ServeDies,
        RoundsDie, UnitAfter
<1>6. ASSUME NEW r \in Rounds, RoundNext(r) PROVE ValueTypes'
    BY <1>6 DEF RoundNext, AcquireRoundLock, WriteHolderSidecar, UnlinkHolder,
        ReleaseRoundLock, RoundsDie
<1>7. ASSUME NEW v \in Verbs, Invoke(v) PROVE ValueTypes'
    BY <1>7 DEF Invoke
<1>8. CASE Admit \/ ConfirmStop \/ FindRound \/ RoundGrace
    BY <1>8 DEF Admit, ConfirmStop, FindRound, RoundGrace, Done, Continue, ReadHolder,
        RoundsDie
<1>9. CASE RouteStart \/ Respawn
    BY <1>9 DEF RouteStart, Respawn, StartVerb, StartRefused,
        MainBegins, Begin, Done
<1>10. CASE RouteStop
    <2>1. ReadPid \in Serves \cup {None}
        BY DEF ReadPid
    <2>2. CASE StopUnit
        BY <1>10, <2>2 DEF RouteStop, StopUnit
    <2>3. CASE ReadPid # None /\ TermServe(ReadPid, {})
        BY <1>10, <2>1, <2>3 DEF RouteStop, TermServe, ServeDies, RoundsDie, UnitAfter
    <2>4. CASE UNCHANGED <<serves, rounds, files, locks, systemd>>
        BY <1>10, <2>4 DEF RouteStop
    <2> QED
        BY <1>10, <2>2, <2>3, <2>4 DEF RouteStop
<1>11. CASE KillUnit
    <2> DEFINE R == UnarmedRounds({r \in Rounds : parent[r] = main})
    <2>1. CASE main # None /\ TermServe(main, R)
        <3> HIDE DEF R
        <3> QED
            BY <1>11, <2>1 DEF KillUnit, TermServe, ServeDies, RoundsDie, UnitAfter
    <2>2. CASE UNCHANGED <<serves, rounds, files, locks, systemd>>
        BY <1>11, <2>2 DEF KillUnit
    <2> QED
        BY <1>11, <2>1, <2>2 DEF KillUnit
<1>12. CASE UnitGrace \/ ServeGrace
    BY <1>12 DEF UnitGrace, ServeGrace, AskedAfterKill, Continue, Done, ServeDies,
        RoundsDie, UnitAfter
<1>13. CASE KillPlain
    <2>1. ReadPid \in Serves \cup {None}
        BY DEF ReadPid
    <2> QED
        BY <1>13, <2>1 DEF KillPlain, AskedAfterKill, Continue, Done, TermServe, ServeDies,
            RoundsDie, UnitAfter
<1>14. CASE UnitRefused \/ SystemctlFails
    BY <1>14 DEF UnitRefused, SystemctlFails, StartRefused, Done
<1> QED
    BY <1>1, <1>2, <1>3, <1>4, <1>5, <1>6, <1>7, <1>8, <1>9, <1>10, <1>11, <1>12, <1>13,
       <1>14
    DEF Next, ServeNext, VerbNext

(* A step keeps the flags Boolean.                                         *)
LEMMA FlagStep == TypeOK /\ [Next]_vars => FlagTypes'
<1> SUFFICES ASSUME FlagTypes, [Next]_vars PROVE FlagTypes'
    BY DEF TypeOK
<1> USE DEF FlagTypes, serves, rounds, files, locks, systemd, cli
<1>1. CASE UNCHANGED vars
    BY <1>1, Zenon DEF vars
<1>2. ASSUME NEW s \in Serves, HandLaunch(s) \/ UnitStarts(s) PROVE FlagTypes'
    BY <1>2, Zenon DEF HandLaunch, UnitStarts, MainBegins, Begin
<1>3. ASSUME NEW s \in Serves, ArmSignals(s) \/ WritePid(s) \/ PassGates(s)
      PROVE  FlagTypes'
    BY <1>3, Zenon DEF ArmSignals, WritePid, PassGates
<1>4. ASSUME NEW s \in Serves, SpawnChild(s) \/ RoundOver(s) \/ UnlinkPid(s)
      PROVE  FlagTypes'
    BY <1>4, Zenon DEF SpawnChild, RoundOver, UnlinkPid
<1>5. ASSUME NEW s \in Serves,
             \/ AcquireServeLock(s) \/ BootFails(s) \/ ReleaseServeLock(s)
             \/ ServeCrashes(s)
      PROVE  FlagTypes'
    BY <1>5, Zenon DEF AcquireServeLock, BootFails, ReleaseServeLock, ServeCrashes,
        ServeDies
<1>6. ASSUME NEW r \in Rounds, RoundNext(r) PROVE FlagTypes'
    BY <1>6, Zenon DEF RoundNext, AcquireRoundLock, WriteHolderSidecar, UnlinkHolder,
        ReleaseRoundLock
<1>7. ASSUME NEW v \in Verbs, Invoke(v) PROVE FlagTypes'
    BY <1>7, Zenon DEF Invoke
<1>8. CASE Admit \/ ConfirmStop \/ RoundGrace
    BY <1>8, Zenon DEF Admit, ConfirmStop, RoundGrace, Done, Continue
<1>9. CASE FindRound
    BY <1>9, Zenon DEF FindRound
<1>10. CASE RouteStart \/ Respawn
    BY <1>10, Zenon DEF RouteStart, Respawn, StartVerb, StartRefused,
        MainBegins, Begin, Done
<1>11. CASE RouteStop
    BY <1>11, Zenon DEF RouteStop, StopUnit, TermServe, ServeDies
<1>12. CASE KillUnit
    BY <1>12, Zenon DEF KillUnit, TermServe, ServeDies
<1>13. CASE UnitGrace \/ ServeGrace
    BY <1>13, Zenon DEF UnitGrace, ServeGrace, Continue, Done, ServeDies
<1>14. CASE KillPlain
    BY <1>14, Zenon DEF KillPlain, Continue, Done, TermServe, ServeDies
<1>15. CASE UnitRefused \/ SystemctlFails
    BY <1>15, Zenon DEF UnitRefused, SystemctlFails, StartRefused, Done
<1> QED
    BY <1>1, <1>2, <1>3, <1>4, <1>5, <1>6, <1>7, <1>8, <1>9, <1>10, <1>11, <1>12, <1>13,
       <1>14, <1>15
    DEF Next, ServeNext, VerbNext

LEMMA ReadPidType == ValueTypes => ReadPid \in Serves \cup {None}
    BY DEF ValueTypes, ReadPid

(* Why serve.pid can be trusted: its writer holds serve.lock, and unlinks   *)
(* it before it lets the lock go.                                           *)
NamedUnderLock ==
    /\ \A s \in Serves : serve[s] \in HoldsServeLock => serve_lock = s
    /\ \A s \in Serves : serve[s] \in InLoop \cup {"unlink"} => pid_file = s

LEMMA NamedStep == TypeOK /\ NamedUnderLock /\ [Next]_vars => NamedUnderLock'
<1> SUFFICES ASSUME ValueTypes, NamedUnderLock, [Next]_vars PROVE NamedUnderLock'
    BY DEF TypeOK
<1> USE ServiceControlAssumption
    DEF ValueTypes, NamedUnderLock, InLoop, Armed, HoldsServeLock, HoldsRoundLock,
        Exits, Down, Up, AllVerbs, serves, rounds, files, locks, systemd, cli
<1>1. CASE UNCHANGED vars
    BY <1>1 DEF vars
<1>2. ASSUME NEW s \in Serves, HandLaunch(s) \/ UnitStarts(s) PROVE NamedUnderLock'
    BY <1>2 DEF HandLaunch, UnitStarts, MainBegins, Begin, FreshServe
<1>3. ASSUME NEW s \in Serves, ArmSignals(s) \/ WritePid(s) \/ PassGates(s)
      PROVE  NamedUnderLock'
    BY <1>3 DEF ArmSignals, WritePid, PassGates
<1>4. ASSUME NEW s \in Serves, SpawnChild(s) \/ RoundOver(s) \/ UnlinkPid(s)
      PROVE  NamedUnderLock'
    BY <1>4 DEF SpawnChild, RoundOver, UnlinkPid, FreshRound
<1>5. ASSUME NEW s \in Serves,
             \/ AcquireServeLock(s) \/ BootFails(s) \/ ReleaseServeLock(s)
             \/ ServeCrashes(s)
      PROVE  NamedUnderLock'
    BY <1>5 DEF AcquireServeLock, BootFails, ReleaseServeLock, ServeCrashes, ServeDies,
        RoundsDie
<1>6. ASSUME NEW r \in Rounds, RoundNext(r) PROVE NamedUnderLock'
    BY <1>6 DEF RoundNext, AcquireRoundLock, WriteHolderSidecar, UnlinkHolder,
        ReleaseRoundLock, RoundsDie
<1>7. ASSUME NEW v \in Verbs, Invoke(v) PROVE NamedUnderLock'
    BY <1>7 DEF Invoke
<1>8. CASE Admit \/ ConfirmStop \/ FindRound \/ RoundGrace
    BY <1>8 DEF Admit, ConfirmStop, FindRound, RoundGrace, Done, Continue, RoundsDie
<1>9. CASE RouteStart \/ Respawn
    BY <1>9 DEF RouteStart, Respawn, StartVerb, StartRefused,
        MainBegins, Begin, FreshServe
<1>10. CASE RouteStop
    BY <1>10, ReadPidType DEF RouteStop, StopUnit, TermServe, ServeDies, RoundsDie
<1>11. CASE KillUnit
    BY <1>11 DEF KillUnit, TermServe, ServeDies, RoundsDie
<1>12. CASE UnitGrace \/ ServeGrace
    BY <1>12 DEF UnitGrace, ServeGrace, Continue, Done, ServeDies, RoundsDie
<1>13. CASE KillPlain
    BY <1>13, ReadPidType DEF KillPlain, Continue, Done, TermServe, ServeDies, RoundsDie
<1>14. CASE UnitRefused \/ SystemctlFails
    BY <1>14 DEF UnitRefused, SystemctlFails, StartRefused, Done
<1> QED
    BY <1>1, <1>2, <1>3, <1>4, <1>5, <1>6, <1>7, <1>8, <1>9, <1>10, <1>11, <1>12, <1>13,
       <1>14
    DEF Next, ServeNext, VerbNext

(* The same for the sidecar, under the round lock.                          *)
HeldUnderLock ==
    /\ \A r \in Rounds : round[r] \in HoldsRoundLock => round_lock = r
    /\ \A r \in Rounds : round[r] = "running" => holder = r

LEMMA HeldStep == TypeOK /\ HeldUnderLock /\ [Next]_vars => HeldUnderLock'
<1> SUFFICES ASSUME ValueTypes, HeldUnderLock, [Next]_vars PROVE HeldUnderLock'
    BY DEF TypeOK
<1> USE ServiceControlAssumption
    DEF ValueTypes, HeldUnderLock, InLoop, Armed, HoldsServeLock, HoldsRoundLock,
        Exits, Down, Up, AllVerbs, serves, rounds, files, locks, systemd, cli
<1>1. CASE UNCHANGED vars
    BY <1>1 DEF vars
<1>2. ASSUME NEW s \in Serves, HandLaunch(s) \/ UnitStarts(s) PROVE HeldUnderLock'
    BY <1>2 DEF HandLaunch, UnitStarts, MainBegins, Begin, FreshServe
<1>3. ASSUME NEW s \in Serves, ArmSignals(s) \/ WritePid(s) \/ PassGates(s)
      PROVE  HeldUnderLock'
    BY <1>3 DEF ArmSignals, WritePid, PassGates
<1>4. ASSUME NEW s \in Serves, SpawnChild(s) \/ RoundOver(s) \/ UnlinkPid(s)
      PROVE  HeldUnderLock'
    BY <1>4 DEF SpawnChild, RoundOver, UnlinkPid, FreshRound
<1>5. ASSUME NEW s \in Serves,
             \/ AcquireServeLock(s) \/ BootFails(s) \/ ReleaseServeLock(s)
             \/ ServeCrashes(s)
      PROVE  HeldUnderLock'
    BY <1>5 DEF AcquireServeLock, BootFails, ReleaseServeLock, ServeCrashes, ServeDies,
        RoundsDie
<1>6. ASSUME NEW r \in Rounds, RoundNext(r) PROVE HeldUnderLock'
    BY <1>6 DEF RoundNext, AcquireRoundLock, WriteHolderSidecar, UnlinkHolder,
        ReleaseRoundLock, RoundsDie
<1>7. ASSUME NEW v \in Verbs, Invoke(v) PROVE HeldUnderLock'
    BY <1>7 DEF Invoke
<1>8. CASE Admit \/ ConfirmStop \/ FindRound \/ RoundGrace
    BY <1>8 DEF Admit, ConfirmStop, FindRound, RoundGrace, Done, Continue, RoundsDie
<1>9. CASE RouteStart \/ Respawn
    BY <1>9 DEF RouteStart, Respawn, StartVerb, StartRefused,
        MainBegins, Begin, FreshServe
<1>10. CASE RouteStop
    BY <1>10, ReadPidType DEF RouteStop, StopUnit, TermServe, ServeDies, RoundsDie
<1>11. CASE KillUnit
    <2> DEFINE R == UnarmedRounds({r \in Rounds : parent[r] = main})
    <2>1. CASE main # None /\ TermServe(main, R)
        <3> HIDE DEF R
        <3> QED
            BY <1>11, <2>1 DEF KillUnit, TermServe, ServeDies, RoundsDie
    <2>2. CASE UNCHANGED <<serves, rounds, files, locks, systemd>>
        BY <1>11, <2>2 DEF KillUnit
    <2> QED
        BY <1>11, <2>1, <2>2 DEF KillUnit
<1>12. CASE UnitGrace \/ ServeGrace
    BY <1>12 DEF UnitGrace, ServeGrace, Continue, Done, ServeDies, RoundsDie
<1>13. CASE KillPlain
    BY <1>13, ReadPidType DEF KillPlain, Continue, Done, TermServe, ServeDies, RoundsDie
<1>14. CASE UnitRefused \/ SystemctlFails
    BY <1>14 DEF UnitRefused, SystemctlFails, StartRefused, Done
<1> QED
    BY <1>1, <1>2, <1>3, <1>4, <1>5, <1>6, <1>7, <1>8, <1>9, <1>10, <1>11, <1>12, <1>13,
       <1>14
    DEF Next, ServeNext, VerbNext

(* Whose rounds are alive: those of a serve that waits for one, and those   *)
(* of a serve that is gone; and what serve.pid may name.                    *)
ParentsWait ==
    /\ \A r \in Rounds, s \in Serves :
          parent[r] = s => serve[s] \in {"wait", "none"}
    /\ \A s \in Serves :
          pid_file = s => serve[s] \in InLoop \cup {"unlink", "none"}

LEMMA ParentsStep ==
    TypeOK /\ NamedUnderLock /\ ParentsWait /\ [Next]_vars => ParentsWait'
<1> SUFFICES ASSUME ValueTypes, NamedUnderLock, ParentsWait, [Next]_vars
             PROVE  ParentsWait'
    BY DEF TypeOK
<1> USE ServiceControlAssumption
    DEF ValueTypes, NamedUnderLock, ParentsWait, InLoop, Armed, HoldsServeLock, HoldsRoundLock,
        Exits, Down, Up, AllVerbs, serves, rounds, files, locks, systemd, cli
<1>1. CASE UNCHANGED vars
    BY <1>1 DEF vars
<1>2. ASSUME NEW s \in Serves, HandLaunch(s) \/ UnitStarts(s) PROVE ParentsWait'
    BY <1>2 DEF HandLaunch, UnitStarts, MainBegins, Begin, FreshServe
<1>3. ASSUME NEW s \in Serves, ArmSignals(s) \/ WritePid(s) \/ PassGates(s)
      PROVE  ParentsWait'
    BY <1>3 DEF ArmSignals, WritePid, PassGates
<1>4. ASSUME NEW s \in Serves, SpawnChild(s) \/ RoundOver(s) \/ UnlinkPid(s)
      PROVE  ParentsWait'
    BY <1>4 DEF SpawnChild, RoundOver, UnlinkPid, FreshRound
<1>5. ASSUME NEW s \in Serves,
             \/ AcquireServeLock(s) \/ BootFails(s) \/ ReleaseServeLock(s)
             \/ ServeCrashes(s)
      PROVE  ParentsWait'
    BY <1>5 DEF AcquireServeLock, BootFails, ReleaseServeLock, ServeCrashes, ServeDies,
        RoundsDie
<1>6. ASSUME NEW r \in Rounds, RoundNext(r) PROVE ParentsWait'
    BY <1>6 DEF RoundNext, AcquireRoundLock, WriteHolderSidecar, UnlinkHolder,
        ReleaseRoundLock, RoundsDie
<1>7. ASSUME NEW v \in Verbs, Invoke(v) PROVE ParentsWait'
    BY <1>7 DEF Invoke
<1>8. CASE Admit \/ ConfirmStop \/ FindRound \/ RoundGrace
    BY <1>8 DEF Admit, ConfirmStop, FindRound, RoundGrace, Done, Continue, RoundsDie
<1>9. CASE RouteStart \/ Respawn
    BY <1>9 DEF RouteStart, Respawn, StartVerb, StartRefused,
        MainBegins, Begin, FreshServe
<1>10. CASE RouteStop
    BY <1>10, ReadPidType DEF RouteStop, StopUnit, TermServe, ServeDies, RoundsDie
<1>11. CASE KillUnit
    <2> DEFINE R == UnarmedRounds({r \in Rounds : parent[r] = main})
    <2>1. CASE main # None /\ TermServe(main, R)
        <3> HIDE DEF R
        <3> QED
            BY <1>11, <2>1 DEF KillUnit, TermServe, ServeDies, RoundsDie
    <2>2. CASE UNCHANGED <<serves, rounds, files, locks, systemd>>
        BY <1>11, <2>2 DEF KillUnit
    <2> QED
        BY <1>11, <2>1, <2>2 DEF KillUnit
<1>12. CASE UnitGrace \/ ServeGrace
    BY <1>12 DEF UnitGrace, ServeGrace, Continue, Done, ServeDies, RoundsDie
<1>13. CASE KillPlain
    BY <1>13, ReadPidType DEF KillPlain, Continue, Done, TermServe, ServeDies, RoundsDie
<1>14. CASE UnitRefused \/ SystemctlFails
    BY <1>14 DEF UnitRefused, SystemctlFails, StartRefused, Done
<1> QED
    BY <1>1, <1>2, <1>3, <1>4, <1>5, <1>6, <1>7, <1>8, <1>9, <1>10, <1>11, <1>12, <1>13,
       <1>14
    DEF Next, ServeNext, VerbNext

(* A verb that ends processes by force has said so.                         *)
KillIsForced ==
    vpc \in {"unit_grace", "holder", "round_grace", "serve_grace"} => forced = TRUE

LEMMA ForcedStep == TypeOK /\ KillIsForced /\ [Next]_vars => KillIsForced'
<1> SUFFICES ASSUME ValueTypes, KillIsForced, [Next]_vars PROVE KillIsForced'
    BY DEF TypeOK
<1> USE DEF KillIsForced, cli
<1>1. CASE UNCHANGED vars
    BY <1>1 DEF vars
<1>2. ASSUME NEW s \in Serves, HandLaunch(s) \/ UnitStarts(s) PROVE KillIsForced'
    BY <1>2 DEF HandLaunch, UnitStarts
<1>3. ASSUME NEW s \in Serves, ServeNext(s) \/ BootFails(s) \/ ServeCrashes(s)
      PROVE  KillIsForced'
    BY <1>3 DEF ServeNext, AcquireServeLock, ArmSignals, WritePid, PassGates,
        SpawnChild, RoundOver, UnlinkPid, ReleaseServeLock, BootFails, ServeCrashes
<1>4. ASSUME NEW r \in Rounds, RoundNext(r) PROVE KillIsForced'
    BY <1>4 DEF RoundNext, AcquireRoundLock, WriteHolderSidecar, UnlinkHolder,
        ReleaseRoundLock
<1>5. ASSUME NEW v \in Verbs, Invoke(v) PROVE KillIsForced'
    BY <1>5 DEF Invoke
<1>6. CASE Admit \/ RouteStart \/ RouteStop \/ ConfirmStop \/ Respawn
    BY <1>6 DEF Admit, RouteStart, RouteStop, ConfirmStop, Respawn, Done, Continue
<1>7. CASE KillUnit \/ UnitGrace \/ KillPlain \/ FindRound \/ RoundGrace \/ ServeGrace
    BY <1>7 DEF KillUnit, UnitGrace, KillPlain, FindRound, RoundGrace, ServeGrace, Done,
        Continue
<1>8. CASE UnitRefused \/ SystemctlFails
    BY <1>8 DEF UnitRefused, SystemctlFails, StartRefused, Done
<1> QED
    BY <1>1, <1>2, <1>3, <1>4, <1>5, <1>6, <1>7, <1>8 DEF Next, VerbNext

Drains(r) == round[r] \in {"locked", "running"} /\ round'[r] = "none" => forced'

(* A serve that goes on its own account has no round left.                  *)
LEMMA DrainStep ==
    ASSUME TypeOK, NamedUnderLock, ParentsWait, KillIsForced, [Next]_vars,
           NEW r \in Rounds
    PROVE  Drains(r)
<1> SUFFICES ASSUME round[r] \in {"locked", "running"}, round'[r] = "none"
             PROVE  forced' = TRUE
    BY DEF Drains
<1> USE ServiceControlAssumption
    DEF TypeOK, ValueTypes, ParentsWait, serves, rounds, files, locks, systemd, cli
<1>1. CASE UNCHANGED vars
    BY <1>1 DEF vars
<1>2. ASSUME NEW s \in Serves, HandLaunch(s) \/ UnitStarts(s) PROVE FALSE
    BY <1>2 DEF HandLaunch, UnitStarts
<1>3. ASSUME NEW s \in Serves,
             \/ ArmSignals(s) \/ WritePid(s) \/ PassGates(s) \/ SpawnChild(s)
             \/ RoundOver(s) \/ UnlinkPid(s)
      PROVE  FALSE
    BY <1>3 DEF ArmSignals, WritePid, PassGates, SpawnChild, RoundOver, UnlinkPid
<1>4. ASSUME NEW s \in Serves, AcquireServeLock(s) \/ BootFails(s) \/ ReleaseServeLock(s)
      PROVE  FALSE
    BY <1>4 DEF AcquireServeLock, BootFails, ReleaseServeLock, ServeDies, RoundsDie,
        LeftInCgroup
<1>5. ASSUME NEW s \in Serves, ServeCrashes(s) PROVE forced' = TRUE
    BY <1>5 DEF ServeCrashes
<1>6. ASSUME NEW q \in Rounds, RoundNext(q) PROVE FALSE
    BY <1>6 DEF RoundNext, AcquireRoundLock, WriteHolderSidecar, UnlinkHolder,
        ReleaseRoundLock, RoundsDie
<1>7. ASSUME NEW v \in Verbs, Invoke(v) PROVE FALSE
    BY <1>7 DEF Invoke
<1>8. CASE Admit \/ ConfirmStop \/ FindRound \/ RouteStart \/ Respawn
    BY <1>8 DEF Admit, ConfirmStop, FindRound, RouteStart, Respawn, StartVerb, StartRefused
<1>9. CASE RouteStop
    <2>1. CASE StopUnit
        BY <2>1 DEF StopUnit
    <2>2. CASE ReadPid # None /\ TermServe(ReadPid, {})
        <3>1. ReadPid \in Serves /\ serve[ReadPid] \in InLoop \cup {"unlink"}
            BY <2>2 DEF ReadPid
        <3> QED
            BY <2>2, <3>1 DEF TermServe, RoundsDie, InLoop
    <2>3. CASE UNCHANGED <<serves, rounds, files, locks, systemd>>
        BY <2>3
    <2> QED
        BY <1>9, <2>1, <2>2, <2>3 DEF RouteStop
<1>10. CASE KillUnit \/ KillPlain
    <2>1. CASE forced' = TRUE
        BY <2>1
    <2>2. CASE UNCHANGED rounds
        BY <2>2
    <2> QED
        BY <1>10, <2>1, <2>2 DEF KillUnit, KillPlain
<1>11. CASE UnitGrace \/ RoundGrace \/ ServeGrace
    BY <1>11 DEF UnitGrace, RoundGrace, ServeGrace, KillIsForced
<1>12. CASE UnitRefused \/ SystemctlFails
    BY <1>12 DEF UnitRefused, SystemctlFails, StartRefused, Done
<1> QED
    BY <1>1, <1>2, <1>3, <1>4, <1>5, <1>6, <1>7, <1>8, <1>9, <1>10, <1>11, <1>12
    DEF Next, ServeNext, VerbNext

(* A serve has one round at a time, and a dead round has no parent.         *)
OneChild ==
    /\ \A r, q \in Rounds, s \in Serves : parent[r] = s /\ parent[q] = s => r = q
    /\ \A r \in Rounds : round[r] = "none" => parent[r] = None

LEMMA ChildStep ==
    TypeOK /\ ParentsWait /\ OneChild /\ [Next]_vars => OneChild'
<1> SUFFICES ASSUME ValueTypes, ParentsWait, OneChild, [Next]_vars PROVE OneChild'
    BY DEF TypeOK
<1> USE ServiceControlAssumption
    DEF ValueTypes, OneChild, ParentsWait, HoldsRoundLock, serves, rounds, files, locks,
        systemd
<1>1. CASE UNCHANGED rounds
    BY <1>1
<1>2. ASSUME NEW s \in Serves, SpawnChild(s) PROVE OneChild'
    BY <1>2 DEF SpawnChild, FreshRound
<1>3. ASSUME NEW R, RoundsDie(R) PROVE OneChild'
    BY <1>3 DEF RoundsDie
<1>4. ASSUME NEW r \in Rounds, RoundNext(r) PROVE OneChild'
    BY <1>4, <1>3 DEF RoundNext, AcquireRoundLock, WriteHolderSidecar, UnlinkHolder,
        ReleaseRoundLock
<1>5. ASSUME NEW s, NEW how, NEW R, ServeDies(s, how, R) PROVE OneChild'
    BY <1>5, <1>3 DEF ServeDies
<1>6. ASSUME NEW s, NEW R, TermServe(s, R) PROVE OneChild'
    BY <1>6, <1>3, <1>5 DEF TermServe
<1>7. ASSUME NEW s \in Serves,
             HandLaunch(s) \/ ServeNext(s) \/ BootFails(s) \/ ServeCrashes(s)
             \/ UnitStarts(s)
      PROVE  OneChild'
    BY <1>7, <1>1, <1>2, <1>5
    DEF HandLaunch, ServeNext, AcquireServeLock, ArmSignals, WritePid, PassGates,
        RoundOver, UnlinkPid, ReleaseServeLock, BootFails, ServeCrashes, UnitStarts
<1>8. ASSUME NEW v \in Verbs, Invoke(v) PROVE OneChild'
    BY <1>8, <1>1 DEF Invoke
<1>9. CASE Admit \/ RouteStart \/ RouteStop \/ ConfirmStop \/ Respawn
    BY <1>9, <1>1, <1>6 DEF Admit, RouteStart, RouteStop, ConfirmStop, Respawn, StartVerb,
        StartRefused,
        StopUnit
<1>10. CASE KillUnit \/ UnitGrace \/ KillPlain \/ FindRound \/ RoundGrace \/ ServeGrace
    BY <1>10, <1>1, <1>3, <1>5, <1>6 DEF KillUnit, UnitGrace, KillPlain, FindRound,
        RoundGrace, ServeGrace
<1>11. CASE UnitRefused \/ SystemctlFails
    BY <1>11 DEF UnitRefused, SystemctlFails, StartRefused, Done
<1> QED
    BY <1>1, <1>4, <1>7, <1>8, <1>9, <1>10, <1>11 DEF Next, VerbNext, vars

(* kill has signalled the serve it is about to rob of its round.            *)
Signalled ==
    vpc \in {"holder", "round_grace", "serve_grace"} =>
       /\ target \in Serves
       /\ serve[target] \in InLoop \cup {"unlink", "release", "none"}
       /\ serve[target] # "none" => stop[target] = TRUE

(* A signalled serve whose round kill found will not start another one.     *)
FoundIsLast ==
    /\ vpc = "round_grace" => rtarget \in Rounds
    /\ vpc \in {"round_grace", "serve_grace"} /\ found = TRUE =>
          serve[target] \in {"wait", "unlink", "release", "none"}
    /\ vpc = "round_grace" /\ found = TRUE =>
          \A r \in Rounds : parent[r] = target => r = rtarget
    /\ vpc = "serve_grace" /\ found = TRUE =>
          \A r \in Rounds : parent[r] # target

LEMMA SignalledStep ==
    TypeOK /\ ParentsWait /\ Signalled /\ [Next]_vars => Signalled'
<1> SUFFICES ASSUME ValueTypes, FlagTypes, ParentsWait, Signalled, [Next]_vars
             PROVE  Signalled'
    BY DEF TypeOK
<1> USE ServiceControlAssumption
    DEF ValueTypes, FlagTypes, Signalled, InLoop, Armed, serves, rounds, files, locks,
        systemd, cli
<1>1. CASE UNCHANGED vars
    BY <1>1 DEF vars
<1>2. ASSUME NEW s \in Serves, HandLaunch(s) \/ UnitStarts(s) PROVE Signalled'
    BY <1>2 DEF HandLaunch, UnitStarts, MainBegins, Begin, FreshServe
<1>3. ASSUME NEW s \in Serves, ArmSignals(s) \/ WritePid(s) \/ PassGates(s)
      PROVE  Signalled'
    BY <1>3 DEF ArmSignals, WritePid, PassGates
<1>4. ASSUME NEW s \in Serves, SpawnChild(s) \/ RoundOver(s) \/ UnlinkPid(s)
      PROVE  Signalled'
    BY <1>4 DEF SpawnChild, RoundOver, UnlinkPid
<1>5. ASSUME NEW s \in Serves,
             \/ AcquireServeLock(s) \/ BootFails(s) \/ ReleaseServeLock(s)
             \/ ServeCrashes(s)
      PROVE  Signalled'
    BY <1>5 DEF AcquireServeLock, BootFails, ReleaseServeLock, ServeCrashes, ServeDies,
        RoundsDie
<1>6. ASSUME NEW r \in Rounds, RoundNext(r) PROVE Signalled'
    BY <1>6 DEF RoundNext, AcquireRoundLock, WriteHolderSidecar, UnlinkHolder,
        ReleaseRoundLock, RoundsDie
<1>7. ASSUME NEW v \in Verbs, Invoke(v) PROVE Signalled'
    BY <1>7 DEF Invoke
<1>8. CASE Admit \/ ConfirmStop \/ RouteStart \/ RouteStop \/ KillUnit \/ UnitGrace
           \/ ServeGrace \/ Respawn
    BY <1>8 DEF Admit, ConfirmStop, RouteStart, RouteStop, KillUnit, UnitGrace,
        ServeGrace, Respawn, Continue, Done
<1>9. CASE FindRound \/ RoundGrace
    BY <1>9 DEF FindRound, RoundGrace
<1>10. CASE KillPlain
    <2>1. CASE ReadPid = None
        BY <1>10, <2>1 DEF KillPlain, Continue, Done
    <2>2. CASE ReadPid # None
        <3>1. ReadPid \in Serves /\ serve[ReadPid] \in InLoop \cup {"unlink"}
            BY <2>2 DEF ReadPid, ParentsWait
        <3> QED
            BY <1>10, <2>2, <3>1 DEF KillPlain, TermServe
    <2> QED
        BY <2>1, <2>2
<1>11. CASE UnitRefused \/ SystemctlFails
    BY <1>11 DEF UnitRefused, SystemctlFails, StartRefused, Done
<1> QED
    BY <1>1, <1>2, <1>3, <1>4, <1>5, <1>6, <1>7, <1>8, <1>9, <1>10, <1>11
    DEF Next, ServeNext, VerbNext

LEMMA FoundStep ==
    TypeOK /\ ParentsWait /\ OneChild /\ Signalled /\ FoundIsLast /\ [Next]_vars
       => FoundIsLast'
<1> SUFFICES ASSUME ValueTypes, FlagTypes, ParentsWait, OneChild, Signalled,
                    FoundIsLast, [Next]_vars
             PROVE  FoundIsLast'
    BY DEF TypeOK
<1> USE ServiceControlAssumption
    DEF ValueTypes, FlagTypes, Signalled, FoundIsLast, InLoop, Armed, serves, rounds,
        files, locks, systemd, cli
<1>1. CASE UNCHANGED vars
    BY <1>1 DEF vars
<1>2. ASSUME NEW s \in Serves, HandLaunch(s) \/ UnitStarts(s) PROVE FoundIsLast'
    BY <1>2 DEF HandLaunch, UnitStarts, MainBegins, Begin, FreshServe
<1>3. ASSUME NEW s \in Serves, ArmSignals(s) \/ WritePid(s) \/ PassGates(s)
      PROVE  FoundIsLast'
    BY <1>3 DEF ArmSignals, WritePid, PassGates
<1>4. ASSUME NEW s \in Serves, SpawnChild(s) \/ RoundOver(s) \/ UnlinkPid(s)
      PROVE  FoundIsLast'
    BY <1>4 DEF SpawnChild, RoundOver, UnlinkPid
<1>5. ASSUME NEW s \in Serves,
             \/ AcquireServeLock(s) \/ BootFails(s) \/ ReleaseServeLock(s)
             \/ ServeCrashes(s)
      PROVE  FoundIsLast'
    BY <1>5 DEF AcquireServeLock, BootFails, ReleaseServeLock, ServeCrashes, ServeDies,
        RoundsDie
<1>6. ASSUME NEW r \in Rounds, RoundNext(r) PROVE FoundIsLast'
    BY <1>6 DEF RoundNext, AcquireRoundLock, WriteHolderSidecar, UnlinkHolder,
        ReleaseRoundLock, RoundsDie
<1>7. ASSUME NEW v \in Verbs, Invoke(v) PROVE FoundIsLast'
    BY <1>7 DEF Invoke
<1>8. CASE Admit \/ ConfirmStop \/ RouteStart \/ RouteStop \/ KillUnit \/ UnitGrace
           \/ ServeGrace \/ Respawn
    <2>1. CASE Admit \/ ConfirmStop
        BY <2>1 DEF Admit, ConfirmStop, Continue, Done
    <2>2. CASE RouteStart \/ RouteStop
        BY <2>2 DEF RouteStart, RouteStop, Continue, Done
    <2>3. CASE KillUnit \/ UnitGrace
        BY <2>3 DEF KillUnit, UnitGrace, Continue, Done
    <2>4. CASE ServeGrace
        BY <2>4 DEF ServeGrace, Continue, Done
    <2>5. CASE Respawn
        BY <2>5 DEF Respawn, Continue, Done
    <2> QED
        BY <1>8, <2>1, <2>2, <2>3, <2>4, <2>5
<1>9. CASE FindRound
    <2>1. /\ vpc = "holder" /\ rtarget' = ReadHolder
          /\ UNCHANGED <<serve, parent, target>>
          /\ vpc' = IF ReadHolder # None THEN "round_grace" ELSE "serve_grace"
        BY <1>9 DEF FindRound
    <2>2. found' = TRUE => ReadHolder # None /\ parent[ReadHolder] = target
        BY <1>9 DEF FindRound
    <2>3. CASE ReadHolder = None
        BY <2>1, <2>2, <2>3
    <2>4. CASE ReadHolder # None
        <3>1. ReadHolder \in Rounds
            BY <2>4 DEF ReadHolder
        <3>2. target \in Serves
            BY <2>1
        <3> QED
            BY <2>1, <2>2, <2>4, <3>1, <3>2 DEF ParentsWait, OneChild
    <2> QED
        BY <2>3, <2>4
<1>10. CASE RoundGrace
    BY <1>10 DEF RoundGrace, RoundsDie, OneChild
<1>11. CASE KillPlain
    BY <1>11 DEF KillPlain, Continue, Done
<1>12. CASE UnitRefused \/ SystemctlFails
    BY <1>12 DEF UnitRefused, SystemctlFails, StartRefused, Done
<1> QED
    BY <1>1, <1>2, <1>3, <1>4, <1>5, <1>6, <1>7, <1>8, <1>9, <1>10, <1>11, <1>12
    DEF Next, ServeNext, VerbNext

(* The inductive invariant.                                                 *)
ServiceInv ==
    /\ TypeOK /\ NamedUnderLock /\ HeldUnderLock /\ ParentsWait
    /\ KillIsForced /\ OneChild /\ Signalled /\ FoundIsLast

LEMMA ServiceInvariant == Spec => []ServiceInv
<1>1. Init => ServiceInv
    <2> SUFFICES ASSUME Init PROVE ServiceInv
        OBVIOUS
    <2> USE ServiceControlAssumption
    <2>1. FlagTypes
        BY Zenon DEF Init, FlagTypes
    <2>2. ValueTypes
        BY DEF Init, ValueTypes, Exits, Down, Up
    <2>3. NamedUnderLock /\ HeldUnderLock /\ ParentsWait /\ OneChild
        BY DEF Init, NamedUnderLock, HeldUnderLock, ParentsWait, OneChild, InLoop, Armed,
            HoldsServeLock, HoldsRoundLock
    <2>4. KillIsForced /\ Signalled /\ FoundIsLast
        BY DEF Init, KillIsForced, Signalled, FoundIsLast
    <2> QED
        BY <2>1, <2>2, <2>3, <2>4 DEF ServiceInv, TypeOK
<1>2. ServiceInv /\ [Next]_vars => ServiceInv'
    BY ValueStep, FlagStep, NamedStep, HeldStep, ParentsStep, ForcedStep, ChildStep,
       SignalledStep, FoundStep
    DEF ServiceInv, TypeOK
<1> QED
    BY <1>1, <1>2, PTL DEF Spec

(* Types, for any number of processes.                                      *)
THEOREM ServiceTypes == Spec => []TypeOK
<1>1. ServiceInv => TypeOK
    BY DEF ServiceInv
<1> QED
    BY <1>1, ServiceInvariant, PTL

(* Whatever was started, crashed, or lost the race for serve.lock before,   *)
(* serve.pid names the serve that is in its loop.                           *)
THEOREM RunningServeIsNamed == Spec => []LoopIsNamed
<1>1. ServiceInv => LoopIsNamed
    BY DEF ServiceInv, NamedUnderLock, LoopIsNamed
<1> QED
    BY <1>1, ServiceInvariant, PTL

(* The .holder sidecar names the round that is running.                     *)
THEOREM RunningRoundIsNamed == Spec => []RoundIsNamed
<1>1. ServiceInv => RoundIsNamed
    BY DEF ServiceInv, HeldUnderLock, RoundIsNamed
<1> QED
    BY <1>1, ServiceInvariant, PTL

(* Without a kill or a crash no round that has its lock is cut short.       *)
THEOREM RoundsDrain == Spec => GracefulDrains
<1>1. ServiceInv /\ [Next]_vars => \A r \in Rounds : Drains(r)
    BY DrainStep DEF ServiceInv
<1>2. ServiceInv /\ [Next]_vars =>
        [\A r \in Rounds :
           round[r] \in {"locked", "running"} /\ round'[r] = "none" => forced']_vars
    BY <1>1 DEF Drains
<1> QED
    BY <1>2, ServiceInvariant, PTL DEF Spec, GracefulDrains

(* kill, having found the round of the serve it signalled, leaves no round  *)
(* of that serve behind.                                                    *)
THEOREM NoRoundReplacesTheFound == Spec => []FoundRoundEnds
<1>1. ServiceInv => FoundRoundEnds
    <2> SUFFICES ASSUME FoundIsLast, vpc = "serve_grace", found
                 PROVE  \A r \in Rounds : parent[r] # target
        BY DEF ServiceInv, FoundRoundEnds
    <2>1. found = TRUE
        OBVIOUS
    <2> QED
        BY <2>1 DEF FoundIsLast
<1> QED
    BY <1>1, ServiceInvariant, PTL
=============================================================================
