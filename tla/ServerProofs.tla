---------------------------- MODULE ServerProofs ----------------------------
(***************************************************************************)
(* Proofs about ServerControl: what a start leaves on the disk and what a  *)
(* server presents, what a migration leaves of the credentials, and which  *)
(* children the controller knows, for any number of processes, addresses   *)
(* and devices, and any budgets.                                           *)
(***************************************************************************)
EXTENDS ServerControl, TLAPS

(* The assumptions on the constants, by one name. *)
LEMMA Constants ==
  /\ Home \in Addresses
  /\ Backdate \in Nat /\ CaValidity \in Nat /\ Margin \in Nat /\ MaxLag \in Nat
  /\ LeafValidity \in Nat /\ LeafValidity > Margin + MaxLag
  /\ MaxGeneration \in Nat \ {0}
  /\ Versions \subseteq Nat
  /\ Budgets \in [Versions -> SUBSET [Spendings -> Nat]]
  BY TlsAssumption, MigrationAssumption, VersionsAssumption, BudgetAssumption

-----------------------------------------------------------------------------
(* The types. *)

ProcTypes == [stage : Stages, now : Nat, hosts : Addresses \cup {NoAddress},
              ca : CaCerts, leaf : LeafCerts, sent : CaCerts, seen : Nat]

FileTypes == [caCert : CaCerts, caKey : Nat, leaf : LeafCerts, chainCa : CaCerts,
              leafKey : Nat]

LEMMA EmptyTypes == /\ NoCa \in CaCerts
                    /\ NoLeaf \in LeafCerts
                    /\ Idle \in ProcTypes
  BY DEF NoCa, NoLeaf, Idle, CaCerts, LeafCerts, ProcTypes, NoKey, Stages

LEMMA NewTypes ==
  ASSUME NEW key \in Nat, NEW t \in Nat, NEW hosts \in Addresses \cup {NoAddress}, NEW ca \in CaCerts
  PROVE  /\ NewCa(key, t) \in CaCerts
         /\ NewLeaf(key, ca, hosts, t) \in LeafCerts
  BY Constants DEF NewCa, NewLeaf, CaCerts, LeafCerts

(* What a step may do to the processes, the files, the lock and the clock. *)
StandStill == UNCHANGED <<proc, tlsVars>>

LaunchStep(p) == ~Running(p) /\ proc' = Launched(p) /\ UNCHANGED tlsVars

EndStep(p) == Abandon(p) /\ UNCHANGED files

MigrateStep(p) ==
  /\ proc[p].stage = "migrate"
  /\ db' = Migrated(db, proc[p].seen)
  /\ proc' = [proc EXCEPT ![p] =
                IF MigrationFails(db, proc[p].seen) THEN Idle ELSE [@ EXCEPT !.stage = "load"]]
  /\ UNCHANGED tlsVars

VersionStep(p) ==
  /\ proc[p].stage = "version"
  /\ db.version <= LatestVersion
  /\ proc' = [proc EXCEPT ![p].seen = db.version,
                ![p].stage = IF db.version = LatestVersion THEN "load" ELSE "migrate"]
  /\ UNCHANGED tlsVars

AuthorityStep(p) ==
  /\ proc[p].stage = "authority"
  /\ proc' = [proc EXCEPT ![p].stage = "version", ![p].ca = files.caCert]
  /\ UNCHANGED tlsVars

ChainStep(p) ==
  /\ proc[p].stage = "load"
  /\ proc' = [proc EXCEPT ![p].stage = "pair", ![p].leaf = files.leaf, ![p].sent = files.chainCa]
  /\ UNCHANGED tlsVars

KeyStep(p) ==
  /\ proc[p].stage = "pair"
  /\ proc' = [proc EXCEPT ![p].stage = "ready"]
  /\ UNCHANGED tlsVars

ProcStep(p) == \/ LaunchStep(p)
               \/ EndStep(p)
               \/ Prepare(p)
               \/ LockUnavailable(p)
               \/ RestrictFails(p)
               \/ AuthorityStep(p)
               \/ VersionStep(p)
               \/ MigrateStep(p)
               \/ ChainStep(p)
               \/ KeyStep(p)

ProcNext == (\E p \in Procs : ProcStep(p)) \/ Tick \/ Move \/ StandStill

LEMMA StartSteps ==
  ASSUME SchemaTypeOK, NEW p \in Procs, Start(p)
  PROVE  ProcStep(p) \/ StandStill
<1>0. db.version > LatestVersion <=> ~(db.version <= LatestVersion)
  BY DEF SchemaTypeOK, LatestVersion
<1>1. CASE PrepareMaterial(p) BY <1>1 DEF PrepareMaterial, ProcStep
<1>2. CASE ReadAuthority(p) BY <1>2 DEF ReadAuthority, ProcStep, AuthorityStep
<1>3. CASE ReadVersion(p)
  BY <1>0, <1>3 DEF ReadVersion, Exit, ProcStep, EndStep, VersionStep
<1>4. CASE Migrate(p) BY <1>4 DEF Migrate, ProcStep, MigrateStep
<1>5. CASE LoadChain(p) BY <1>5 DEF LoadChain, ProcStep, ChainStep
<1>6. CASE LoadKey(p) BY <1>6 DEF LoadKey, Exit, ProcStep, EndStep, KeyStep
<1>7. CASE Bind(p) BY <1>7 DEF Bind, Exit, ProcStep, EndStep, StandStill
<1>8. QED BY <1>1, <1>2, <1>3, <1>4, <1>5, <1>6, <1>7 DEF Start

LEMMA StepsOfProcesses == SchemaTypeOK /\ [Next]_vars => ProcNext
<1> SUFFICES ASSUME SchemaTypeOK, [Next]_vars PROVE ProcNext
  OBVIOUS
<1>1. ASSUME NEW p \in Procs, Start(p) PROVE ProcStep(p) \/ StandStill
  BY <1>1, StartSteps
<1>2. ASSUME NEW p \in Procs, Launch(p) PROVE ProcStep(p)
  BY <1>2 DEF Launch, ProcStep, LaunchStep
<1>3. ASSUME NEW p \in Procs, Exit(p) PROVE ProcStep(p)
  BY <1>3 DEF Exit, ProcStep, EndStep
<1>4. ASSUME StartChild PROVE ProcNext
  BY <1>2, <1>4 DEF StartChild, ProcNext, StandStill, startVars
<1>5. ASSUME NEW p \in Procs,
             \/ LaunchByHand(p)
             \/ Crash(p)
             \/ Die(p)
             \/ Start(p) /\ Keep
             \/ FailToLock(p) /\ Keep
             \/ FailToRestrict(p) /\ Spend("crashes") /\ UNCHANGED controlVars
             \/ \E k \in Clients : (Pair(p, k) \/ Revoke(p, k)) /\ Spend("orders")
                                   /\ UNCHANGED controlVars
      PROVE  ProcNext
  <2>1. CASE LaunchByHand(p) BY <1>2, <2>1 DEF LaunchByHand, ProcNext
  <2>2. CASE Crash(p) BY <1>3, <2>2 DEF Crash, ProcNext
  <2>3. CASE Die(p) BY <1>3, <2>3 DEF Die, ProcNext
  <2>4. CASE Start(p) BY <1>1, <2>4 DEF ProcNext
  <2>5. CASE FailToLock(p) BY <2>5 DEF FailToLock, ProcNext, ProcStep
  <2>6. CASE FailToRestrict(p) BY <2>6 DEF FailToRestrict, ProcNext, ProcStep
  <2>7. CASE \E k \in Clients : Pair(p, k) \/ Revoke(p, k)
    BY <2>7 DEF Pair, Revoke, ProcNext, StandStill
  <2>8. QED BY <1>5, <2>1, <2>2, <2>3, <2>4, <2>5, <2>6, <2>7
<1>6. ASSUME \/ Pass
             \/ Readdress
      PROVE  ProcNext
  BY <1>6 DEF Pass, Readdress, ProcNext
<1>7. ASSUME MenuStart \/ WindowStarts PROVE ProcNext
  BY <1>4, <1>7 DEF MenuStart, WindowStarts
<1>8. ASSUME \/ MenuStop
             \/ MenuQuit
             \/ Ask
             \/ Stop
             \/ OpenWindow
             \/ WindowSeesCa \/ WindowSeesHealth \/ WindowGivesUp \/ WindowPosts
             \/ UNCHANGED vars
      PROVE  ProcNext
  BY <1>8 DEF MenuStop, MenuQuit, BeginStop, Ask, AskChild, AskFails, Stop, KillChild, EndStop, Leave, OpenWindow, WindowSeesCa,
              WindowSeesHealth, WindowGivesUp, WindowPosts, startVars, vars, ProcNext, StandStill
<1>9. QED BY <1>5, <1>6, <1>7, <1>8 DEF Next, Window

LEMMA ProcTyped == ASSUME TlsTypeOK PROVE proc \in [Procs -> ProcTypes] /\ files \in FileTypes
  BY DEF TlsTypeOK, ProcTypes, FileTypes

LEMMA TlsTypeStep == TlsTypeOK /\ ProcNext /\ (db.version \in Nat) => TlsTypeOK'
<1> SUFFICES ASSUME TlsTypeOK, ProcNext, db.version \in Nat PROVE TlsTypeOK'
  OBVIOUS
<1>0. proc \in [Procs -> ProcTypes] /\ files \in FileTypes
  BY ProcTyped
<1>1. ASSUME proc' \in [Procs -> ProcTypes], files' \in FileTypes, clock' \in Nat,
             address' \in Addresses, keys' \in Nat, materialLock' \subseteq Procs, torn' \in BOOLEAN
      PROVE  TlsTypeOK'
  BY <1>1 DEF TlsTypeOK, ProcTypes, FileTypes
<1>2. ASSUME NEW p \in Procs, ProcStep(p) PROVE TlsTypeOK'
  <2>1. ASSUME NEW pr \in ProcTypes, proc' = [proc EXCEPT ![p] = pr] PROVE proc' \in [Procs -> ProcTypes]
    BY <1>0, <2>1
  <2>2. proc[p] \in ProcTypes BY <1>0
  <2>3. CASE LaunchStep(p)
    <3>1. [proc[p] EXCEPT !.stage = "clock", !.now = clock, !.hosts = address] \in ProcTypes
      BY <2>2 DEF ProcTypes, Stages, TlsTypeOK
    <3>2. proc' = [proc EXCEPT ![p] = [proc[p] EXCEPT !.stage = "clock", !.now = clock, !.hosts = address]]
      BY <2>3 DEF LaunchStep, Launched
    <3>3. QED BY <1>0, <1>1, <2>1, <2>3, <3>1, <3>2 DEF LaunchStep, tlsVars, TlsTypeOK
  <2>4. CASE EndStep(p)
    BY <1>0, <1>1, <2>1, <2>4, EmptyTypes DEF EndStep, Abandon, TlsTypeOK
  <2>5. CASE LockUnavailable(p)
    BY <1>0, <1>1, <2>1, <2>5, EmptyTypes DEF LockUnavailable, tlsVars, TlsTypeOK
  <2>6. CASE RestrictFails(p)
    <3>a. proc[p].ca.key \in Nat /\ proc[p].leaf.key \in Nat
      BY <2>2 DEF ProcTypes, CaCerts, LeafCerts
    <3>b. /\ [files EXCEPT !.caKey = proc[p].ca.key] \in FileTypes
          /\ [files EXCEPT !.leafKey = proc[p].leaf.key] \in FileTypes
      BY <1>0, <3>a DEF FileTypes
    <3>1. files' \in FileTypes
      BY <2>6, <3>b DEF RestrictFails
    <3>2. QED BY <1>1, <2>1, <2>6, <3>1, EmptyTypes DEF RestrictFails, Abandon, TlsTypeOK
  <2>7. CASE AuthorityStep(p)
    <3>1. [proc[p] EXCEPT !.stage = "version", !.ca = files.caCert] \in ProcTypes
      BY <1>0, <2>2 DEF ProcTypes, Stages, FileTypes
    <3>2. QED BY <1>0, <1>1, <2>1, <2>7, <3>1 DEF AuthorityStep, tlsVars, TlsTypeOK
  <2>8. CASE VersionStep(p)
    <3>1. [proc[p] EXCEPT !.seen = db.version,
             !.stage = IF db.version = LatestVersion THEN "load" ELSE "migrate"] \in ProcTypes
      BY <2>2 DEF ProcTypes, Stages
    <3>2. QED BY <1>0, <1>1, <2>1, <2>8, <3>1 DEF VersionStep, tlsVars, TlsTypeOK
  <2>9. CASE MigrateStep(p)
    <3>1. (IF MigrationFails(db, proc[p].seen) THEN Idle ELSE [proc[p] EXCEPT !.stage = "load"]) \in ProcTypes
      BY <2>2, EmptyTypes DEF ProcTypes, Stages
    <3>2. QED BY <1>0, <1>1, <2>1, <2>9, <3>1 DEF MigrateStep, tlsVars, TlsTypeOK
  <2>10. CASE ChainStep(p)
    <3>1. [proc[p] EXCEPT !.stage = "pair", !.leaf = files.leaf, !.sent = files.chainCa] \in ProcTypes
      BY <1>0, <2>2 DEF ProcTypes, Stages, FileTypes
    <3>2. QED BY <1>0, <1>1, <2>1, <2>10, <3>1 DEF ChainStep, tlsVars, TlsTypeOK
  <2>11. CASE KeyStep(p)
    <3>1. [proc[p] EXCEPT !.stage = "ready"] \in ProcTypes
      BY <2>2 DEF ProcTypes, Stages
    <3>2. QED BY <1>0, <1>1, <2>1, <2>11, <3>1 DEF KeyStep, tlsVars, TlsTypeOK
  <2>12. CASE Prepare(p)
    <3>1. CASE CreateMaterial(p)
      <4> DEFINE ca == NewCa(keys + 1, proc[p].now)
                 leaf == NewLeaf(keys + 2, ca, proc[p].hosts, proc[p].now)
                 pr == [proc[p] EXCEPT !.stage = "caCert", !.ca = ca, !.leaf = leaf]
      <4>1. ca \in CaCerts
        BY <2>2, NewTypes DEF ProcTypes, TlsTypeOK
      <4>2. leaf \in LeafCerts
        <5>1. /\ keys + 1 \in Nat /\ keys + 2 \in Nat /\ proc[p].now \in Nat
              /\ proc[p].hosts \in Addresses \cup {NoAddress}
          BY <2>2 DEF ProcTypes, TlsTypeOK
        <5> HIDE DEF ca
        <5>2. QED BY <4>1, <5>1, NewTypes
      <4>3. proc' = [proc EXCEPT ![p] = pr]
        BY <3>1 DEF CreateMaterial
      <4> HIDE DEF ca, leaf
      <4>4. pr \in ProcTypes
        BY <2>2, <4>1, <4>2 DEF ProcTypes, Stages, LockStages, WriteStages
      <4>5. keys' \in Nat /\ materialLock' \subseteq Procs
        BY <3>1 DEF CreateMaterial, TakeLock, TlsTypeOK
      <4>6. QED BY <1>0, <1>1, <2>1, <3>1, <4>3, <4>4, <4>5 DEF CreateMaterial, TakeLock, TlsTypeOK
    <3>2. CASE RenewLeaf(p)
      <4> DEFINE leaf == NewLeaf(keys + 1, files.caCert, proc[p].hosts, proc[p].now)
                 pr == [proc[p] EXCEPT !.stage = "chain", !.ca = files.caCert, !.leaf = leaf]
      <4>1. files.caCert \in CaCerts
        BY <1>0 DEF FileTypes
      <4>2. leaf \in LeafCerts
        <5>1. /\ keys + 1 \in Nat /\ proc[p].now \in Nat
              /\ proc[p].hosts \in Addresses \cup {NoAddress}
          BY <2>2 DEF ProcTypes, TlsTypeOK
        <5>2. QED BY <4>1, <5>1, NewTypes
      <4>3. proc' = [proc EXCEPT ![p] = pr]
        BY <3>2 DEF RenewLeaf
      <4> HIDE DEF leaf
      <4>4. pr \in ProcTypes
        BY <2>2, <4>1, <4>2 DEF ProcTypes, Stages, LockStages, WriteStages
      <4>5. keys' \in Nat /\ materialLock' \subseteq Procs
        BY <3>2 DEF RenewLeaf, TakeLock, TlsTypeOK
      <4>6. QED BY <1>0, <1>1, <2>1, <3>2, <4>3, <4>4, <4>5 DEF RenewLeaf, TakeLock, TlsTypeOK
    <3>3. CASE KeepMaterial(p)
      <4>1. [proc[p] EXCEPT !.stage = "release"] \in ProcTypes
        BY <2>2 DEF ProcTypes, Stages, LockStages
      <4>2. QED BY <1>0, <1>1, <2>1, <3>3, <4>1 DEF KeepMaterial, TakeLock, TlsTypeOK
    <3>4. CASE RefuseMaterial(p)
      BY <1>0, <1>1, <2>1, <3>4, EmptyTypes DEF RefuseMaterial, tlsVars, TlsTypeOK
    <3>5. ASSUME NEW stage \in Stages, NEW next \in Stages, NEW replaced \in FileTypes,
                 WriteFile(p, stage, next, replaced)
          PROVE  TlsTypeOK'
      <4>1. [proc[p] EXCEPT !.stage = next] \in ProcTypes
        BY <2>2 DEF ProcTypes
      <4>2. QED BY <1>1, <2>1, <3>5, <4>1 DEF WriteFile, TlsTypeOK
    <3>6. /\ [files EXCEPT !.caCert = proc[p].ca] \in FileTypes
          /\ [files EXCEPT !.caKey = proc[p].ca.key] \in FileTypes
          /\ [files EXCEPT !.leaf = proc[p].leaf, !.chainCa = proc[p].ca] \in FileTypes
          /\ [files EXCEPT !.leafKey = proc[p].leaf.key] \in FileTypes
      BY <1>0, <2>2 DEF FileTypes, ProcTypes, CaCerts, LeafCerts
    <3>7. WriteStages \subseteq Stages /\ "release" \in Stages
      BY DEF Stages, LockStages
    <3>8. CASE WriteCaCert(p) \/ WriteCaKey(p) \/ WriteChain(p) \/ WriteLeafKey(p)
      BY <3>5, <3>6, <3>7, <3>8 DEF WriteCaCert, WriteCaKey, WriteChain, WriteLeafKey, WriteStages
    <3>9. CASE ReleaseLock(p)
      <4>1. [proc[p] EXCEPT !.stage = "authority", !.ca = NoCa, !.leaf = NoLeaf] \in ProcTypes
        BY <2>2, EmptyTypes DEF ProcTypes, Stages
      <4>2. QED BY <1>0, <1>1, <2>1, <3>9, <4>1 DEF ReleaseLock, TlsTypeOK
    <3>10. QED BY <2>12, <3>1, <3>2, <3>3, <3>4, <3>8, <3>9 DEF Prepare
  <2>13. QED BY <1>2, <2>3, <2>4, <2>5, <2>6, <2>7, <2>8, <2>9, <2>10, <2>11, <2>12 DEF ProcStep
<1>3. CASE Tick BY <1>0, <1>1, <1>3 DEF Tick, TlsTypeOK
<1>4. CASE Move BY <1>0, <1>1, <1>4 DEF Move, TlsTypeOK
<1>5. CASE StandStill BY <1>5 DEF StandStill, tlsVars, TlsTypeOK
<1>6. QED BY <1>2, <1>3, <1>4, <1>5 DEF ProcNext

-----------------------------------------------------------------------------
(* The file lock has one holder at most, which is a process in ensure. *)

LockInv == /\ \A p \in Procs : p \in materialLock <=> proc[p].stage \in LockStages
           /\ \A p, q \in materialLock : p = q

LEMMA OthersStay ==
  ASSUME TlsTypeOK, NEW p \in Procs, ProcStep(p), NEW q \in Procs, q # p
  PROVE  proc'[q] = proc[q]
<1>0. proc \in [Procs -> ProcTypes]
  BY ProcTyped
<1>1. CASE Prepare(p)
  BY <1>0, <1>1 DEF Prepare, CreateMaterial, RenewLeaf, KeepMaterial, RefuseMaterial, WriteCaCert, WriteCaKey,
                    WriteChain, WriteLeafKey, WriteFile, ReleaseLock
<1>2. CASE RestrictFails(p) \/ EndStep(p) \/ LockUnavailable(p)
  BY <1>0, <1>2 DEF RestrictFails, EndStep, Abandon, LockUnavailable
<1>3. CASE LaunchStep(p) \/ AuthorityStep(p) \/ VersionStep(p) \/ MigrateStep(p) \/ ChainStep(p) \/ KeyStep(p)
  BY <1>0, <1>3 DEF LaunchStep, Launched, AuthorityStep, VersionStep, MigrateStep, ChainStep, KeyStep
<1>4. QED BY <1>1, <1>2, <1>3 DEF ProcStep

(* How a step moves the lock, and the stage of its process. *)
LEMMA LockMoves ==
  ASSUME TlsTypeOK, NEW p \in Procs, ProcStep(p), LockInv
  PROVE  \/ /\ proc[p].stage \notin LockStages /\ materialLock = {}
            /\ proc'[p].stage \in LockStages /\ materialLock' = {p}
         \/ /\ proc'[p].stage \notin LockStages
            /\ materialLock' = materialLock \ {p}
         \/ /\ proc[p].stage \in LockStages /\ proc'[p].stage \in LockStages
            /\ materialLock' = materialLock
<1>0. proc \in [Procs -> ProcTypes]
  BY ProcTyped
<1>1. proc[p].stage \notin LockStages => materialLock = materialLock \ {p}
  BY DEF LockInv
<1>2. CASE CreateMaterial(p) \/ RenewLeaf(p) \/ KeepMaterial(p)
  <2>1. /\ proc[p].stage = "clock"
        /\ proc'[p].stage \in {"caCert", "chain", "release"}
        /\ materialLock = {}
        /\ materialLock' = materialLock \cup {p}
    <3>1. CASE CreateMaterial(p) BY <1>0, <3>1 DEF CreateMaterial, TakeLock, LockFree
    <3>2. CASE RenewLeaf(p) BY <1>0, <3>2 DEF RenewLeaf, TakeLock, LockFree
    <3>3. CASE KeepMaterial(p) BY <1>0, <3>3 DEF KeepMaterial, TakeLock, LockFree
    <3>4. QED BY <1>2, <3>1, <3>2, <3>3
  <2>2. QED BY <2>1 DEF LockStages, WriteStages
<1>3. CASE WriteCaCert(p) \/ WriteCaKey(p) \/ WriteChain(p) \/ WriteLeafKey(p)
  <2>1. /\ proc[p].stage \in WriteStages
        /\ proc'[p].stage \in {"caKey", "chain", "leafKey", "release"}
        /\ materialLock' = materialLock
    <3>1. CASE WriteCaCert(p) BY <1>0, <3>1 DEF WriteCaCert, WriteFile, WriteStages
    <3>2. CASE WriteCaKey(p) BY <1>0, <3>2 DEF WriteCaKey, WriteFile, WriteStages
    <3>3. CASE WriteChain(p) BY <1>0, <3>3 DEF WriteChain, WriteFile, WriteStages
    <3>4. CASE WriteLeafKey(p) BY <1>0, <3>4 DEF WriteLeafKey, WriteFile, WriteStages
    <3>5. QED BY <1>3, <3>1, <3>2, <3>3, <3>4
  <2>2. QED BY <2>1 DEF LockStages, WriteStages
<1>4. CASE ReleaseLock(p)
  BY <1>0, <1>4 DEF ReleaseLock, LockStages, WriteStages
<1>5. CASE RestrictFails(p) \/ EndStep(p)
  BY <1>0, <1>5 DEF RestrictFails, EndStep, Abandon, Idle, LockStages, WriteStages
<1>6. CASE LockUnavailable(p) \/ RefuseMaterial(p)
  BY <1>0, <1>1, <1>6 DEF LockUnavailable, RefuseMaterial, Idle, LockStages, WriteStages, tlsVars
<1>7. CASE MigrateStep(p)
  BY <1>0, <1>1, <1>7 DEF MigrateStep, Idle, LockStages, WriteStages, tlsVars
<1>8. CASE LaunchStep(p)
  BY <1>0, <1>1, <1>8 DEF LaunchStep, Launched, Running, LockStages, WriteStages, tlsVars
<1>9. CASE AuthorityStep(p) \/ VersionStep(p) \/ ChainStep(p) \/ KeyStep(p)
  <2>1. /\ proc[p].stage \in {"authority", "version", "load", "pair"}
        /\ proc'[p].stage \in {"version", "load", "migrate", "pair", "ready"}
        /\ materialLock' = materialLock
    <3>1. CASE AuthorityStep(p) BY <1>0, <3>1 DEF AuthorityStep, tlsVars
    <3>2. CASE VersionStep(p) BY <1>0, <3>2 DEF VersionStep, tlsVars
    <3>3. CASE ChainStep(p) BY <1>0, <3>3 DEF ChainStep, tlsVars
    <3>4. CASE KeyStep(p) BY <1>0, <3>4 DEF KeyStep, tlsVars
    <3>5. QED BY <1>9, <3>1, <3>2, <3>3, <3>4
  <2>2. QED BY <1>1, <2>1 DEF LockStages, WriteStages
<1>10. QED
  BY <1>2, <1>3, <1>4, <1>5, <1>6, <1>7, <1>8, <1>9 DEF ProcStep, Prepare

LEMMA LockStep == TlsTypeOK /\ LockInv /\ ProcNext => LockInv'
<1> SUFFICES ASSUME TlsTypeOK, LockInv, ProcNext PROVE LockInv'
  OBVIOUS
<1>1. ASSUME NEW p \in Procs, ProcStep(p) PROVE LockInv'
  <2>1. \A q \in Procs : q # p => proc'[q] = proc[q]
    BY <1>1, OthersStay
  <2>2. materialLock \subseteq Procs
    BY DEF TlsTypeOK
  <2>3. QED BY <1>1, <2>1, <2>2, LockMoves DEF LockInv
<1>2. CASE Tick BY <1>2 DEF Tick, LockInv
<1>3. CASE Move BY <1>3 DEF Move, LockInv
<1>4. CASE StandStill BY <1>4 DEF StandStill, tlsVars, LockInv
<1>5. QED BY <1>1, <1>2, <1>3, <1>4 DEF ProcNext

-----------------------------------------------------------------------------
(* What is on the disk, and what each process holds of it. *)

AfterAuthority == {"version", "migrate", "load", "pair", "ready"}
AfterLock == {"authority"} \cup AfterAuthority

ChainFits == files.leaf.key # NoKey => /\ files.chainCa = files.caCert
                                       /\ files.leaf.issuer = files.caCert.key
                                       /\ files.caCert.key # NoKey

Stand(p) ==
  /\ proc[p].stage \in WriteStages => /\ proc[p].leaf.key # NoKey
                                      /\ proc[p].leaf.issuer = proc[p].ca.key
                                      /\ proc[p].ca.key # NoKey
  /\ proc[p].stage = "caCert" => NonePresent
  /\ proc[p].stage = "caKey" => /\ proc[p].ca = files.caCert
                                /\ files.caKey = NoKey
                                /\ files.leaf.key = NoKey
                                /\ files.leafKey = NoKey
  /\ proc[p].stage = "chain" => /\ proc[p].ca = files.caCert
                                /\ files.caKey = proc[p].ca.key
                                /\ \/ files.leaf.key = NoKey /\ files.leafKey = NoKey
                                   \/ FilesFit
  /\ proc[p].stage = "leafKey" => /\ proc[p].ca = files.caCert
                                  /\ files.caKey = proc[p].ca.key
                                  /\ files.leaf = proc[p].leaf
                                  /\ files.chainCa = proc[p].ca
  /\ proc[p].stage = "release" => FilesFit
  /\ proc[p].stage \in AfterLock => files.leaf.key # NoKey
  /\ proc[p].stage \in AfterAuthority => proc[p].ca = files.caCert
  /\ proc[p].stage \in {"pair", "ready"} => /\ proc[p].sent = files.caCert
                                           /\ proc[p].leaf.issuer = files.caCert.key

DiskInv == /\ ChainFits
           /\ \A p \in Procs : Stand(p)
           /\ TornOnlyByFailure

(* A process outside ensure is not disturbed by one that writes. *)
LEMMA ReadersStand ==
  ASSUME NEW q \in Procs, Stand(q), ChainFits, proc[q].stage \notin LockStages, proc'[q] = proc[q],
         files.leaf.key # NoKey => files'.leaf.key # NoKey /\ files'.caCert = files.caCert
  PROVE  Stand(q)'
<1>1. /\ proc[q].stage \notin WriteStages
      /\ proc[q].stage \notin {"caCert", "caKey", "chain", "leafKey", "release"}
  BY DEF LockStages, WriteStages
<1>2. CASE proc[q].stage \in AfterLock
  BY <1>1, <1>2 DEF Stand, AfterLock
<1>3. CASE proc[q].stage \notin AfterLock
  BY <1>1, <1>3 DEF Stand, AfterLock, AfterAuthority
<1>4. QED BY <1>2, <1>3

LEMMA SameFilesStand ==
  ASSUME NEW q \in Procs, Stand(q), proc'[q] = proc[q], files' = files
  PROVE  Stand(q)'
  BY DEF Stand, NonePresent, FilesFit, AllPresent

(* The step of the process itself, its files included. *)
LEMMA DiskStep == TlsTypeOK /\ LockInv /\ DiskInv /\ ProcNext => DiskInv'
<1> SUFFICES ASSUME TlsTypeOK, LockInv, DiskInv, ProcNext PROVE DiskInv'
  OBVIOUS
<1>0. proc \in [Procs -> ProcTypes] /\ files \in FileTypes
  BY ProcTyped
<1>1. ASSUME files' = files, materialLock' = materialLock, torn' = torn
      PROVE  ChainFits' /\ TornOnlyByFailure'
  BY <1>1 DEF DiskInv, ChainFits, TornOnlyByFailure, NonePresent, FilesFit, AllPresent
<1>2. ASSUME UNCHANGED <<proc, files, materialLock, torn>> PROVE DiskInv'
  BY <1>1, <1>2, SameFilesStand DEF DiskInv
<1>3. ASSUME NEW p \in Procs, ProcStep(p) PROVE DiskInv'
  <2>1. \A q \in Procs : q # p => proc'[q] = proc[q]
    BY <1>3, OthersStay
  <2>2. ASSUME files' = files, Stand(p)' PROVE \A q \in Procs : Stand(q)'
    BY <2>1, <2>2, SameFilesStand DEF DiskInv
  <2>3. ASSUME p \in materialLock, Stand(p)',
               files.leaf.key # NoKey => files'.leaf.key # NoKey /\ files'.caCert = files.caCert
        PROVE  \A q \in Procs : Stand(q)'
    <3>1. \A q \in Procs : q # p => proc[q].stage \notin LockStages
      BY <2>3 DEF LockInv
    <3>2. QED BY <2>1, <2>3, <3>1, ReadersStand DEF DiskInv
  <2>4. Stand(p) /\ ChainFits /\ TornOnlyByFailure
    BY DEF DiskInv
  <2>5. CASE CreateMaterial(p)
    <3>1. files' = files /\ torn' = torn /\ materialLock' # {} /\ NonePresent
      BY <2>5 DEF CreateMaterial, TakeLock
    <3>2. /\ proc'[p].stage = "caCert"
          /\ proc'[p].leaf.key = keys + 2
          /\ proc'[p].leaf.issuer = keys + 1
          /\ proc'[p].ca.key = keys + 1
      BY <1>0, <2>5 DEF CreateMaterial, NewCa, NewLeaf
    <3>3. keys + 1 # NoKey /\ keys + 2 # NoKey
      BY DEF TlsTypeOK, NoKey
    <3>4. NonePresent'
      BY <3>1 DEF NonePresent
    <3>5. Stand(p)'
      BY <3>2, <3>3, <3>4 DEF Stand, AfterLock, AfterAuthority
    <3>6. ChainFits' /\ TornOnlyByFailure'
      BY <2>4, <3>1 DEF ChainFits, TornOnlyByFailure
    <3>7. QED BY <2>2, <3>1, <3>5, <3>6 DEF DiskInv
  <2>6. CASE RenewLeaf(p)
    <3>1. files' = files /\ torn' = torn /\ materialLock' # {} /\ FilesFit
      BY <2>6 DEF RenewLeaf, TakeLock, Accepted, CaValid, LeafValid, FilesFit
    <3>2. /\ proc'[p].stage = "chain"
          /\ proc'[p].leaf.key = keys + 1
          /\ proc'[p].leaf.issuer = files.caCert.key
          /\ proc'[p].ca = files.caCert
      BY <1>0, <2>6 DEF RenewLeaf, NewLeaf
    <3>3. keys + 1 # NoKey /\ files.caCert.key # NoKey /\ files.caKey = files.caCert.key
      BY <3>1 DEF TlsTypeOK, NoKey, FilesFit, AllPresent
    <3>4. FilesFit'
      BY <3>1 DEF FilesFit, AllPresent
    <3>5. Stand(p)'
      BY <3>1, <3>2, <3>3, <3>4 DEF Stand, AfterLock, AfterAuthority
    <3>6. ChainFits' /\ TornOnlyByFailure'
      BY <2>4, <3>1 DEF ChainFits, TornOnlyByFailure
    <3>7. QED BY <2>2, <3>1, <3>5, <3>6 DEF DiskInv
  <2>7. CASE KeepMaterial(p)
    <3>1. files' = files /\ torn' = torn /\ materialLock' # {} /\ FilesFit
      BY <2>7 DEF KeepMaterial, TakeLock, Accepted, CaValid, LeafValid, FilesFit
    <3>2. proc'[p].stage = "release"
      BY <1>0, <2>7 DEF KeepMaterial
    <3>4. FilesFit'
      BY <3>1 DEF FilesFit, AllPresent
    <3>5. Stand(p)'
      BY <3>2, <3>4 DEF Stand, AfterLock, AfterAuthority, WriteStages
    <3>6. ChainFits' /\ TornOnlyByFailure'
      BY <2>4, <3>1 DEF ChainFits, TornOnlyByFailure
    <3>7. QED BY <2>2, <3>1, <3>5, <3>6 DEF DiskInv
  <2>8. ASSUME proc'[p].stage \in {"down", "clock"} PROVE Stand(p)'
    BY <2>8 DEF Stand, AfterLock, AfterAuthority, WriteStages
  <2>9. CASE RefuseMaterial(p) \/ LockUnavailable(p) \/ LaunchStep(p)
    <3>1. proc'[p].stage \in {"down", "clock"} /\ UNCHANGED <<files, materialLock, torn>>
      <4>1. CASE RefuseMaterial(p) BY <1>0, <4>1 DEF RefuseMaterial, Idle, tlsVars
      <4>2. CASE LockUnavailable(p) BY <1>0, <4>2 DEF LockUnavailable, Idle, tlsVars
      <4>3. CASE LaunchStep(p) BY <1>0, <4>3 DEF LaunchStep, Launched, tlsVars
      <4>4. QED BY <2>9, <4>1, <4>2, <4>3
    <3>2. QED BY <1>1, <2>2, <2>8, <3>1 DEF DiskInv
  <2>10. CASE WriteCaCert(p)
    <3>1. /\ proc[p].stage = "caCert"
          /\ files' = [files EXCEPT !.caCert = proc[p].ca]
          /\ proc' = [proc EXCEPT ![p].stage = "caKey"]
          /\ materialLock' = materialLock /\ torn' = torn
      BY <2>10 DEF WriteCaCert, WriteFile
    <3>2. p \in materialLock
      BY <3>1 DEF LockInv, LockStages, WriteStages
    <3>3. NonePresent
      BY <2>4, <3>1 DEF Stand
    <3>4. /\ files'.caCert = proc[p].ca /\ files'.caKey = files.caKey /\ files'.leaf = files.leaf
          /\ files'.leafKey = files.leafKey
      BY <1>0, <3>1 DEF FileTypes
    <3>5. proc'[p].stage = "caKey" /\ proc'[p].ca = proc[p].ca /\ proc'[p].leaf = proc[p].leaf
      BY <1>0, <3>1
    <3>6. Stand(p)'
      BY <2>4, <3>1, <3>3, <3>4, <3>5 DEF Stand, NonePresent, AfterLock, AfterAuthority, WriteStages
    <3>7. ChainFits' /\ TornOnlyByFailure'
      BY <3>1, <3>2, <3>3, <3>4 DEF ChainFits, TornOnlyByFailure, NonePresent
    <3>8. QED BY <2>3, <3>2, <3>3, <3>6, <3>7 DEF DiskInv, NonePresent
  <2>11. CASE WriteCaKey(p)
    <3>1. /\ proc[p].stage = "caKey"
          /\ files' = [files EXCEPT !.caKey = proc[p].ca.key]
          /\ proc' = [proc EXCEPT ![p].stage = "chain"]
          /\ materialLock' = materialLock /\ torn' = torn
      BY <2>11 DEF WriteCaKey, WriteFile
    <3>2. p \in materialLock
      BY <3>1 DEF LockInv, LockStages, WriteStages
    <3>4. /\ files'.caCert = files.caCert /\ files'.caKey = proc[p].ca.key /\ files'.leaf = files.leaf
          /\ files'.leafKey = files.leafKey /\ files'.chainCa = files.chainCa
      BY <1>0, <3>1 DEF FileTypes
    <3>5. proc'[p].stage = "chain" /\ proc'[p].ca = proc[p].ca /\ proc'[p].leaf = proc[p].leaf
      BY <1>0, <3>1
    <3>6. Stand(p)'
      BY <2>4, <3>1, <3>4, <3>5 DEF Stand, AfterLock, AfterAuthority, WriteStages
    <3>7. ChainFits' /\ TornOnlyByFailure'
      BY <2>4, <3>1, <3>2, <3>4 DEF ChainFits, TornOnlyByFailure
    <3>8. QED BY <2>3, <3>2, <3>4, <3>6, <3>7 DEF DiskInv
  <2>12. CASE WriteChain(p)
    <3>1. /\ proc[p].stage = "chain"
          /\ files' = [files EXCEPT !.leaf = proc[p].leaf, !.chainCa = proc[p].ca]
          /\ proc' = [proc EXCEPT ![p].stage = "leafKey"]
          /\ materialLock' = materialLock /\ torn' = torn
      BY <2>12 DEF WriteChain, WriteFile
    <3>2. p \in materialLock
      BY <3>1 DEF LockInv, LockStages, WriteStages
    <3>4. /\ files'.caCert = files.caCert /\ files'.caKey = files.caKey /\ files'.leaf = proc[p].leaf
          /\ files'.leafKey = files.leafKey /\ files'.chainCa = proc[p].ca
      BY <1>0, <3>1 DEF FileTypes
    <3>5. proc'[p].stage = "leafKey" /\ proc'[p].ca = proc[p].ca /\ proc'[p].leaf = proc[p].leaf
      BY <1>0, <3>1
    <3>6. /\ proc[p].leaf.key # NoKey /\ proc[p].leaf.issuer = proc[p].ca.key /\ proc[p].ca.key # NoKey
          /\ proc[p].ca = files.caCert /\ files.caKey = proc[p].ca.key
      BY <2>4, <3>1 DEF Stand, WriteStages
    <3>7. Stand(p)'
      BY <3>4, <3>5, <3>6 DEF Stand, AfterLock, AfterAuthority, WriteStages
    <3>8. ChainFits' /\ TornOnlyByFailure'
      BY <3>1, <3>2, <3>4, <3>6 DEF ChainFits, TornOnlyByFailure
    <3>9. QED BY <2>3, <3>2, <3>4, <3>6, <3>7, <3>8 DEF DiskInv
  <2>13. ASSUME proc[p].stage = "leafKey", files' = [files EXCEPT !.leafKey = proc[p].leaf.key]
         PROVE  /\ FilesFit' /\ ChainFits' /\ p \in materialLock
                /\ files'.leaf.key # NoKey /\ files'.caCert = files.caCert
    <3>1. p \in materialLock
      BY <2>13 DEF LockInv, LockStages, WriteStages
    <3>4. /\ files'.caCert = files.caCert /\ files'.caKey = files.caKey /\ files'.leaf = files.leaf
          /\ files'.leafKey = proc[p].leaf.key /\ files'.chainCa = files.chainCa
      BY <1>0, <2>13 DEF FileTypes
    <3>6. /\ proc[p].leaf.key # NoKey /\ proc[p].leaf.issuer = proc[p].ca.key /\ proc[p].ca.key # NoKey
          /\ proc[p].ca = files.caCert /\ files.caKey = proc[p].ca.key
          /\ files.leaf = proc[p].leaf /\ files.chainCa = proc[p].ca
      BY <2>4, <2>13 DEF Stand, WriteStages
    <3>7. QED BY <3>1, <3>4, <3>6 DEF FilesFit, AllPresent, ChainFits
  <2>14. CASE WriteLeafKey(p)
    <3>1. /\ proc[p].stage = "leafKey"
          /\ files' = [files EXCEPT !.leafKey = proc[p].leaf.key]
          /\ proc' = [proc EXCEPT ![p].stage = "release"]
          /\ materialLock' = materialLock
      BY <2>14 DEF WriteLeafKey, WriteFile
    <3>2. proc'[p].stage = "release"
      BY <1>0, <3>1
    <3>3. Stand(p)'
      BY <2>13, <3>1, <3>2 DEF Stand, AfterLock, AfterAuthority, WriteStages
    <3>4. TornOnlyByFailure'
      BY <2>13, <3>1 DEF TornOnlyByFailure
    <3>5. QED BY <2>3, <2>13, <3>1, <3>3, <3>4 DEF DiskInv
  <2>15. CASE ReleaseLock(p)
    <3>1. /\ proc[p].stage = "release" /\ files' = files
          /\ proc'[p].stage = "authority"
      BY <1>0, <2>15 DEF ReleaseLock
    <3>2. FilesFit /\ FilesFit'
      BY <2>4, <3>1 DEF Stand, FilesFit, AllPresent
    <3>3. Stand(p)'
      BY <3>1, <3>2 DEF Stand, AfterLock, AfterAuthority, WriteStages, FilesFit, AllPresent
    <3>4. ChainFits' /\ TornOnlyByFailure'
      BY <2>4, <3>1, <3>2 DEF ChainFits, TornOnlyByFailure
    <3>5. QED BY <2>2, <3>1, <3>3, <3>4 DEF DiskInv
  <2>16. CASE EndStep(p)
    <3>1. files' = files /\ proc'[p] = Idle /\ materialLock' = materialLock \ {p}
          /\ torn' = (torn \/ proc[p].stage \in WriteStages)
      BY <1>0, <2>16 DEF EndStep, Abandon
    <3>2. Stand(p)'
      BY <2>8, <3>1 DEF Idle
    <3>3. ChainFits'
      BY <2>4, <3>1 DEF ChainFits
    <3>4. TornOnlyByFailure'
      <4>1. SUFFICES ASSUME materialLock' = {}, ~torn, proc[p].stage \notin WriteStages
                     PROVE  NonePresent \/ FilesFit
        BY <3>1 DEF TornOnlyByFailure, NonePresent, FilesFit, AllPresent
      <4>2. CASE proc[p].stage = "release"
        BY <2>4, <4>2 DEF Stand
      <4>3. CASE proc[p].stage # "release"
        BY <2>4, <3>1, <4>1, <4>3 DEF TornOnlyByFailure, LockInv, LockStages
      <4>4. QED BY <4>2, <4>3
    <3>5. QED BY <2>2, <3>1, <3>2, <3>3, <3>4 DEF DiskInv
  <2>17. CASE RestrictFails(p)
    <3>1. proc'[p] = Idle /\ torn'
      BY <1>0, <2>17 DEF RestrictFails, Abandon, WriteStages, TlsTypeOK
    <3>2. Stand(p)'
      BY <2>8, <3>1 DEF Idle
    <3>3. TornOnlyByFailure'
      BY <3>1 DEF TornOnlyByFailure
    <3>4. CASE proc[p].stage = "caKey" /\ files' = [files EXCEPT !.caKey = proc[p].ca.key]
      <4>1. p \in materialLock
        BY <3>4 DEF LockInv, LockStages, WriteStages
      <4>2. files'.leaf.key = NoKey /\ files.leaf.key = NoKey
        BY <1>0, <2>4, <3>4 DEF FileTypes, Stand
      <4>3. QED BY <2>3, <3>2, <3>3, <4>1, <4>2 DEF DiskInv, ChainFits
    <3>5. CASE proc[p].stage = "leafKey" /\ files' = [files EXCEPT !.leafKey = proc[p].leaf.key]
      BY <2>3, <2>13, <3>2, <3>3, <3>5 DEF DiskInv
    <3>6. QED BY <2>17, <3>4, <3>5 DEF RestrictFails
  <2>18. CASE AuthorityStep(p)
    <3>1. /\ proc[p].stage = "authority" /\ UNCHANGED <<files, materialLock, torn>>
          /\ proc'[p].stage = "version" /\ proc'[p].ca = files.caCert
      BY <1>0, <2>18 DEF AuthorityStep, tlsVars
    <3>2. Stand(p)'
      BY <2>4, <3>1 DEF Stand, AfterLock, AfterAuthority, WriteStages
    <3>3. QED BY <1>1, <2>2, <3>1, <3>2 DEF DiskInv
  <2>19. CASE VersionStep(p)
    <3>1. /\ proc[p].stage = "version" /\ UNCHANGED <<files, materialLock, torn>>
          /\ proc'[p].stage \in {"load", "migrate"} /\ proc'[p].ca = proc[p].ca
      BY <1>0, <2>19 DEF VersionStep, tlsVars
    <3>2. Stand(p)'
      BY <2>4, <3>1 DEF Stand, AfterLock, AfterAuthority, WriteStages
    <3>3. QED BY <1>1, <2>2, <3>1, <3>2 DEF DiskInv
  <2>20. CASE MigrateStep(p)
    <3>1. /\ proc[p].stage = "migrate" /\ UNCHANGED <<files, materialLock, torn>>
          /\ \/ proc'[p] = Idle
             \/ proc'[p].stage = "load" /\ proc'[p].ca = proc[p].ca
      BY <1>0, <2>20 DEF MigrateStep, tlsVars
    <3>2. Stand(p)'
      BY <2>4, <2>8, <3>1 DEF Stand, AfterLock, AfterAuthority, WriteStages, Idle
    <3>3. QED BY <1>1, <2>2, <3>1, <3>2 DEF DiskInv
  <2>21. CASE ChainStep(p)
    <3>1. /\ proc[p].stage = "load" /\ UNCHANGED <<files, materialLock, torn>>
          /\ proc'[p].stage = "pair" /\ proc'[p].ca = proc[p].ca
          /\ proc'[p].leaf = files.leaf /\ proc'[p].sent = files.chainCa
      BY <1>0, <2>21 DEF ChainStep, tlsVars
    <3>2. Stand(p)'
      BY <2>4, <3>1 DEF Stand, AfterLock, AfterAuthority, WriteStages, ChainFits
    <3>3. QED BY <1>1, <2>2, <3>1, <3>2 DEF DiskInv
  <2>22. CASE KeyStep(p)
    <3>1. /\ proc[p].stage = "pair" /\ UNCHANGED <<files, materialLock, torn>>
          /\ proc'[p].stage = "ready" /\ proc'[p].ca = proc[p].ca
          /\ proc'[p].leaf = proc[p].leaf /\ proc'[p].sent = proc[p].sent
      BY <1>0, <2>22 DEF KeyStep, tlsVars
    <3>2. Stand(p)'
      BY <2>4, <3>1 DEF Stand, AfterLock, AfterAuthority, WriteStages
    <3>3. QED BY <1>1, <2>2, <3>1, <3>2 DEF DiskInv
  <2>23. QED
    BY <1>3, <2>5, <2>6, <2>7, <2>9, <2>10, <2>11, <2>12, <2>14, <2>15, <2>16, <2>17, <2>18, <2>19, <2>20,
       <2>21, <2>22 DEF ProcStep, Prepare
<1>4. CASE Tick BY <1>2, <1>4 DEF Tick
<1>5. CASE Move BY <1>2, <1>5 DEF Move
<1>6. CASE StandStill BY <1>2, <1>6 DEF StandStill, tlsVars
<1>7. QED BY <1>3, <1>4, <1>5, <1>6 DEF ProcNext

-----------------------------------------------------------------------------
(* How fresh the leaves are.  A process that waits for the lock waited for *)
(* MaxLag at most, so what it writes lasts long enough for everyone who    *)
(* has passed the lock before it.                                          *)

KeptStages == {"release", "authority", "version", "migrate", "load"}
Passed(p) == proc[p].stage \notin {"down", "clock"}

FreshInv ==
  /\ \A p \in Procs : proc[p].now <= clock
  /\ \A p \in Procs : proc[p].stage = "clock" => clock <= proc[p].now + MaxLag
  /\ \A p \in Procs : proc[p].stage \in KeptStages => files.leaf.until > proc[p].now + Margin
  /\ \A w, p \in Procs : proc[w].stage \in WriteStages /\ Passed(p) =>
       proc[w].leaf.until > proc[p].now + Margin
  /\ ServedLeafIsFresh

(* A step that takes no new leaf into anyone's hands. *)
LEMMA FreshKeeps ==
  ASSUME TlsTypeOK, FreshInv, files'.leaf = files.leaf, clock' = clock, NEW p \in Procs,
         \A q \in Procs : q # p => proc'[q] = proc[q],
         \/ proc'[p] = Idle
         \/ /\ proc'[p].now = proc[p].now
            /\ proc'[p].stage \in WriteStages => /\ proc[p].stage \in WriteStages
                                                /\ proc'[p].leaf = proc[p].leaf
            /\ proc'[p].stage # "down" => Passed(p)
            /\ proc'[p].stage # "clock"
            /\ proc'[p].stage \in KeptStages => files.leaf.until > proc[p].now + Margin
            /\ proc'[p].stage \in {"pair", "ready"} => proc'[p].leaf.until > proc[p].now + Margin
  PROVE  FreshInv'
<1>0. clock \in Nat /\ \A q \in Procs : proc[q].now \in Nat
  BY ProcTyped DEF ProcTypes, TlsTypeOK
<1>1. CASE proc'[p] = Idle
  <2>1. proc'[p].now = 0 /\ proc'[p].stage = "down"
    BY <1>1 DEF Idle
  <2>2. \A q \in Procs : proc'[q].now <= clock'
    BY <1>0, <2>1 DEF FreshInv
  <2>3. \A q \in Procs : proc'[q].stage = "clock" => clock' <= proc'[q].now + MaxLag
    BY <2>1 DEF FreshInv
  <2>4. \A q \in Procs : proc'[q].stage \in KeptStages => files'.leaf.until > proc'[q].now + Margin
    BY <2>1 DEF FreshInv, KeptStages
  <2>5. \A w, q \in Procs : proc'[w].stage \in WriteStages /\ Passed(q)' =>
          proc'[w].leaf.until > proc'[q].now + Margin
    BY <2>1 DEF FreshInv, WriteStages, Passed
  <2>6. ServedLeafIsFresh'
    BY <2>1 DEF FreshInv, ServedLeafIsFresh
  <2>7. QED BY <2>2, <2>3, <2>4, <2>5, <2>6 DEF FreshInv
<1>2. CASE proc'[p] # Idle
  <2>2. \A q \in Procs : proc'[q].now <= clock'
    BY <1>2 DEF FreshInv
  <2>3. \A q \in Procs : proc'[q].stage = "clock" => clock' <= proc'[q].now + MaxLag
    BY <1>2 DEF FreshInv
  <2>4. \A q \in Procs : proc'[q].stage \in KeptStages => files'.leaf.until > proc'[q].now + Margin
    BY <1>2 DEF FreshInv
  <2>5. \A w, q \in Procs : proc'[w].stage \in WriteStages /\ Passed(q)' =>
          proc'[w].leaf.until > proc'[q].now + Margin
    BY <1>2 DEF FreshInv, Passed
  <2>6. ServedLeafIsFresh'
    BY <1>2 DEF FreshInv, ServedLeafIsFresh
  <2>7. QED BY <2>2, <2>3, <2>4, <2>5, <2>6 DEF FreshInv
<1>3. QED BY <1>1, <1>2

(* A process that passed the lock draws a leaf. *)
LEMMA FreshDrawn ==
  ASSUME TlsTypeOK, FreshInv, LockInv, files' = files, clock' = clock, NEW p \in Procs,
         \A q \in Procs : q # p => proc'[q] = proc[q],
         proc[p].stage = "clock", materialLock = {},
         proc'[p].stage \in WriteStages, proc'[p].now = proc[p].now,
         proc'[p].leaf.until = proc[p].now + LeafValidity
  PROVE  FreshInv'
<1>0. clock \in Nat /\ \A q \in Procs : proc[q].now \in Nat
  BY ProcTyped DEF ProcTypes, TlsTypeOK
<1>1. \A q \in Procs : proc[q].stage \notin WriteStages
  BY DEF LockInv, LockStages
<1>2. \A q \in Procs : proc[q].now + Margin < proc[p].now + LeafValidity
  BY <1>0, Constants DEF FreshInv
<1>3. /\ proc'[p].stage \notin KeptStages
      /\ proc'[p].stage \notin {"pair", "ready", "clock"}
  BY DEF KeptStages, WriteStages
<1>4. \A q \in Procs : proc'[q].now = proc[q].now
  OBVIOUS
<1>5. \A w, q \in Procs : proc'[w].stage \in WriteStages /\ Passed(q)' =>
        proc'[w].leaf.until > proc'[q].now + Margin
  <2> SUFFICES ASSUME NEW w \in Procs, NEW q \in Procs, proc'[w].stage \in WriteStages
               PROVE  proc'[w].leaf.until > proc'[q].now + Margin
    OBVIOUS
  <2>1. w = p BY <1>1
  <2>2. QED BY <1>0, <1>2, <1>4, <2>1, Constants
<1>6. /\ \A q \in Procs : proc'[q].now <= clock'
      /\ \A q \in Procs : proc'[q].stage = "clock" => clock' <= proc'[q].now + MaxLag
      /\ \A q \in Procs : proc'[q].stage \in KeptStages => files'.leaf.until > proc'[q].now + Margin
      /\ ServedLeafIsFresh'
  BY <1>3, <1>4 DEF FreshInv, ServedLeafIsFresh
<1>7. QED BY <1>5, <1>6 DEF FreshInv

LEMMA FreshStep == TlsTypeOK /\ LockInv /\ DiskInv /\ FreshInv /\ ProcNext => FreshInv'
<1> SUFFICES ASSUME TlsTypeOK, LockInv, DiskInv, FreshInv, ProcNext PROVE FreshInv'
  OBVIOUS
<1>0. /\ proc \in [Procs -> ProcTypes] /\ files \in FileTypes
      /\ clock \in Nat /\ \A q \in Procs : proc[q].now \in Nat
  BY ProcTyped DEF ProcTypes, TlsTypeOK
<1>1. ASSUME NEW p \in Procs, ProcStep(p) PROVE FreshInv'
  <2>1. \A q \in Procs : q # p => proc'[q] = proc[q]
    BY <1>1, OthersStay
  <2>2. CASE LaunchStep(p)
    <3>1. /\ UNCHANGED <<files, clock>> /\ proc[p].stage = "down"
          /\ proc'[p].stage = "clock" /\ proc'[p].now = clock
      BY <1>0, <2>2 DEF LaunchStep, Launched, Running, tlsVars
    <3>2. /\ \A q \in Procs : proc'[q].now <= clock'
          /\ \A q \in Procs : proc'[q].stage = "clock" => clock' <= proc'[q].now + MaxLag
      BY <1>0, <2>1, <3>1, Constants DEF FreshInv
    <3>3. \A q \in Procs : proc'[q].stage \in KeptStages => files'.leaf.until > proc'[q].now + Margin
      BY <2>1, <3>1 DEF FreshInv, KeptStages
    <3>4. \A w, q \in Procs : proc'[w].stage \in WriteStages /\ Passed(q)' =>
            proc'[w].leaf.until > proc'[q].now + Margin
      BY <2>1, <3>1 DEF FreshInv, WriteStages, Passed
    <3>5. ServedLeafIsFresh'
      BY <2>1, <3>1 DEF FreshInv, ServedLeafIsFresh
    <3>6. QED BY <3>2, <3>3, <3>4, <3>5 DEF FreshInv
  <2>3. CASE EndStep(p)
    <3>1. proc'[p] = Idle /\ files' = files /\ clock' = clock
      BY <1>0, <2>3 DEF EndStep, Abandon
    <3>2. QED BY <2>1, <3>1, FreshKeeps
  <2>4. CASE LockUnavailable(p)
    <3>1. proc'[p] = Idle /\ files' = files /\ clock' = clock
      BY <1>0, <2>4 DEF LockUnavailable, tlsVars
    <3>2. QED BY <2>1, <3>1, FreshKeeps
  <2>5. CASE RefuseMaterial(p)
    <3>1. proc'[p] = Idle /\ files' = files /\ clock' = clock
      BY <1>0, <2>5 DEF RefuseMaterial, tlsVars
    <3>2. QED BY <2>1, <3>1, FreshKeeps
  <2>6. CASE RestrictFails(p)
    <3>1. proc'[p] = Idle /\ files'.leaf = files.leaf /\ clock' = clock
      BY <1>0, <2>6 DEF RestrictFails, Abandon, FileTypes
    <3>2. QED BY <2>1, <3>1, FreshKeeps
  <2>7. CASE CreateMaterial(p)
    <3>1. /\ files' = files /\ clock' = clock /\ proc[p].stage = "clock" /\ materialLock = {}
          /\ proc'[p].stage = "caCert" /\ proc'[p].now = proc[p].now
          /\ proc'[p].leaf.until = proc[p].now + LeafValidity
      BY <1>0, <2>7 DEF CreateMaterial, TakeLock, LockFree, NewLeaf
    <3>2. QED BY <2>1, <3>1, FreshDrawn DEF WriteStages
  <2>8. CASE RenewLeaf(p)
    <3>1. /\ files' = files /\ clock' = clock /\ proc[p].stage = "clock" /\ materialLock = {}
          /\ proc'[p].stage = "chain" /\ proc'[p].now = proc[p].now
          /\ proc'[p].leaf.until = proc[p].now + LeafValidity
      BY <1>0, <2>8 DEF RenewLeaf, TakeLock, LockFree, NewLeaf
    <3>2. QED BY <2>1, <3>1, FreshDrawn DEF WriteStages
  <2>9. CASE KeepMaterial(p)
    <3>1. /\ files' = files /\ clock' = clock /\ materialLock = {}
          /\ proc'[p].stage = "release" /\ proc'[p].now = proc[p].now
          /\ ~(files.leaf.until <= proc[p].now + Margin)
      BY <1>0, <2>9 DEF KeepMaterial, TakeLock, LockFree, Expiring
    <3>2. files.leaf.until > proc[p].now + Margin
      BY <1>0, <3>1, Constants DEF FileTypes, LeafCerts
    <3>3. \A q \in Procs : proc[q].stage \notin WriteStages
      BY <3>1 DEF LockInv, LockStages
    <3>4. /\ \A q \in Procs : proc'[q].now <= clock'
          /\ \A q \in Procs : proc'[q].stage = "clock" => clock' <= proc'[q].now + MaxLag
          /\ \A q \in Procs : proc'[q].stage \in KeptStages => files'.leaf.until > proc'[q].now + Margin
      BY <2>1, <3>1, <3>2 DEF FreshInv
    <3>5. \A w \in Procs : proc'[w].stage \notin WriteStages
      BY <2>1, <3>1, <3>3 DEF WriteStages
    <3>6. ServedLeafIsFresh'
      BY <2>1, <3>1 DEF FreshInv, ServedLeafIsFresh
    <3>7. QED BY <3>4, <3>5, <3>6 DEF FreshInv
  <2>10. CASE WriteCaCert(p)
    <3>1. /\ files'.leaf = files.leaf /\ clock' = clock /\ proc[p].stage = "caCert"
          /\ proc'[p].stage = "caKey" /\ proc'[p].now = proc[p].now /\ proc'[p].leaf = proc[p].leaf
      BY <1>0, <2>10 DEF WriteCaCert, WriteFile, FileTypes
    <3>2. QED BY <2>1, <3>1, FreshKeeps DEF WriteStages, Passed, KeptStages
  <2>11. CASE WriteCaKey(p)
    <3>1. /\ files'.leaf = files.leaf /\ clock' = clock /\ proc[p].stage = "caKey"
          /\ proc'[p].stage = "chain" /\ proc'[p].now = proc[p].now /\ proc'[p].leaf = proc[p].leaf
      BY <1>0, <2>11 DEF WriteCaKey, WriteFile, FileTypes
    <3>2. QED BY <2>1, <3>1, FreshKeeps DEF WriteStages, Passed, KeptStages
  <2>12. CASE WriteChain(p)
    <3>1. /\ files'.leaf = proc[p].leaf /\ clock' = clock /\ proc[p].stage = "chain"
          /\ proc'[p].stage = "leafKey" /\ proc'[p].now = proc[p].now /\ proc'[p].leaf = proc[p].leaf
      BY <1>0, <2>12 DEF WriteChain, WriteFile, FileTypes
    <3>2. \A q \in Procs : Passed(q) => proc[p].leaf.until > proc[q].now + Margin
      BY <3>1 DEF FreshInv, WriteStages
    <3>3. /\ \A q \in Procs : proc'[q].now <= clock'
          /\ \A q \in Procs : proc'[q].stage = "clock" => clock' <= proc'[q].now + MaxLag
      BY <2>1, <3>1 DEF FreshInv
    <3>4. \A q \in Procs : proc'[q].stage \in KeptStages => files'.leaf.until > proc'[q].now + Margin
      BY <2>1, <3>1, <3>2 DEF Passed, KeptStages
    <3>5. \A w, q \in Procs : proc'[w].stage \in WriteStages /\ Passed(q)' =>
            proc'[w].leaf.until > proc'[q].now + Margin
      BY <2>1, <3>1, <3>2 DEF FreshInv, WriteStages, Passed
    <3>6. ServedLeafIsFresh'
      BY <2>1, <3>1 DEF FreshInv, ServedLeafIsFresh
    <3>7. QED BY <3>3, <3>4, <3>5, <3>6 DEF FreshInv
  <2>13. CASE WriteLeafKey(p)
    <3>1. /\ files'.leaf = files.leaf /\ clock' = clock /\ proc[p].stage = "leafKey"
          /\ proc'[p].stage = "release" /\ proc'[p].now = proc[p].now
      BY <1>0, <2>13 DEF WriteLeafKey, WriteFile, FileTypes
    <3>2. files.leaf = proc[p].leaf
      BY <3>1 DEF DiskInv, Stand
    <3>3. files.leaf.until > proc[p].now + Margin
      BY <3>1, <3>2 DEF FreshInv, WriteStages, Passed
    <3>4. QED BY <2>1, <3>1, <3>3, FreshKeeps DEF WriteStages, Passed, KeptStages
  <2>14. CASE ReleaseLock(p)
    <3>1. /\ files' = files /\ clock' = clock /\ proc[p].stage = "release"
          /\ proc'[p].stage = "authority" /\ proc'[p].now = proc[p].now
      BY <1>0, <2>14 DEF ReleaseLock
    <3>2. files.leaf.until > proc[p].now + Margin
      BY <3>1 DEF FreshInv, KeptStages
    <3>3. QED BY <2>1, <3>1, <3>2, FreshKeeps DEF WriteStages, Passed, KeptStages
  <2>15. CASE AuthorityStep(p)
    <3>1. /\ files' = files /\ clock' = clock /\ proc[p].stage = "authority"
          /\ proc'[p].stage = "version" /\ proc'[p].now = proc[p].now
      BY <1>0, <2>15 DEF AuthorityStep, tlsVars
    <3>2. files.leaf.until > proc[p].now + Margin
      BY <3>1 DEF FreshInv, KeptStages
    <3>3. QED BY <2>1, <3>1, <3>2, FreshKeeps DEF WriteStages, Passed, KeptStages
  <2>16. CASE VersionStep(p)
    <3>1. /\ files' = files /\ clock' = clock /\ proc[p].stage = "version"
          /\ proc'[p].stage \in {"load", "migrate"} /\ proc'[p].now = proc[p].now
      BY <1>0, <2>16 DEF VersionStep, tlsVars
    <3>2. files.leaf.until > proc[p].now + Margin
      BY <3>1 DEF FreshInv, KeptStages
    <3>3. QED BY <2>1, <3>1, <3>2, FreshKeeps DEF WriteStages, Passed, KeptStages
  <2>17. CASE MigrateStep(p)
    <3>1. /\ files' = files /\ clock' = clock /\ proc[p].stage = "migrate"
          /\ \/ proc'[p] = Idle
             \/ proc'[p].stage = "load" /\ proc'[p].now = proc[p].now
      BY <1>0, <2>17 DEF MigrateStep, tlsVars
    <3>2. files.leaf.until > proc[p].now + Margin
      BY <3>1 DEF FreshInv, KeptStages
    <3>3. QED BY <2>1, <3>1, <3>2, FreshKeeps DEF WriteStages, Passed, KeptStages
  <2>18. CASE ChainStep(p)
    <3>1. /\ files' = files /\ clock' = clock /\ proc[p].stage = "load"
          /\ proc'[p].stage = "pair" /\ proc'[p].now = proc[p].now /\ proc'[p].leaf = files.leaf
      BY <1>0, <2>18 DEF ChainStep, tlsVars
    <3>2. files.leaf.until > proc[p].now + Margin
      BY <3>1 DEF FreshInv, KeptStages
    <3>3. QED BY <2>1, <3>1, <3>2, FreshKeeps DEF WriteStages, Passed, KeptStages
  <2>19. CASE KeyStep(p)
    <3>1. /\ files' = files /\ clock' = clock /\ proc[p].stage = "pair"
          /\ proc'[p].stage = "ready" /\ proc'[p].now = proc[p].now /\ proc'[p].leaf = proc[p].leaf
      BY <1>0, <2>19 DEF KeyStep, tlsVars
    <3>2. proc[p].leaf.until > proc[p].now + Margin
      BY <3>1 DEF FreshInv, ServedLeafIsFresh
    <3>3. QED BY <2>1, <3>1, <3>2, FreshKeeps DEF WriteStages, Passed, KeptStages
  <2>20. QED
    BY <1>1, <2>2, <2>3, <2>4, <2>5, <2>6, <2>7, <2>8, <2>9, <2>10, <2>11, <2>12, <2>13, <2>14, <2>15, <2>16,
       <2>17, <2>18, <2>19 DEF ProcStep, Prepare
<1>2. CASE Tick
  <2>1. /\ clock' = clock + 1 /\ UNCHANGED <<files, proc>>
        /\ \A p \in Procs : proc[p].stage = "clock" => clock < proc[p].now + MaxLag
    BY <1>2 DEF Tick
  <2>2. /\ \A p \in Procs : proc[p].now <= clock + 1
        /\ \A p \in Procs : proc[p].stage = "clock" => clock + 1 <= proc[p].now + MaxLag
    BY <1>0, <2>1, Constants DEF FreshInv
  <2>3. QED BY <2>1, <2>2 DEF FreshInv, ServedLeafIsFresh, Passed
<1>3. CASE Move BY <1>3 DEF Move, FreshInv, ServedLeafIsFresh, Passed
<1>4. CASE StandStill BY <1>4 DEF StandStill, tlsVars, FreshInv, ServedLeafIsFresh, Passed
<1>5. QED BY <1>1, <1>2, <1>3, <1>4 DEF ProcNext

-----------------------------------------------------------------------------
(* The database.  A process that read an old version either finds the      *)
(* database as it read it, or fails at version 3, or repeats steps that    *)
(* change nothing.                                                         *)

LEMMA SchemaSets ==
  /\ SchemaAt(0) = {}
  /\ SchemaAt(1) = {"profiles"}
  /\ SchemaAt(2) = {"profiles", "paired_clients"}
  /\ SchemaAt(3) = {"profiles", "paired_clients", "paired_client_audit"}
  /\ SchemaAt(4) = {"profiles", "paired_clients", "paired_client_audit", "session_actor"}
  /\ SchemaAt(5) = {"profiles", "paired_clients", "paired_client_audit", "session_actor",
                    "builtin_installations"}
  BY DEF SchemaAt

DbInv ==
  /\ SchemaIsWhole
  /\ db.version < 3 => \A k \in Clients : db.generation[k] <= 1 /\ ~db.revoked[k]
  /\ \A p \in Procs : proc[p].stage = "migrate" =>
       /\ proc[p].seen < LatestVersion
       /\ proc[p].seen <= db.version
       /\ db.version <= LatestVersion
  /\ \A p \in Procs : proc[p].stage \in {"load", "pair", "ready"} => db.version = LatestVersion

DbTypes == [version : Nat, schema : SUBSET SchemaAt(LatestVersion),
            generation : [Clients -> 0..MaxGeneration], revoked : [Clients -> BOOLEAN],
            audit : SUBSET Clients]

DbWhole == db \in DbTypes

LEMMA LatestSchema ==
  SchemaAt(LatestVersion) = {"profiles", "paired_clients", "paired_client_audit", "session_actor",
                             "builtin_installations"}
  BY SchemaSets DEF LatestVersion

(* What a step adds, and what it leaves. *)
LEMMA ThirdVersion ==
  ASSUME NEW d \in DbTypes
  PROVE  /\ V3(d) \in DbTypes
         /\ V3(d).schema = d.schema \cup {"paired_client_audit"}
         /\ V3(d).generation = [k \in Clients |-> IF d.generation[k] = 0 THEN 0 ELSE 1]
         /\ V3(d).revoked = [k \in Clients |-> FALSE]
<1> DEFINE g == [k \in Clients |-> IF d.generation[k] = 0 THEN 0 ELSE 1]
           r == [k \in Clients |-> FALSE]
           a == {k \in Clients : d.generation[k] > 0}
           s == d.schema \cup {"paired_client_audit"}
<1>1. /\ g \in [Clients -> 0..MaxGeneration]
      /\ r \in [Clients -> BOOLEAN]
      /\ a \subseteq Clients
  BY Constants
<1>2. s \subseteq SchemaAt(LatestVersion)
  BY LatestSchema DEF DbTypes
<1>3. V3(d) = [d EXCEPT !.schema = s, !.generation = g, !.revoked = r, !.audit = a, !.version = 3]
  BY DEF V3, DbTypes
<1> HIDE DEF g, r, a, s
<1>4. V3(d) = [version |-> 3, schema |-> s, generation |-> g, revoked |-> r, audit |-> a]
  BY <1>3 DEF DbTypes
<1>5. V3(d) \in DbTypes
  BY <1>1, <1>2, <1>4 DEF DbTypes
<1>6. V3(d).schema = s /\ V3(d).generation = g /\ V3(d).revoked = r
  BY <1>4
<1>7. QED BY <1>5, <1>6 DEF s, g, r

LEMMA EachVersion ==
  ASSUME NEW d \in DbTypes
  PROVE  /\ V1(d) \in DbTypes /\ V2(d) \in DbTypes /\ V4(d) \in DbTypes /\ V5(d) \in DbTypes
         /\ V1(d).schema = d.schema \cup {"profiles"}
         /\ V2(d).schema = d.schema \cup {"paired_clients"}
         /\ V4(d).schema = d.schema \cup {"session_actor"}
         /\ V5(d).schema = d.schema \cup {"builtin_installations"}
         /\ V5(d).version = 5
         /\ V1(d).generation = d.generation /\ V1(d).revoked = d.revoked
         /\ V2(d).generation = d.generation /\ V2(d).revoked = d.revoked
         /\ V4(d).generation = d.generation /\ V4(d).revoked = d.revoked
         /\ V5(d).generation = d.generation /\ V5(d).revoked = d.revoked
<1>1. /\ "profiles" \in SchemaAt(LatestVersion) /\ "paired_clients" \in SchemaAt(LatestVersion)
      /\ "session_actor" \in SchemaAt(LatestVersion)
      /\ "builtin_installations" \in SchemaAt(LatestVersion)
  BY LatestSchema
<1>2. V1(d) \in DbTypes /\ V1(d).schema = d.schema \cup {"profiles"}
      /\ V1(d).generation = d.generation /\ V1(d).revoked = d.revoked
  BY <1>1 DEF V1, DbTypes
<1>3. V2(d) \in DbTypes /\ V2(d).schema = d.schema \cup {"paired_clients"}
      /\ V2(d).generation = d.generation /\ V2(d).revoked = d.revoked
  BY <1>1 DEF V2, DbTypes
<1>4. V4(d) \in DbTypes /\ V4(d).schema = d.schema \cup {"session_actor"}
      /\ V4(d).generation = d.generation /\ V4(d).revoked = d.revoked
  BY <1>1 DEF V4, DbTypes
<1>5. V5(d) \in DbTypes /\ V5(d).schema = d.schema \cup {"builtin_installations"} /\ V5(d).version = 5
      /\ V5(d).generation = d.generation /\ V5(d).revoked = d.revoked
  BY <1>1 DEF V5, DbTypes
<1>6. QED BY <1>2, <1>3, <1>4, <1>5

(* A migration that goes through. *)
LEMMA MigratedSoundly ==
  ASSUME DbWhole, SchemaIsWhole, NEW seen \in Nat, seen < LatestVersion, seen <= db.version,
         db.version <= LatestVersion, ~MigrationFails(db, seen),
         db.version < 3 => \A k \in Clients : db.generation[k] <= 1 /\ ~db.revoked[k]
  PROVE  /\ Migrated(db, seen) \in DbTypes
         /\ Migrated(db, seen).version = LatestVersion
         /\ Migrated(db, seen).schema = SchemaAt(LatestVersion)
         /\ Migrated(db, seen).generation = db.generation
         /\ Migrated(db, seen).revoked = db.revoked
<1>0. /\ db \in DbTypes
      /\ db.version \in 0..5 /\ seen \in 0..4
      /\ db.generation \in [Clients -> 0..MaxGeneration] /\ db.revoked \in [Clients -> BOOLEAN]
      /\ db.schema = SchemaAt(db.version)
  BY DEF DbWhole, DbTypes, SchemaIsWhole, LatestVersion
<1>1. CASE seen < 3
  <2> DEFINE d == UpTo2(db, seen)
  <2>1. /\ d \in DbTypes
        /\ d.schema = {"profiles", "paired_clients"} \cup db.schema
        /\ d.generation = db.generation /\ d.revoked = db.revoked
    <3>1. CASE seen < 1
      <4>1. d = V2(V1(db))
        BY <3>1 DEF UpTo2
      <4> HIDE DEF d
      <4>2. QED BY <1>0, <4>1, EachVersion
    <3>2. CASE seen = 1
      <4>1. d = V2(db)
        BY <3>2 DEF UpTo2
      <4>2. "profiles" \in db.schema
        BY <1>0, <3>2, SchemaSets
      <4> HIDE DEF d
      <4>3. QED BY <1>0, <4>1, <4>2, EachVersion
    <3>3. CASE seen = 2
      <4>1. "profiles" \in db.schema /\ "paired_clients" \in db.schema
        BY <1>0, <3>3, SchemaSets
      <4>2. d = db
        BY <3>3 DEF UpTo2
      <4>3. QED BY <1>0, <4>1, <4>2
    <3>4. QED BY <1>0, <1>1, <3>1, <3>2, <3>3
  <2>2. "paired_client_audit" \notin db.schema
    BY <1>1, <2>1 DEF MigrationFails, V3Fails
  <2>3. db.version < 3
    BY <1>0, <2>2, SchemaSets
  <2>4. d.schema \cup {"paired_client_audit"} \cup {"session_actor"} \cup {"builtin_installations"} = SchemaAt(5)
    BY <1>0, <2>1, <2>3, SchemaSets
  <2>5. Migrated(db, seen) = V5(V4(V3(d)))
    BY <1>1 DEF Migrated
  <2> HIDE DEF d
  <2>6. /\ V5(V4(V3(d))) \in DbTypes
        /\ V5(V4(V3(d))).version = 5
        /\ V5(V4(V3(d))).schema = SchemaAt(5)
        /\ V5(V4(V3(d))).generation = V3(d).generation
        /\ V5(V4(V3(d))).revoked = V3(d).revoked
    <3>1. V3(d) \in DbTypes /\ V3(d).schema = d.schema \cup {"paired_client_audit"}
      BY <2>1, ThirdVersion
    <3> DEFINE e == V3(d)
    <3> HIDE DEF e
    <3>2. /\ V4(e) \in DbTypes /\ V4(e).schema = e.schema \cup {"session_actor"}
          /\ V4(e).generation = e.generation /\ V4(e).revoked = e.revoked
      BY <3>1, EachVersion DEF e
    <3>3. /\ V5(V4(e)) \in DbTypes /\ V5(V4(e)).version = 5
          /\ V5(V4(e)).schema = V4(e).schema \cup {"builtin_installations"}
          /\ V5(V4(e)).generation = V4(e).generation /\ V5(V4(e)).revoked = V4(e).revoked
      BY <3>2, EachVersion
    <3>4. QED BY <2>4, <3>1, <3>2, <3>3 DEF e
  <2>8. V3(d).generation = db.generation
    <3>1. \A k \in Clients : db.generation[k] \in {0, 1}
      BY <1>0, <2>3
    <3>2. \A k \in Clients : (IF db.generation[k] = 0 THEN 0 ELSE 1) = db.generation[k]
      BY <3>1
    <3>3. V3(d).generation = [k \in Clients |-> IF db.generation[k] = 0 THEN 0 ELSE 1]
      BY <2>1, ThirdVersion
    <3>4. QED BY <1>0, <3>2, <3>3
  <2>9. V3(d).revoked = db.revoked
    <3>1. \A k \in Clients : db.revoked[k] = FALSE
      BY <1>0, <2>3
    <3>2. V3(d).revoked = [k \in Clients |-> FALSE]
      BY <2>1, ThirdVersion
    <3>3. QED BY <1>0, <3>1, <3>2
  <2>12. QED BY <2>5, <2>6, <2>8, <2>9 DEF LatestVersion
<1>2. CASE seen >= 3
  <2>1. db.version \in 3..5
    BY <1>0, <1>2
  <2>2. db.schema \cup {"session_actor"} \cup {"builtin_installations"} = SchemaAt(5)
    BY <1>0, <2>1, SchemaSets
  <2>3. seen = 4 => db.schema \cup {"builtin_installations"} = SchemaAt(5)
    BY <1>0, SchemaSets
  <2>4. CASE seen < 4
    <3>1. Migrated(db, seen) = V5(V4(db))
      BY <1>0, <1>2, <2>4 DEF Migrated, MigrationFails
    <3>2. /\ V4(db) \in DbTypes /\ V4(db).schema = db.schema \cup {"session_actor"}
          /\ V4(db).generation = db.generation /\ V4(db).revoked = db.revoked
      BY <1>0, EachVersion
    <3> DEFINE e == V4(db)
    <3> HIDE DEF e
    <3>3. /\ V5(e) \in DbTypes /\ V5(e).version = 5
          /\ V5(e).schema = e.schema \cup {"builtin_installations"}
          /\ V5(e).generation = e.generation /\ V5(e).revoked = e.revoked
      BY <3>2, EachVersion DEF e
    <3>4. QED BY <2>2, <3>1, <3>2, <3>3 DEF e, LatestVersion
  <2>5. CASE seen = 4
    <3>1. Migrated(db, seen) = V5(db)
      BY <2>5 DEF Migrated, MigrationFails
    <3>2. QED BY <1>0, <2>3, <2>5, <3>1, EachVersion DEF LatestVersion
  <2>6. QED BY <1>0, <1>2, <2>4, <2>5
<1>3. QED BY <1>0, <1>1, <1>2

(* One that fails leaves the database alone. *)
LEMMA MigrationRolledBack ==
  ASSUME NEW seen, MigrationFails(db, seen)
  PROVE  Migrated(db, seen) = db
  BY DEF Migrated, RolledBack

(* A server that answers pairs or revokes a device. *)
OrderOf(p, k) == Serving(p) /\ (IssueToken(k) \/ RevokeClient(k)) /\ UNCHANGED proc

Order == \E p \in Procs, k \in Clients : OrderOf(p, k)

LEMMA StepsOfDatabase ==
  SchemaTypeOK /\ [Next]_vars =>
    \/ \E p \in Procs : MigrateStep(p)
    \/ Order
    \/ db' = db /\ ((\E p \in Procs : ProcStep(p)) \/ UNCHANGED proc)
<1> DEFINE Quiet == db' = db /\ ((\E p \in Procs : ProcStep(p)) \/ UNCHANGED proc)
<1> SUFFICES ASSUME SchemaTypeOK, [Next]_vars
             PROVE  (\E p \in Procs : MigrateStep(p)) \/ Order \/ Quiet
  OBVIOUS
<1>0. db.version > LatestVersion <=> ~(db.version <= LatestVersion)
  BY DEF SchemaTypeOK, LatestVersion
<1>1. ASSUME NEW p \in Procs, Start(p) PROVE MigrateStep(p) \/ Quiet
  <2>1. CASE PrepareMaterial(p) BY <2>1 DEF PrepareMaterial, ProcStep
  <2>2. CASE ReadAuthority(p) BY <2>2 DEF ReadAuthority, ProcStep, AuthorityStep
  <2>3. CASE ReadVersion(p)
    BY <1>0, <2>3 DEF ReadVersion, Exit, ProcStep, EndStep, VersionStep
  <2>4. CASE Migrate(p) BY <2>4 DEF Migrate, MigrateStep
  <2>5. CASE LoadChain(p) BY <2>5 DEF LoadChain, ProcStep, ChainStep
  <2>6. CASE LoadKey(p) BY <2>6 DEF LoadKey, Exit, ProcStep, EndStep, KeyStep
  <2>7. CASE Bind(p) BY <2>7 DEF Bind, Exit, ProcStep, EndStep
  <2>8. QED BY <1>1, <2>1, <2>2, <2>3, <2>4, <2>5, <2>6, <2>7 DEF Start
<1>2. ASSUME NEW p \in Procs, Launch(p) PROVE Quiet
  BY <1>2 DEF Launch, ProcStep, LaunchStep
<1>3. ASSUME NEW p \in Procs, Exit(p) PROVE Quiet
  BY <1>3 DEF Exit, ProcStep, EndStep
<1>4. ASSUME StartChild PROVE Quiet
  BY <1>2, <1>4 DEF StartChild, startVars
<1>5. ASSUME NEW p \in Procs,
             \/ LaunchByHand(p)
             \/ Crash(p)
             \/ Die(p)
             \/ Start(p) /\ Keep
             \/ FailToLock(p) /\ Keep
             \/ FailToRestrict(p) /\ Spend("crashes") /\ UNCHANGED controlVars
             \/ \E k \in Clients : (Pair(p, k) \/ Revoke(p, k)) /\ Spend("orders")
                                   /\ UNCHANGED controlVars
      PROVE  MigrateStep(p) \/ Order \/ Quiet
  <2>1. CASE LaunchByHand(p) BY <1>2, <2>1 DEF LaunchByHand
  <2>2. CASE Crash(p) BY <1>3, <2>2 DEF Crash
  <2>3. CASE Die(p) BY <1>3, <2>3 DEF Die
  <2>4. CASE Start(p) BY <1>1, <2>4
  <2>5. CASE FailToLock(p) BY <2>5 DEF FailToLock, ProcStep
  <2>6. CASE FailToRestrict(p) BY <2>6 DEF FailToRestrict, ProcStep
  <2>7. CASE \E k \in Clients : Pair(p, k) \/ Revoke(p, k)
    BY <2>7 DEF Pair, Revoke, Order, OrderOf
  <2>8. QED BY <1>5, <2>1, <2>2, <2>3, <2>4, <2>5, <2>6, <2>7
<1>6. ASSUME Pass \/ Readdress PROVE Quiet
  BY <1>6 DEF Pass, Readdress, Tick, Move
<1>7. ASSUME MenuStart \/ WindowStarts PROVE Quiet
  BY <1>4, <1>7 DEF MenuStart, WindowStarts
<1>8. ASSUME \/ MenuStop
             \/ MenuQuit
             \/ Ask
             \/ Stop
             \/ OpenWindow
             \/ WindowSeesCa \/ WindowSeesHealth \/ WindowGivesUp \/ WindowPosts
             \/ UNCHANGED vars
      PROVE  Quiet
  BY <1>8 DEF MenuStop, MenuQuit, BeginStop, Ask, AskChild, AskFails, Stop, KillChild, EndStop, Leave, OpenWindow, WindowSeesCa,
              WindowSeesHealth, WindowGivesUp, WindowPosts, startVars, vars
<1>9. QED BY <1>5, <1>6, <1>7, <1>8 DEF Next, Window

(* A process comes to migrate with the version it has just read, and to    *)
(* load its files when that version is the latest.                         *)
Loaders == {"load", "pair", "ready"}

Reached(q) ==
  /\ proc'[q].stage = "migrate" => \/ proc[q].stage = "migrate" /\ proc'[q].seen = proc[q].seen
                                   \/ proc'[q].seen = db.version /\ db.version < LatestVersion
  /\ proc'[q].stage \in Loaders => proc[q].stage \in Loaders \/ db.version = LatestVersion

LEMMA QuietSteps ==
  ASSUME TlsTypeOK, db.version \in Nat, NEW p \in Procs, ProcStep(p), ~MigrateStep(p), NEW q \in Procs
  PROVE  Reached(q)
<1>0. proc \in [Procs -> ProcTypes]
  BY ProcTyped
<1>1. CASE q # p
  <2>1. proc'[q] = proc[q]
    BY <1>1, OthersStay
  <2>2. QED BY <2>1 DEF Reached
<1>2. CASE q = p
  <2>1. ASSUME proc'[p].stage \in LockStages \cup {"down", "clock", "authority", "version"}
        PROVE  Reached(p)
    BY <2>1 DEF Reached, Loaders, LockStages, WriteStages
  <2>2. CASE LaunchStep(p)
    <3>1. proc'[p].stage = "clock"
      BY <1>0, <2>2 DEF LaunchStep, Launched
    <3>2. QED BY <1>2, <2>1, <3>1
  <2>3. CASE EndStep(p) \/ LockUnavailable(p) \/ RestrictFails(p)
    <3>1. proc'[p].stage = "down"
      BY <1>0, <2>3 DEF EndStep, LockUnavailable, RestrictFails, Abandon, Idle
    <3>2. QED BY <1>2, <2>1, <3>1
  <2>4. CASE Prepare(p)
    <3>1. CASE CreateMaterial(p)
      <4>1. proc'[p].stage = "caCert" BY <1>0, <3>1 DEF CreateMaterial
      <4>2. QED BY <1>2, <2>1, <4>1 DEF LockStages, WriteStages
    <3>2. CASE RenewLeaf(p)
      <4>1. proc'[p].stage = "chain" BY <1>0, <3>2 DEF RenewLeaf
      <4>2. QED BY <1>2, <2>1, <4>1 DEF LockStages, WriteStages
    <3>3. CASE KeepMaterial(p)
      <4>1. proc'[p].stage = "release" BY <1>0, <3>3 DEF KeepMaterial
      <4>2. QED BY <1>2, <2>1, <4>1 DEF LockStages, WriteStages
    <3>4. CASE RefuseMaterial(p)
      <4>1. proc'[p].stage = "down" BY <1>0, <3>4 DEF RefuseMaterial, Idle
      <4>2. QED BY <1>2, <2>1, <4>1 DEF LockStages, WriteStages
    <3>5. CASE WriteCaCert(p)
      <4>1. proc'[p].stage = "caKey" BY <1>0, <3>5 DEF WriteCaCert, WriteFile
      <4>2. QED BY <1>2, <2>1, <4>1 DEF LockStages, WriteStages
    <3>6. CASE WriteCaKey(p)
      <4>1. proc'[p].stage = "chain" BY <1>0, <3>6 DEF WriteCaKey, WriteFile
      <4>2. QED BY <1>2, <2>1, <4>1 DEF LockStages, WriteStages
    <3>7. CASE WriteChain(p)
      <4>1. proc'[p].stage = "leafKey" BY <1>0, <3>7 DEF WriteChain, WriteFile
      <4>2. QED BY <1>2, <2>1, <4>1 DEF LockStages, WriteStages
    <3>8. CASE WriteLeafKey(p)
      <4>1. proc'[p].stage = "release" BY <1>0, <3>8 DEF WriteLeafKey, WriteFile
      <4>2. QED BY <1>2, <2>1, <4>1 DEF LockStages, WriteStages
    <3>9. CASE ReleaseLock(p)
      <4>1. proc'[p].stage = "authority" BY <1>0, <3>9 DEF ReleaseLock
      <4>2. QED BY <1>2, <2>1, <4>1 DEF LockStages, WriteStages
    <3>10. QED
      BY <2>4, <3>1, <3>2, <3>3, <3>4, <3>5, <3>6, <3>7, <3>8, <3>9 DEF Prepare
  <2>5. CASE AuthorityStep(p)
    <3>1. proc'[p].stage = "version"
      BY <1>0, <2>5 DEF AuthorityStep
    <3>2. QED BY <1>2, <2>1, <3>1
  <2>6. CASE VersionStep(p)
    <3>1. /\ proc'[p].seen = db.version
          /\ proc'[p].stage = IF db.version = LatestVersion THEN "load" ELSE "migrate"
          /\ db.version <= LatestVersion
      BY <1>0, <2>6 DEF VersionStep, ProcTypes
    <3>2. db.version # LatestVersion => db.version < LatestVersion
      BY <3>1 DEF LatestVersion
    <3>3. QED BY <1>2, <3>1, <3>2 DEF Reached, Loaders
  <2>7. CASE ChainStep(p)
    <3>1. proc[p].stage = "load" /\ proc'[p].stage = "pair"
      BY <1>0, <2>7 DEF ChainStep
    <3>2. QED BY <1>2, <3>1 DEF Reached, Loaders
  <2>8. CASE KeyStep(p)
    <3>1. proc[p].stage = "pair" /\ proc'[p].stage = "ready"
      BY <1>0, <2>8 DEF KeyStep
    <3>2. QED BY <1>2, <3>1 DEF Reached, Loaders
  <2>9. QED BY <2>2, <2>3, <2>4, <2>5, <2>6, <2>7, <2>8 DEF ProcStep
<1>3. QED BY <1>1, <1>2

LEMMA WholeTyped == DbWhole => SchemaTypeOK
  BY DEF DbWhole, DbTypes, SchemaTypeOK

(* What a pairing or a revocation does to the record. *)
LEMMA OrderStep ==
  ASSUME DbWhole, NEW k \in Clients, IssueToken(k) \/ RevokeClient(k)
  PROVE  /\ db' \in DbTypes
         /\ db'.version = db.version /\ db'.schema = db.schema
         /\ Credentials!IssueToken(k) \/ Credentials!RevokeClient(k)
<1>0. /\ db \in DbTypes
      /\ db.generation \in [Clients -> 0..MaxGeneration] /\ db.revoked \in [Clients -> BOOLEAN]
      /\ db.audit \subseteq Clients /\ MaxGeneration \in Nat
  BY Constants DEF DbWhole, DbTypes
<1>1. CASE IssueToken(k)
  <2> DEFINE g == [db.generation EXCEPT ![k] = @ + 1]
             r == [db.revoked EXCEPT ![k] = FALSE]
             a == db.audit \cup {k}
  <2>1. db' = [db EXCEPT !.generation = g, !.revoked = r, !.audit = a]
    BY <1>0, <1>1 DEF IssueToken, DbTypes
  <2>2. g \in [Clients -> 0..MaxGeneration]
    BY <1>0, <1>1 DEF IssueToken
  <2>3. r \in [Clients -> BOOLEAN] /\ a \subseteq Clients
    BY <1>0
  <2>4. db.generation[k] < MaxGeneration
    BY <1>1 DEF IssueToken
  <2> HIDE DEF g, r, a
  <2>5. db' = [version |-> db.version, schema |-> db.schema, generation |-> g, revoked |-> r, audit |-> a]
    BY <1>0, <2>1 DEF DbTypes
  <2>6. db' \in DbTypes
    BY <1>0, <2>2, <2>3, <2>5 DEF DbTypes
  <2>7. /\ db'.version = db.version /\ db'.schema = db.schema
        /\ db'.generation = g /\ db'.revoked = r
    BY <2>5
  <2>8. QED BY <2>4, <2>6, <2>7 DEF g, r, Credentials!IssueToken
<1>2. CASE RevokeClient(k)
  <2> DEFINE r == [db.revoked EXCEPT ![k] = TRUE]
             a == db.audit \cup {k}
  <2>1. db' = [db EXCEPT !.revoked = r, !.audit = a]
    BY <1>0, <1>2 DEF RevokeClient, DbTypes
  <2>2. r \in [Clients -> BOOLEAN] /\ a \subseteq Clients
    BY <1>0
  <2>3. db.generation[k] > 0
    BY <1>2 DEF RevokeClient
  <2> HIDE DEF r, a
  <2>4. db' = [version |-> db.version, schema |-> db.schema, generation |-> db.generation,
               revoked |-> r, audit |-> a]
    BY <1>0, <2>1 DEF DbTypes
  <2>5. db' \in DbTypes
    BY <1>0, <2>2, <2>4 DEF DbTypes
  <2>6. /\ db'.version = db.version /\ db'.schema = db.schema
        /\ db'.generation = db.generation /\ db'.revoked = r
    BY <2>4
  <2>7. QED BY <2>3, <2>5, <2>6 DEF r, Credentials!RevokeClient
<1>3. QED BY <1>1, <1>2

CredentialsKept == [\E k \in Clients : Credentials!IssueToken(k) \/ Credentials!RevokeClient(k)]_(Credentials!credentialVars)

LEMMA DbStep ==
  TlsTypeOK /\ DbWhole /\ DbInv /\ [Next]_vars => DbWhole' /\ DbInv' /\ CredentialsKept
<1> SUFFICES ASSUME TlsTypeOK, DbWhole, DbInv, [Next]_vars PROVE DbWhole' /\ DbInv' /\ CredentialsKept
  OBVIOUS
<1>0. /\ proc \in [Procs -> ProcTypes]
      /\ db.version \in Nat
      /\ \A p \in Procs : proc[p].seen \in Nat
  BY ProcTyped DEF DbWhole, DbTypes, ProcTypes
<1>1. CASE \E p \in Procs : MigrateStep(p)
  <2>1. PICK p \in Procs : MigrateStep(p)
    BY <1>1
  <2>2. /\ proc[p].stage = "migrate"
        /\ proc[p].seen < LatestVersion /\ proc[p].seen <= db.version /\ db.version <= LatestVersion
        /\ db' = Migrated(db, proc[p].seen)
        /\ \A q \in Procs : q # p => proc'[q] = proc[q]
        /\ proc'[p] = IF MigrationFails(db, proc[p].seen) THEN Idle ELSE [proc[p] EXCEPT !.stage = "load"]
    BY <1>0, <2>1 DEF MigrateStep, DbInv
  <2>3. CASE MigrationFails(db, proc[p].seen)
    <3>1. db' = db
      BY <2>2, <2>3, MigrationRolledBack
    <3>2. proc'[p].stage = "down"
      BY <2>2, <2>3 DEF Idle
    <3>3. DbInv'
      BY <2>2, <3>1, <3>2 DEF DbInv, SchemaIsWhole
    <3>4. QED BY <3>1, <3>3 DEF DbWhole, CredentialsKept, Credentials!credentialVars
  <2>4. CASE ~MigrationFails(db, proc[p].seen)
    <3>1. /\ db' \in DbTypes /\ db'.version = LatestVersion
          /\ db'.schema = SchemaAt(LatestVersion)
          /\ db'.generation = db.generation /\ db'.revoked = db.revoked
      <4>1. db.version < 3 => \A k \in Clients : db.generation[k] <= 1 /\ ~db.revoked[k]
        BY DEF DbInv
      <4>2. SchemaIsWhole
        BY DEF DbInv
      <4>3. QED BY <1>0, <2>2, <2>4, <4>1, <4>2, MigratedSoundly
    <3>2. proc'[p].stage = "load"
      BY <1>0, <2>2, <2>4 DEF ProcTypes
    <3>3. \A q \in Procs : proc'[q].stage = "migrate" =>
            proc'[q].seen < LatestVersion /\ proc'[q].seen <= LatestVersion
      <4>1. ASSUME NEW q \in Procs, proc'[q].stage = "migrate"
            PROVE  proc'[q].seen < LatestVersion /\ proc'[q].seen <= LatestVersion
        <5>1. q # p /\ proc'[q] = proc[q]
          BY <2>2, <3>2, <4>1
        <5>2. proc[q].seen < LatestVersion /\ proc[q].seen \in Nat
          BY <1>0, <4>1, <5>1 DEF DbInv
        <5>3. QED BY <5>1, <5>2 DEF LatestVersion
      <4>2. QED BY <4>1
    <3>4. DbInv'
      BY <3>1, <3>3 DEF DbInv, SchemaIsWhole, LatestVersion
    <3>5. QED BY <3>1, <3>4 DEF DbWhole, CredentialsKept, Credentials!credentialVars
  <2>5. QED BY <2>3, <2>4
<1>2. CASE Order
  <2>0. PICK p \in Procs, k \in Clients : OrderOf(p, k)
    BY <1>2 DEF Order
  <2>1. Serving(p) /\ (IssueToken(k) \/ RevokeClient(k)) /\ UNCHANGED proc
    BY <2>0 DEF OrderOf
  <2>2. db.version = LatestVersion
    BY <2>1 DEF DbInv, Serving
  <2>3. /\ db' \in DbTypes
        /\ db'.version = db.version /\ db'.schema = db.schema
        /\ Credentials!IssueToken(k) \/ Credentials!RevokeClient(k)
    BY <2>1, OrderStep
  <2>4. DbInv'
    BY <2>1, <2>2, <2>3 DEF DbInv, SchemaIsWhole, LatestVersion
  <2>5. QED BY <2>3, <2>4 DEF DbWhole, CredentialsKept
<1>3. CASE db' = db /\ ((\E p \in Procs : ProcStep(p)) \/ UNCHANGED proc) /\ ~\E p \in Procs : MigrateStep(p)
  <2>1. \A q \in Procs : Reached(q)
    <3>1. CASE \E p \in Procs : ProcStep(p)
      BY <1>0, <1>3, <3>1, QuietSteps
    <3>2. CASE UNCHANGED proc
      BY <3>2 DEF Reached
    <3>3. QED BY <1>3, <3>1, <3>2
  <2>2. db' = db
    BY <1>3
  <2>3. DbInv'
    <3>1. SchemaIsWhole'
      BY <2>2 DEF DbInv, SchemaIsWhole
    <3>2. ASSUME NEW q \in Procs, proc'[q].stage = "migrate"
          PROVE  proc'[q].seen < LatestVersion /\ proc'[q].seen <= db.version /\ db.version <= LatestVersion
      BY <1>0, <2>1, <3>2 DEF Reached, DbInv, LatestVersion
    <3>3. ASSUME NEW q \in Procs, proc'[q].stage \in Loaders PROVE db.version = LatestVersion
      BY <2>1, <3>3 DEF Reached, DbInv, Loaders
    <3>4. QED BY <2>2, <3>1, <3>2, <3>3 DEF DbInv, Loaders
  <2>4. QED BY <2>2, <2>3 DEF DbWhole, CredentialsKept, Credentials!credentialVars
<1>4. QED BY <1>1, <1>2, <1>3, WholeTyped, StepsOfDatabase

-----------------------------------------------------------------------------
(* The CA: what is on the disk is replaced only by a process that found    *)
(* nothing there and has held the lock since.                              *)

CaKept == [files.caCert.key # NoKey => files'.caCert = files.caCert]_files

LEMMA CaStep == TlsTypeOK /\ DiskInv /\ ProcNext => CaKept
<1> SUFFICES ASSUME TlsTypeOK, DiskInv, ProcNext PROVE CaKept
  OBVIOUS
<1>0. proc \in [Procs -> ProcTypes] /\ files \in FileTypes
  BY ProcTyped
<1>1. ASSUME NEW p \in Procs, Prepare(p) PROVE CaKept
  <2>1. CASE WriteCaCert(p)
    <3>1. files.caCert.key = NoKey
      BY <2>1 DEF WriteCaCert, WriteFile, DiskInv, Stand, NonePresent
    <3>2. QED BY <3>1 DEF CaKept
  <2>2. CASE WriteCaKey(p)
    BY <1>0, <2>2 DEF WriteCaKey, WriteFile, FileTypes, CaKept
  <2>3. CASE WriteChain(p)
    BY <1>0, <2>3 DEF WriteChain, WriteFile, FileTypes, CaKept
  <2>4. CASE WriteLeafKey(p)
    BY <1>0, <2>4 DEF WriteLeafKey, WriteFile, FileTypes, CaKept
  <2>5. CASE CreateMaterial(p) \/ RenewLeaf(p) \/ KeepMaterial(p) \/ RefuseMaterial(p) \/ ReleaseLock(p)
    BY <2>5 DEF CreateMaterial, RenewLeaf, KeepMaterial, RefuseMaterial, ReleaseLock, TakeLock, tlsVars, CaKept
  <2>6. QED BY <1>1, <2>1, <2>2, <2>3, <2>4, <2>5 DEF Prepare
<1>2. ASSUME NEW p \in Procs, RestrictFails(p) PROVE CaKept
  BY <1>0, <1>2 DEF RestrictFails, FileTypes, CaKept
<1>3. ASSUME NEW p \in Procs, ProcStep(p), ~Prepare(p), ~RestrictFails(p) PROVE CaKept
  BY <1>3 DEF ProcStep, LaunchStep, EndStep, LockUnavailable, AuthorityStep, VersionStep, MigrateStep, ChainStep,
              KeyStep, tlsVars, CaKept
<1>4. CASE Tick \/ Move \/ StandStill
  BY <1>4 DEF Tick, Move, StandStill, tlsVars, CaKept
<1>5. QED BY <1>1, <1>2, <1>3, <1>4 DEF ProcNext

-----------------------------------------------------------------------------
(* The controller: nothing but a launch makes a process run, and a launch  *)
(* by the controller makes it the one it knows.                            *)

KilledInv == menu = "killed" => \A p \in owned : Running(p) => signalled[p] = "kill"

ControlInv == ChildrenAreOwned /\ KilledInv

ControlTypes == /\ owned \subseteq Procs
                /\ children \subseteq Procs
                /\ signalled \in [Procs -> Signals]

NoneStarts == \A q \in Procs : Running(q)' => Running(q)

LEMMA RunnersGoOn ==
  ASSUME NEW p \in Procs, Start(p) \/ FailToLock(p) \/ FailToRestrict(p)
  PROVE  Running(p)
<1>1. CASE PrepareMaterial(p)
  BY <1>1 DEF PrepareMaterial, Prepare, CreateMaterial, RenewLeaf, KeepMaterial, TakeLock, RefuseMaterial,
              WriteCaCert, WriteCaKey, WriteChain, WriteLeafKey, WriteFile, ReleaseLock, Running
<1>2. CASE FailToLock(p) \/ FailToRestrict(p)
  BY <1>2 DEF FailToLock, LockUnavailable, FailToRestrict, RestrictFails, Running
<1>3. CASE ReadAuthority(p) \/ ReadVersion(p) \/ Migrate(p) \/ LoadChain(p) \/ LoadKey(p) \/ Bind(p)
  BY <1>3 DEF ReadAuthority, ReadVersion, Migrate, LoadChain, LoadKey, Bind, Running
<1>4. QED BY <1>1, <1>2, <1>3 DEF Start

(* What is launched, ends or goes on, one process at a time. *)
LEMMA OneRuns ==
  ASSUME TlsTypeOK, NEW p \in Procs, ProcStep(p)
  PROVE  \A q \in Procs : q # p => (Running(q)' <=> Running(q))
  BY OthersStay DEF Running

LEMMA ControlKept ==
  ASSUME NoneStarts, ControlTypes, ControlInv, UNCHANGED <<owned, children, signalled, menu, tray>>
  PROVE  ControlInv'
  BY DEF NoneStarts, ControlInv, ChildrenAreOwned, KilledInv, ControlTypes, Running

LEMMA ChildStarted ==
  ASSUME TlsTypeOK, ControlTypes, ControlInv, ControllerFree, StartChild,
         menu' = menu, tray' = tray
  PROVE  ControlInv'
<1>1. CASE ChildRuns
  BY <1>1, ControlKept DEF StartChild, NoneStarts, startVars, Running, ControllerFree
<1>2. CASE ~ChildRuns
  <2>1. tray # "gone" => \A q \in children : Running(q) => signalled[q] = "kill"
    BY <1>2 DEF ControlInv, ChildrenAreOwned, ChildRuns
  <2>2. CASE owned' = {} /\ UNCHANGED <<startVars, children, signalled>>
    BY <2>1, <2>2 DEF ControlInv, ChildrenAreOwned, KilledInv, Running, startVars
  <2>3. ASSUME NEW p \in Procs, Launch(p), owned' = {p}, children' = children \cup {p} PROVE ControlInv'
    <3>1. ProcStep(p)
      BY <2>3 DEF Launch, ProcStep, LaunchStep
    <3>2. \A q \in Procs : q # p => (Running(q)' <=> Running(q))
      BY <3>1, OneRuns
    <3>3. \A q \in Procs : q # p => signalled'[q] = signalled[q]
      BY <2>3 DEF Launch, ControlTypes
    <3>4. ChildrenAreOwned'
      BY <2>1, <2>3, <3>2, <3>3 DEF ChildrenAreOwned, ControlTypes
    <3>5. KilledInv'
      BY DEF KilledInv, ControllerFree
    <3>6. QED BY <3>4, <3>5 DEF ControlInv
  <2>4. QED BY <1>2, <2>2, <2>3 DEF StartChild
<1>3. QED BY <1>1, <1>2

LEMMA ControlStep ==
  TlsTypeOK /\ SchemaTypeOK /\ ControlTypes /\ ControlInv /\ [Next]_vars => ControlInv'
<1> SUFFICES ASSUME TlsTypeOK, SchemaTypeOK, ControlTypes, ControlInv, [Next]_vars PROVE ControlInv'
  OBVIOUS
<1>1. ASSUME NEW p \in Procs, Exit(p) \/ Start(p) \/ FailToLock(p) \/ FailToRestrict(p), Running(p),
             UNCHANGED <<owned, children, signalled, menu, tray>>
      PROVE  ControlInv'
  <2>1. ProcStep(p) \/ StandStill
    <3>1. CASE Exit(p) BY <3>1 DEF Exit, ProcStep, EndStep
    <3>2. CASE Start(p) BY <3>2, StartSteps
    <3>3. CASE FailToLock(p) \/ FailToRestrict(p) BY <3>3 DEF FailToLock, FailToRestrict, ProcStep
    <3>4. QED BY <1>1, <3>1, <3>2, <3>3
  <2>2. CASE ProcStep(p)
    BY <1>1, <2>2, OneRuns, ControlKept DEF NoneStarts
  <2>3. CASE StandStill
    BY <1>1, <2>3, ControlKept DEF NoneStarts, StandStill, Running
  <2>4. QED BY <2>1, <2>2, <2>3
<1>2. ASSUME NEW p \in Procs, LaunchByHand(p) PROVE ControlInv'
  <2>1. /\ ProcStep(p) /\ p \notin owned
        /\ children' = children \ {p} /\ owned' = owned /\ menu' = menu /\ tray' = tray
        /\ signalled' = [signalled EXCEPT ![p] = "none"]
    BY <1>2 DEF LaunchByHand, Launch, ProcStep, LaunchStep
  <2>2. \A q \in Procs : q # p => (Running(q)' <=> Running(q)) /\ signalled'[q] = signalled[q]
    BY <2>1, OneRuns DEF ControlTypes
  <2>3. ChildrenAreOwned'
    BY <2>1, <2>2 DEF ControlInv, ChildrenAreOwned, ControlTypes
  <2>4. KilledInv'
    BY <2>1, <2>2 DEF ControlInv, KilledInv, ControlTypes
  <2>5. QED BY <2>3, <2>4 DEF ControlInv
<1>3. ASSUME UNCHANGED <<proc, owned, children, signalled, menu, tray>> PROVE ControlInv'
  BY <1>3, ControlKept DEF NoneStarts, Running
<1>4. ASSUME NEW next, BeginStop(next) PROVE ControlInv'
  <2>1. CASE ChildRuns
    <3>1. /\ menu' = "asking" /\ tray = "up" /\ UNCHANGED <<proc, owned, children, signalled>>
      BY <1>4, <2>1 DEF BeginStop, startVars
    <3>2. QED BY <3>1 DEF ControlInv, ChildrenAreOwned, KilledInv, Running
  <2>2. CASE ~ChildRuns
    <3>1. /\ owned' = {} /\ tray = "up" /\ UNCHANGED <<proc, children, signalled, menu>>
      BY <1>4, <2>2 DEF BeginStop, startVars
    <3>2. QED BY <2>2, <3>1 DEF ChildRuns, ControlInv, ChildrenAreOwned, KilledInv, Running
  <2>3. QED BY <2>1, <2>2
<1>5. CASE KillChild
  <2>1. /\ Signal("kill") /\ menu' = "killed" /\ UNCHANGED <<proc, owned, children, tray>>
    BY <1>5 DEF KillChild, startVars
  <2>2. QED BY <2>1 DEF Signal, ControlInv, ChildrenAreOwned, KilledInv, ControlTypes, Running
<1>6. CASE EndStop
  <2>1. /\ menu = "killed" \/ ~ChildRuns
        /\ menu' = "idle" /\ owned' = {} /\ UNCHANGED <<proc, children, signalled, tray>>
    BY <1>6 DEF EndStop, startVars
  <2>2. QED BY <2>1 DEF ChildRuns, ControlInv, ChildrenAreOwned, KilledInv, Running
<1>7. CASE MenuStart \/ WindowStarts
  BY <1>7, ChildStarted DEF MenuStart, WindowStarts
<1>8. CASE MenuStop \/ MenuQuit
  BY <1>4, <1>8 DEF MenuStop, MenuQuit
<1>9. CASE \/ OpenWindow \/ WindowSeesCa \/ WindowSeesHealth \/ WindowGivesUp \/ WindowPosts
           \/ UNCHANGED vars
  BY <1>3, <1>9 DEF OpenWindow, WindowSeesCa, WindowSeesHealth, WindowGivesUp, WindowPosts,
                    KeepControl, startVars, controlVars, vars
<1>10. CASE (Pass \/ Readdress) /\ UNCHANGED controlVars
  BY <1>3, <1>10 DEF Pass, Readdress, Tick, Move, controlVars
<1>11. ASSUME NEW p \in Procs,
             \/ LaunchByHand(p)
             \/ Crash(p)
             \/ Die(p)
             \/ Start(p) /\ Keep
             \/ FailToLock(p) /\ Keep
             \/ FailToRestrict(p) /\ Spend("crashes") /\ UNCHANGED controlVars
             \/ \E k \in Clients : (Pair(p, k) \/ Revoke(p, k)) /\ Spend("orders")
                                   /\ UNCHANGED controlVars
      PROVE  ControlInv'
  <2>1. CASE Crash(p) \/ Die(p)
    BY <1>1, <2>1 DEF Crash, Die, Keep, controlVars
  <2>2. CASE (Start(p) \/ FailToLock(p) \/ FailToRestrict(p)) /\ UNCHANGED controlVars
    BY <1>1, <2>2, RunnersGoOn DEF controlVars
  <2>3. CASE (\E k \in Clients : Pair(p, k) \/ Revoke(p, k)) /\ UNCHANGED controlVars
    BY <1>3, <2>3 DEF Pair, Revoke, controlVars
  <2>4. QED BY <1>2, <1>11, <2>1, <2>2, <2>3 DEF Keep
<1>12. CASE AskChild
  <2>1. /\ Signal("terminate") /\ menu' = "terminated" /\ UNCHANGED <<proc, owned, children, tray>>
    BY <1>12 DEF AskChild, startVars
  <2>2. QED BY <2>1 DEF Signal, ControlInv, ChildrenAreOwned, KilledInv, ControlTypes, Running
<1>13. CASE AskFails
  <2>1. menu' = "idle" /\ UNCHANGED <<proc, owned, children, signalled, tray>>
    BY <1>13 DEF AskFails, startVars
  <2>2. QED BY <2>1 DEF ControlInv, ChildrenAreOwned, KilledInv, Running
<1>14. CASE Leave
  <2>1. tray' = "gone" /\ owned' = {}
    BY <1>14 DEF Leave
  <2>2. QED BY <2>1 DEF ControlInv, ChildrenAreOwned, KilledInv
<1>15. QED
  BY <1>5, <1>6, <1>7, <1>8, <1>9, <1>10, <1>11, <1>12, <1>13, <1>14 DEF Next, Ask, Stop, Window

-----------------------------------------------------------------------------
(* The types of what the controller, the window and the port hold. *)

PlainTypes == /\ listening \subseteq Procs
              /\ ControlTypes
              /\ menu \in {"idle", "asking", "terminated", "killed"}
              /\ tray \in {"up", "leaving", "gone"}
              /\ window \in {"idle", "starting", "ca", "health", "posting"}
              /\ trust \in CaCerts
              /\ budget \in [Spendings -> Nat]

LEMMA ControlTyped == ControlTypeOK <=> TlsTypeOK /\ SchemaTypeOK /\ PlainTypes
  BY DEF ControlTypeOK, StartTypeOK, PlainTypes, ControlTypes

LEMMA Spent ==
  ASSUME PlainTypes, NEW what \in Spendings, Spend(what)
  PROVE  budget' \in [Spendings -> Nat]
  BY DEF PlainTypes, Spend

LEMMA PlainStep == TlsTypeOK /\ PlainTypes /\ [Next]_vars => PlainTypes'
<1> SUFFICES ASSUME TlsTypeOK, PlainTypes, [Next]_vars PROVE PlainTypes'
  OBVIOUS
<1>0. /\ files.caCert \in CaCerts
      /\ \A what \in Spendings : Spend(what) => budget' \in [Spendings -> Nat]
      /\ NoCa \in CaCerts
      /\ {"launches", "crashes", "ticks", "moves", "orders", "commands", "windows"} = Spendings
  BY ProcTyped, Spent, EmptyTypes DEF FileTypes, Spendings
<1>1. ASSUME NEW p \in Procs, Start(p) \/ FailToLock(p) \/ FailToRestrict(p) \/ Exit(p)
                              \/ \E k \in Clients : Pair(p, k) \/ Revoke(p, k)
      PROVE  listening' \subseteq Procs
  <2>1. CASE Start(p)
    BY <2>1 DEF Start, PrepareMaterial, ReadAuthority, ReadVersion, Migrate, LoadChain, LoadKey, Bind, Exit,
                PlainTypes
  <2>2. CASE FailToLock(p) \/ FailToRestrict(p) \/ Exit(p)
    BY <2>2 DEF FailToLock, FailToRestrict, Exit, PlainTypes
  <2>3. CASE \E k \in Clients : Pair(p, k) \/ Revoke(p, k)
    BY <2>3 DEF Pair, Revoke, PlainTypes
  <2>4. QED BY <1>1, <2>1, <2>2, <2>3
<1>2. ASSUME NEW p \in Procs, LaunchByHand(p) PROVE PlainTypes'
  <2>1. budget' \in [Spendings -> Nat]
    BY <1>0, <1>2 DEF LaunchByHand
  <2>2. signalled' \in [Procs -> Signals]
    BY <1>2 DEF LaunchByHand, Launch, Signals, PlainTypes, ControlTypes
  <2>3. QED BY <1>2, <2>1, <2>2 DEF LaunchByHand, Launch, PlainTypes, ControlTypes
<1>3. ASSUME listening' \subseteq Procs, budget' \in [Spendings -> Nat], UNCHANGED controlVars
      PROVE  PlainTypes'
  BY <1>3 DEF controlVars, PlainTypes, ControlTypes
<1>4. ASSUME NEW p \in Procs,
             \/ Crash(p)
             \/ Die(p)
             \/ Start(p) /\ Keep
             \/ FailToLock(p) /\ Keep
             \/ FailToRestrict(p) /\ Spend("crashes") /\ UNCHANGED controlVars
             \/ \E k \in Clients : (Pair(p, k) \/ Revoke(p, k)) /\ Spend("orders")
                                   /\ UNCHANGED controlVars
      PROVE  PlainTypes'
  <2>1. listening' \subseteq Procs
    BY <1>1, <1>4 DEF Crash, Die
  <2>2. UNCHANGED controlVars
    BY <1>4 DEF Crash, Die, Keep
  <2>3. budget' \in [Spendings -> Nat]
    BY <1>0, <1>4 DEF Crash, Die, Keep, PlainTypes
  <2>4. QED BY <1>3, <2>1, <2>2, <2>3
<1>5. CASE \/ Pass /\ Spend("ticks") /\ UNCHANGED controlVars
           \/ Readdress /\ Spend("moves") /\ UNCHANGED controlVars
  BY <1>0, <1>3, <1>5 DEF Pass, Readdress, PlainTypes
<1>6. ASSUME StartChild
      PROVE  /\ owned' \subseteq Procs /\ children' \subseteq Procs
             /\ signalled' \in [Procs -> Signals] /\ listening' = listening
  BY <1>6 DEF StartChild, Launch, Signals, startVars, PlainTypes, ControlTypes
<1>7. CASE MenuStart
  BY <1>0, <1>6, <1>7 DEF MenuStart, PlainTypes, ControlTypes
<1>8. CASE WindowStarts
  BY <1>6, <1>8 DEF WindowStarts, PlainTypes, ControlTypes
<1>9. ASSUME NEW next \in {"up", "leaving"}, BeginStop(next), Spend("commands") PROVE PlainTypes'
  <2>1. budget' \in [Spendings -> Nat]
    BY <1>0, <1>9
  <2>2. owned' \subseteq Procs /\ menu' \in {"idle", "asking", "terminated", "killed"}
    BY <1>9 DEF BeginStop, PlainTypes, ControlTypes
  <2>3. QED BY <1>9, <2>1, <2>2 DEF BeginStop, startVars, PlainTypes, ControlTypes
<1>10. CASE MenuStop \/ MenuQuit
  BY <1>9, <1>10 DEF MenuStop, MenuQuit
<1>11. CASE KillChild
  BY <1>11 DEF KillChild, Signal, Signals, startVars, PlainTypes, ControlTypes
<1>12. CASE EndStop
  BY <1>12 DEF EndStop, startVars, PlainTypes, ControlTypes
<1>13. CASE Leave
  BY <1>0, <1>13 DEF Leave, startVars, PlainTypes, ControlTypes
<1>14. CASE OpenWindow
  BY <1>0, <1>14 DEF OpenWindow, KeepControl, startVars, PlainTypes, ControlTypes
<1>15. CASE WindowSeesCa
  BY <1>0, <1>15 DEF WindowSeesCa, KeepControl, startVars, PlainTypes, ControlTypes
<1>16. CASE WindowSeesHealth
  BY <1>16 DEF WindowSeesHealth, KeepControl, startVars, PlainTypes, ControlTypes
<1>17. CASE WindowGivesUp \/ WindowPosts
  BY <1>0, <1>17 DEF WindowGivesUp, WindowPosts, KeepControl, startVars, PlainTypes, ControlTypes
<1>18. CASE UNCHANGED vars
  BY <1>18 DEF vars, controlVars, startVars, PlainTypes, ControlTypes
<1>19. CASE AskChild
  BY <1>19 DEF AskChild, Signal, Signals, startVars, PlainTypes, ControlTypes
<1>20. CASE AskFails
  BY <1>20 DEF AskFails, startVars, PlainTypes, ControlTypes
<1>21. QED
  BY <1>2, <1>4, <1>5, <1>7, <1>8, <1>10, <1>11, <1>12, <1>13, <1>14, <1>15, <1>16, <1>17, <1>18,
     <1>19, <1>20
     DEF Next, Ask, Stop, Window

-----------------------------------------------------------------------------
(* The inductive invariant. *)

ServerInv == /\ TlsTypeOK
             /\ PlainTypes
             /\ LockInv
             /\ DiskInv
             /\ FreshInv
             /\ DbWhole
             /\ DbInv
             /\ ControlInv

LEMMA ServerStep == ServerInv /\ [Next]_vars => ServerInv' /\ CredentialsKept /\ CaKept
<1> SUFFICES ASSUME ServerInv, [Next]_vars PROVE ServerInv' /\ CredentialsKept /\ CaKept
  OBVIOUS
<1>1. SchemaTypeOK /\ db.version \in Nat
  BY WholeTyped DEF ServerInv, SchemaTypeOK
<1>2. ProcNext
  BY <1>1, StepsOfProcesses
<1>3. DbWhole' /\ DbInv' /\ CredentialsKept
  BY DbStep DEF ServerInv
<1>4. TlsTypeOK' /\ LockInv' /\ DiskInv' /\ FreshInv' /\ CaKept
  BY <1>1, <1>2, TlsTypeStep, LockStep, DiskStep, FreshStep, CaStep DEF ServerInv
<1>5. PlainTypes' /\ ControlInv'
  BY <1>1, PlainStep, ControlStep DEF ServerInv, PlainTypes
<1>6. QED BY <1>3, <1>4, <1>5 DEF ServerInv

(* At first. *)
LEMMA StoredTypes ==
  ASSUME NEW v \in Nat, NEW d \in StoredAt(v)
  PROVE  /\ d \in DbTypes /\ d.version = v /\ d.schema = SchemaAt(v)
         /\ v < 3 => \A k \in Clients : d.generation[k] <= 1 /\ ~d.revoked[k]
<1>1. SchemaAt(v) \subseteq SchemaAt(LatestVersion)
  BY DEF SchemaAt, LatestVersion
<1>2. d \in [version : {v}, schema : {SchemaAt(v)}, generation : [Clients -> 0..MaxGeneration],
             revoked : [Clients -> BOOLEAN], audit : SUBSET Clients]
  BY DEF StoredAt
<1>3. d.version = v /\ d.schema = SchemaAt(v) /\ d \in DbTypes
  BY <1>1, <1>2 DEF DbTypes
<1>4. v < 3 => \A k \in Clients : d.generation[k] <= 1 /\ ~d.revoked[k]
  BY DEF StoredAt
<1>5. QED BY <1>3, <1>4

LEMMA FilesAtFirst ==
  /\ Missing \in FileTypes
  /\ Installed \in FileTypes
  /\ Installed.caCert.key = 1 /\ Installed.caKey = 1 /\ Installed.leaf.key = 2 /\ Installed.leafKey = 2
  /\ Installed.chainCa = Installed.caCert /\ Installed.leaf.issuer = 1
<1>1. Missing \in FileTypes
  BY EmptyTypes DEF Missing, FileTypes, NoKey
<1>2. 1 \in Nat /\ 2 \in Nat /\ 0 \in Nat /\ Home \in Addresses \cup {NoAddress}
  BY Constants
<1>3. NewCa(1, 0) \in CaCerts
  BY <1>2, NewTypes, EmptyTypes
<1>4. NewLeaf(2, NewCa(1, 0), Home, 0) \in LeafCerts
  <2> DEFINE ca == NewCa(1, 0)
  <2> HIDE DEF ca
  <2>1. ca \in CaCerts
    BY <1>3 DEF ca
  <2>2. NewLeaf(2, ca, Home, 0) \in LeafCerts
    BY <1>2, <2>1, NewTypes
  <2>3. QED BY <2>2 DEF ca
<1>5. Installed \in FileTypes
  BY <1>2, <1>3, <1>4 DEF Installed, FileTypes
<1>6. QED BY <1>1, <1>5 DEF Installed, NewCa, NewLeaf

LEMMA ServerInit == Init => ServerInv
<1> SUFFICES ASSUME Init PROVE ServerInv
  OBVIOUS
<1>0. /\ TlsInit /\ listening = {} /\ db \in UNION {StoredAt(v) : v \in Versions}
      /\ owned = {} /\ children = {} /\ signalled = [p \in Procs |-> "none"]
      /\ menu = "idle" /\ tray = "up" /\ window = "idle" /\ trust = NoCa
      /\ budget \in Budgets[db.version]
  BY DEF Init, StartInit
<1>1. /\ clock = 0 /\ address = Home /\ (files = Missing \/ files = Installed)
      /\ keys \in Nat /\ materialLock = {} /\ proc = [p \in Procs |-> Idle] /\ torn = FALSE
  BY <1>0 DEF TlsInit
<1>2. \A p \in Procs : proc[p] = Idle /\ proc[p].stage = "down" /\ proc[p].now = 0
  BY <1>1 DEF Idle
<1>3. TlsTypeOK
  <2>1. proc \in [Procs -> ProcTypes] /\ files \in FileTypes
    BY <1>1, EmptyTypes, FilesAtFirst
  <2>2. QED BY <1>1, <2>1, Constants DEF TlsTypeOK, ProcTypes, FileTypes
<1>4. PICK v \in Versions : db \in StoredAt(v)
  BY <1>0
<1>5. /\ v \in Nat /\ DbWhole /\ db.version = v /\ db.schema = SchemaAt(v)
      /\ v < 3 => \A k \in Clients : db.generation[k] <= 1 /\ ~db.revoked[k]
  BY <1>4, Constants, StoredTypes DEF DbWhole
<1>6. PlainTypes
  <2>1. budget \in [Spendings -> Nat]
    BY <1>0, <1>5, Constants
  <2>2. QED BY <1>0, <2>1, EmptyTypes DEF PlainTypes, ControlTypes, Signals
<1>7. LockInv
  BY <1>1, <1>2 DEF LockInv, LockStages, WriteStages
<1>8. DiskInv
  <2>1. \A p \in Procs : Stand(p)
    BY <1>2 DEF Stand, WriteStages, AfterLock, AfterAuthority
  <2>2. CASE files = Missing
    BY <2>1, <2>2 DEF DiskInv, ChainFits, TornOnlyByFailure, NonePresent, Missing, NoCa, NoLeaf
  <2>3. CASE files = Installed
    <3>1. FilesFit
      BY <2>3, FilesAtFirst DEF FilesFit, AllPresent, NoKey
    <3>2. QED BY <2>1, <3>1 DEF DiskInv, ChainFits, TornOnlyByFailure, FilesFit, AllPresent
  <2>4. QED BY <1>1, <2>2, <2>3
<1>9. FreshInv
  BY <1>1, <1>2, Constants DEF FreshInv, ServedLeafIsFresh, WriteStages, Passed, KeptStages
<1>10. DbInv
  BY <1>2, <1>5 DEF DbInv, SchemaIsWhole
<1>11. ControlInv
  BY <1>0 DEF ControlInv, ChildrenAreOwned, KilledInv
<1>12. QED BY <1>3, <1>5, <1>6, <1>7, <1>8, <1>9, <1>10, <1>11 DEF ServerInv

LEMMA ServerInvariant == Spec => []ServerInv
  BY ServerInit, ServerStep, PTL DEF Spec

-----------------------------------------------------------------------------
(* Every state has the shape the modules state. *)
THEOREM ControlTypeCorrect == Spec => []ControlTypeOK
<1>1. ServerInv => ControlTypeOK
  BY ControlTyped, WholeTyped DEF ServerInv
<1>2. QED BY <1>1, ServerInvariant, PTL

(* Processes that start together, renew or end leave files that fit, but   *)
(* for those that died or failed while they wrote.                         *)
THEOREM OnlyFailuresTear == Spec => []TornOnlyByFailure
<1>1. ServerInv => TornOnlyByFailure
  BY DEF ServerInv, DiskInv
<1>2. QED BY <1>1, ServerInvariant, PTL

(* A CA in place stays in place.                                           *)
THEOREM CaIsNeverReplaced == Spec => AuthorityIsKept
<1>1. ServerInv /\ [Next]_vars => [files.caCert.key # NoKey => files'.caCert = files.caCert]_files
  BY ServerStep DEF CaKept
<1>2. QED BY <1>1, ServerInvariant, PTL DEF Spec, AuthorityIsKept

(* What a server that answers presents verifies against the CA on the disk *)
(* and against the one phones are given, and its database is up to date.   *)
THEOREM ServersVerify == Spec => []ServedChainVerifies
<1>1. ServerInv => ServedChainVerifies
  <2> SUFFICES ASSUME ServerInv, NEW p \in Procs, Serving(p)
               PROVE  /\ proc[p].ca = files.caCert
                      /\ proc[p].sent = files.caCert
                      /\ proc[p].leaf.issuer = files.caCert.key
                      /\ db.version = LatestVersion
    BY DEF ServedChainVerifies
  <2>1. proc[p].stage = "ready" /\ Stand(p)
    BY DEF Serving, ServerInv, DiskInv
  <2>2. db.version = LatestVersion
    BY <2>1 DEF ServerInv, DbInv
  <2>3. QED BY <2>1, <2>2 DEF Stand, AfterAuthority
<1>2. QED BY <1>1, ServerInvariant, PTL

(* The leaf a server loads outlives the renewal margin, whoever wrote it.  *)
THEOREM LeavesAreFresh == Spec => []ServedLeafIsFresh
<1>1. ServerInv => ServedLeafIsFresh
  BY DEF ServerInv, FreshInv
<1>2. QED BY <1>1, ServerInvariant, PTL

(* The schema is what its version says, whoever migrated or failed to.     *)
THEOREM SchemaStaysWhole == Spec => []SchemaIsWhole
<1>1. ServerInv => SchemaIsWhole
  BY DEF ServerInv, DbInv
<1>2. QED BY <1>1, ServerInvariant, PTL

(* To the credential store a migration is nothing.                         *)
THEOREM CredentialsSurviveMigrations == Spec => MigrationsKeepCredentials
<1>1. ServerInv /\ [Next]_vars => CredentialsKept
  BY ServerStep
<1>2. QED BY <1>1, ServerInvariant, PTL DEF Spec, MigrationsKeepCredentials, CredentialsKept

(* As long as the tray is there, a child that runs can still be stopped,   *)
(* unless it outlived a kill (service_control.py _stop_locked).            *)
THEOREM ChildrenStayOwned == Spec => []ChildrenAreOwned
<1>1. ServerInv => ChildrenAreOwned
  BY DEF ServerInv, ControlInv
<1>2. QED BY <1>1, ServerInvariant, PTL
=============================================================================
