----------------------- MODULE CatalogLifecycleProofs -----------------------
(***************************************************************************)
(* Proofs about the catalog file.  The inductive invariant says what is at *)
(* the path while somebody creates or upgrades it: one creator at a time   *)
(* works on a file that is not yet current, and a maintenance call that    *)
(* holds the write lock holds it on the very catalog it has backed up,     *)
(* because nobody but an upgrade ever changes an older catalog.            *)
(***************************************************************************)
EXTENDS CatalogLifecycle, TLAPS

Creating(a) == app[a].pc \in {"migrate", "finish"}

AppInv(a) ==
    /\ app[a].pc \in {"migrate", "finish", "open", "write"} => app[a].file \in Files
    /\ Creating(a) => app[a].file = path
    /\ app[a].pc = "migrate" => /\ database[app[a].file].identity = "none"
                                /\ database[app[a].file].rows = {}
                                /\ database[app[a].file].states = {}
    /\ app[a].pc = "finish" => database[app[a].file].identity = "current"
    /\ app[a].pc \in {"open", "write"} => IsCurrent(database[app[a].file])

OneCreator == \A a, b \in Apps : Creating(a) /\ Creating(b) => a = b

OldStateless == \A f \in Files : database[f].identity = "old" => database[f].states = {}

AtOld == path # None /\ IsOld(database[path])

UpgraderInv(u) ==
    /\ work[u].pc \in {"reserve", "copy", "lock"} => (AtOld => database[path] = work[u].db)
    /\ work[u].pc = "lock" => backup[u] = work[u].db
    /\ work[u].pc \in {"backfill", "stamp", "commit"} =>
          /\ AtOld /\ writer[path] = u
          /\ backup[u] = database[path]
          /\ work[u].db.rows = database[path].rows
    /\ work[u].pc \in {"stamp", "commit"} => work[u].db.states = work[u].db.rows

UpgradedInv ==
    upgraded.by # None => /\ backup[upgraded.by] = upgraded.was
                          /\ work[upgraded.by].pc = "idle"
                          /\ ~AtOld

LifeInv ==
    /\ TypeOK
    /\ \A a \in Apps : AppInv(a)
    /\ OneCreator
    /\ OldStateless
    /\ \A u \in Upgraders : UpgraderInv(u)
    /\ UpgradedInv
    /\ NothingLost

-----------------------------------------------------------------------------
AppRecord == [pc : {"closed", "create", "migrate", "finish", "opening", "open", "write"},
              file : Files \cup {None}, readonly : BOOLEAN]
WorkRecord == [pc : {"idle", "reserve", "copy", "lock", "backfill", "stamp", "commit"},
               db : Database]

\* The records processes start from.
LEMMA Records ==
    /\ Blank \in Database /\ \A ok \in BOOLEAN : OldCatalog(ok) \in Database
    /\ NotOpen \in AppRecord /\ NoWork \in WorkRecord
<1>1. Blank \in Database /\ \A ok \in BOOLEAN : OldCatalog(ok) \in Database
  BY PlanAssumption DEF Blank, OldCatalog, Database
<1> QED
  BY <1>1 DEF NotOpen, NoWork, AppRecord, WorkRecord

\* Nobody works yet; the older catalog has no publication states.
LEMMA LifeInit == Init => LifeInv
<1> SUFFICES ASSUME Init PROVE LifeInv
  OBVIOUS
<1>2. TypeOK
  <2>1. path \in Files \cup {None}
    BY DEF Init
  <2>2. database \in [Files -> Database]
    BY Records DEF Init
  <2>3. app \in [Apps -> AppRecord] /\ work \in [Upgraders -> WorkRecord]
    BY Records DEF Init
  <2>4. upgraded \in [by : Upgraders \cup {None}, was : Database] /\ acked \subseteq Resources
    BY Records DEF Init
  <2>5. /\ writer \in [Files -> Apps \cup Upgraders \cup {None}]
        /\ backup \in [Upgraders -> Database \cup {None}]
        /\ faults \in 0 .. MaxFaults
    BY FaultsAssumption DEF Init
  <2>6. late \in BOOLEAN
    BY DEF Init
  <2> QED
    BY <2>1, <2>2, <2>3, <2>4, <2>5, <2>6 DEF TypeOK, AppRecord, WorkRecord
<1>3. \A a \in Apps : AppInv(a)
  BY DEF Init, AppInv, NotOpen, Creating
<1>4. OneCreator
  BY DEF Init, OneCreator, Creating, NotOpen
<1>5. OldStateless
  BY DEF Init, OldStateless, OldCatalog, Blank
<1>6. \A u \in Upgraders : UpgraderInv(u)
  BY DEF Init, UpgraderInv, NoWork
<1>7. UpgradedInv
  BY DEF Init, UpgradedInv
<1>8. NothingLost
  BY DEF Init, NothingLost, NotOpen, OldCatalog
<1> QED
  BY <1>2, <1>3, <1>4, <1>5, <1>6, <1>7, <1>8 DEF LifeInv

\* Every step keeps the types; the files that are written are files.
LEMMA LifeTypeNext == LifeInv /\ [Next]_vars => TypeOK'
<1> SUFFICES ASSUME LifeInv, [Next]_vars PROVE TypeOK'
  OBVIOUS
<1> USE PlanAssumption, FaultsAssumption
<1>t. TypeOK
  BY DEF LifeInv
<1>u. CASE UNCHANGED vars
  BY <1>t, <1>u DEF TypeOK, vars
<1>a. ASSUME NEW a \in Apps PROVE AppInv(a)
  BY DEF LifeInv
<1>b. ASSUME NEW u \in Upgraders PROVE UpgraderInv(u)
  BY DEF LifeInv
<1>k. Blank \in Database
  BY Records
<1>r. app \in [Apps -> AppRecord] /\ work \in [Upgraders -> WorkRecord]
  BY <1>t DEF TypeOK, AppRecord, WorkRecord
<1>m. ASSUME NEW a \in Apps, app' \in [Apps -> AppRecord], database' \in [Files -> Database],
             writer' \in [Files -> Apps \cup Upgraders \cup {None}], path' \in Files \cup {None},
             acked' \subseteq Resources, UNCHANGED <<maintenance, late, faults>>
      PROVE  TypeOK'
  BY <1>m, <1>t DEF TypeOK, AppRecord, maintenance
<1>n. ASSUME work' \in [Upgraders -> WorkRecord], backup' \in [Upgraders -> Database \cup {None}],
             UNCHANGED <<path, database, writer, app, upgraded, acked, late, faults>>
      PROVE  TypeOK'
  BY <1>n, <1>t DEF TypeOK, WorkRecord
<1>1. ASSUME NEW a \in Apps, NEW readonly \in BOOLEAN, OpenApplication(a, readonly) PROVE TypeOK'
  <2>1. app' \in [Apps -> AppRecord]
    BY <1>1, <1>r DEF OpenApplication, AppRecord
  <2> QED
    BY <1>1, <1>m, <1>t, <2>1 DEF OpenApplication, TypeOK
<1>2. ASSUME NEW a \in Apps, Reserve(a) PROVE TypeOK'
  BY <1>2, <1>t, <1>a, <1>k DEF Reserve, TypeOK, AppInv, Creating, NotOpen, Fault, maintenance
<1>3. ASSUME NEW a \in Apps, Migrate(a) PROVE TypeOK'
  <2> DEFINE f == app[a].file
  <2>1. f \in Files
    BY <1>3, <1>a DEF Migrate, AppInv
  <2>2. database[f] \in Database
    BY <2>1, <1>t DEF TypeOK
  <2>3. [database[f] EXCEPT !.identity = "current"] \in Database
    BY <2>2 DEF Database
  <2>4. database[f].ledger < Migrations =>
          [database[f] EXCEPT !.ledger = database[f].ledger + 1] \in Database
    BY <2>2 DEF Database
  <2>5. database' \in [Files -> Database]
    BY <1>3, <1>t, <2>1, <2>3, <2>4 DEF Migrate, TypeOK
  <2>6. app' \in [Apps -> AppRecord]
    BY <1>3, <1>r DEF Migrate, AppRecord
  <2> QED
    BY <1>3, <1>m, <1>t, <2>5, <2>6 DEF Migrate, TypeOK
<1>4. ASSUME NEW a \in Apps, FinishCreate(a) PROVE TypeOK'
  BY <1>4, <1>t, <1>k DEF FinishCreate, TypeOK, IsCurrent, maintenance
<1>5. ASSUME NEW a \in Apps, CreateFails(a) PROVE TypeOK'
  BY <1>5, <1>t, <1>k DEF CreateFails, TypeOK, NotOpen, Fault, maintenance
<1>6. ASSUME NEW a \in Apps, CreateTimesOut(a) PROVE TypeOK'
  BY <1>6, <1>t, <1>k DEF CreateTimesOut, TypeOK, NotOpen, maintenance
<1>7. ASSUME NEW a \in Apps, TryOpen(a) PROVE TypeOK'
  <2>1. app' = [app EXCEPT ![a].pc = "open", ![a].file = path] \/ app' = [app EXCEPT ![a] = NotOpen]
    BY <1>7 DEF TryOpen
  <2>2. path \in Files
    BY <1>7, <1>t DEF TryOpen, TypeOK
  <2>3. app' \in [Apps -> AppRecord]
    BY <2>1, <2>2, <1>r, Records DEF AppRecord
  <2> QED
    BY <1>7, <1>m, <1>t, <2>3 DEF TryOpen, TypeOK
<1>8. ASSUME NEW a \in Apps, GiveUp(a) PROVE TypeOK'
  BY <1>8, <1>t, <1>k DEF GiveUp, TypeOK, IsCurrent, IsOld, NotOpen, maintenance
<1>9. ASSUME NEW a \in Apps, BeginWrite(a) PROVE TypeOK'
  BY <1>9, <1>t, <1>a, <1>b, <1>k
     DEF BeginWrite, TypeOK, AppInv, Creating, UpgraderInv, AtOld, IsCurrent, IsOld, maintenance
<1>10. ASSUME NEW a \in Apps, NEW r \in Resources, CommitWrite(a, r) PROVE TypeOK'
  <2> DEFINE f == app[a].file
  <2>1. f \in Files
    BY <1>10, <1>a DEF CommitWrite, AppInv
  <2>2. database[f] \in Database
    BY <2>1, <1>t DEF TypeOK
  <2>3. PICK rows \in {database[f].rows \cup {r}, database[f].rows \ {r}} :
          database' = [database EXCEPT ![f].rows = rows, ![f].states = @ \cup {r}]
    BY <1>10 DEF CommitWrite
  <2>4. rows \in SUBSET Resources /\ database[f].states \cup {r} \in SUBSET Resources
    BY <2>2 DEF Database
  <2>5. database' \in [Files -> Database]
    BY <2>1, <2>2, <2>3, <2>4, <1>t DEF TypeOK, Database
  <2>6. app' \in [Apps -> AppRecord]
    BY <1>10, <1>r DEF CommitWrite, AppRecord
  <2> QED
    BY <1>10, <1>m, <1>t, <2>5, <2>6 DEF CommitWrite, TypeOK
<1>11. ASSUME NEW a \in Apps, Close(a) PROVE TypeOK'
  BY <1>11, <1>t, <1>k DEF Close, TypeOK, NotOpen, maintenance
<1>12. ASSUME NEW a \in Apps, Crash(a) PROVE TypeOK'
  BY <1>12, <1>t, <1>k DEF Crash, TypeOK, NotOpen, Fault, maintenance
<1>13. ASSUME NEW u \in Upgraders, BeginUpgrade(u) PROVE TypeOK'
  BY <1>13, <1>t, <1>k DEF BeginUpgrade, TypeOK, IsOld
<1>14. ASSUME NEW u \in Upgraders, ReserveBackup(u) PROVE TypeOK'
  <2>1. work' \in [Upgraders -> WorkRecord]
    BY <1>14, <1>r, Records DEF ReserveBackup, Upgrading, WorkRecord
  <2>2. backup' \in [Upgraders -> Database \cup {None}]
    BY <1>14, <1>t, <1>k DEF ReserveBackup, TypeOK
  <2> QED
    BY <1>14, <1>n, <2>1, <2>2 DEF ReserveBackup
<1>15. ASSUME NEW u \in Upgraders, CopyBackup(u) PROVE TypeOK'
  BY <1>15, <1>t, <1>k DEF CopyBackup, TypeOK, IsOld, NoWork
<1>16. ASSUME NEW u \in Upgraders, LockUpgrade(u) PROVE TypeOK'
  BY <1>16, <1>t, <1>a, <1>b, <1>k
     DEF LockUpgrade, TypeOK, IsOld, NoWork, AppInv, Creating, UpgraderInv, AtOld, IsCurrent, maintenance
<1>17. ASSUME NEW u \in Upgraders, Backfill(u) PROVE TypeOK'
  <2>1. work[u].db \in Database
    BY <1>r DEF WorkRecord
  <2>2. [work[u].db EXCEPT !.states = work[u].db.rows] \in Database
    BY <2>1 DEF Database
  <2>3. work' \in [Upgraders -> WorkRecord]
    BY <1>17, <1>r, <2>2 DEF Backfill, WorkRecord
  <2> QED
    BY <1>17, <1>n, <1>t, <2>3 DEF Backfill, TypeOK
<1>18. ASSUME NEW u \in Upgraders, Stamp(u) PROVE TypeOK'
  <2>1. work[u].db \in Database
    BY <1>r DEF WorkRecord
  <2>2. ASSUME NEW d \in Database
        PROVE  [d EXCEPT !.ledger = Migrations, !.identity = "current"] \in Database
    <3>1. [d EXCEPT !.ledger = Migrations] \in Database
      BY DEF Database
    <3> QED
      BY <3>1 DEF Database
  <2>4. work' \in [Upgraders -> WorkRecord]
    BY <1>18, <2>1, <2>2, <1>r DEF Stamp, WorkRecord
  <2> QED
    BY <1>18, <1>n, <1>t, <2>4 DEF Stamp, TypeOK
<1>19. ASSUME NEW u \in Upgraders, CommitUpgrade(u) PROVE TypeOK'
  BY <1>19, <1>t, <1>a, <1>b, <1>k
     DEF CommitUpgrade, TypeOK, IsCurrent, NoWork, AppInv, Creating, UpgraderInv, AtOld, IsOld, maintenance
<1>20. ASSUME NEW u \in Upgraders, UpgradeFails(u) PROVE TypeOK'
  BY <1>20, <1>t, <1>k DEF UpgradeFails, TypeOK, NoWork, Fault
<1> QED
  BY <1>u, <1>1, <1>2, <1>3, <1>4, <1>5, <1>6, <1>7, <1>8, <1>9, <1>10, <1>11, <1>12, <1>13, <1>14, <1>15, <1>16, <1>17, <1>18, <1>19, <1>20
     DEF Next, Opening, Upgrade
-----------------------------------------------------------------------------
\* What a migration step does to its file, which nobody else has opened.
LEMMA MigrateEffect ==
    ASSUME LifeInv, NEW a \in Apps, Migrate(a)
    PROVE  LET f == app[a].file
           IN  /\ f \in Files /\ f = path /\ path' = path /\ app'[a].file = f
               /\ database[f].identity = "none"
               /\ \A g \in Files : g # f => database'[g] = database[g]
               /\ \A x \in Apps : x # a => app'[x] = app[x]
               /\ database'[f].rows = {} /\ database'[f].states = {}
               /\ \/ app'[a].pc = "migrate" /\ database'[f].identity = "none"
                  \/ app'[a].pc = "finish" /\ database'[f].identity = "current"
<1> DEFINE f == app[a].file
<1>1. TypeOK /\ AppInv(a) /\ app[a].pc = "migrate"
  BY DEF LifeInv, Migrate
<1>2. /\ f \in Files /\ f = path /\ database[f] \in Database
      /\ database[f].identity = "none" /\ database[f].rows = {} /\ database[f].states = {}
  BY <1>1 DEF AppInv, Creating, TypeOK
<1>3. CASE database[f].ledger < Migrations
  <2>1. app' = app /\ path' = path /\ database' = [database EXCEPT ![f].ledger = @ + 1]
    BY <1>3 DEF Migrate
  <2> QED
    BY <1>1, <1>2, <2>1 DEF TypeOK, Database
<1>4. CASE ~(database[f].ledger < Migrations)
  <2>1. /\ path' = path /\ database' = [database EXCEPT ![f].identity = "current"]
        /\ app' = [app EXCEPT ![a].pc = "finish"]
    BY <1>4 DEF Migrate
  <2> QED
    BY <1>1, <1>2, <2>1 DEF TypeOK, Database
<1> QED
  BY <1>3, <1>4

\* What creators and openers hold of their files.
LEMMA AppsNext == LifeInv /\ [Next]_vars => (\A x \in Apps : AppInv(x))'
<1> SUFFICES ASSUME LifeInv, [Next]_vars PROVE (\A x \in Apps : AppInv(x))'
  OBVIOUS
<1> DEFINE Goal == \A x \in Apps : AppInv(x)
<1> USE ProcessesAssumption
<1>t. TypeOK /\ OneCreator /\ OldStateless /\ UpgradedInv /\ NothingLost
  BY DEF LifeInv
<1>a. \A a \in Apps : AppInv(a)
  BY DEF LifeInv
<1>b. \A u \in Upgraders : UpgraderInv(u)
  BY DEF LifeInv
<1>u. CASE UNCHANGED vars
  BY <1>t, <1>a, <1>u DEF vars, AppInv, Creating, IsCurrent
<1>1. ASSUME NEW a \in Apps, NEW readonly \in BOOLEAN, OpenApplication(a, readonly) PROVE Goal'
  BY <1>1, <1>t, <1>a DEF OpenApplication, TypeOK, AppInv, Creating
<1>2. ASSUME NEW a \in Apps, Reserve(a) PROVE Goal'
  <2>1. CASE path # None
    BY <1>2, <1>t, <1>a, <2>1 DEF Reserve, TypeOK, AppInv, Creating
  <2>2. CASE path = None
    <3>1. PICK f \in Files : /\ Unused(f) /\ path' = f
                             /\ database' = [database EXCEPT ![f] = Blank]
                             /\ app' = [app EXCEPT ![a].pc = "migrate", ![a].file = f]
      BY <1>2, <2>2 DEF Reserve
    <3>2. \A x \in Apps : ~Creating(x)
      BY <1>a, <2>2 DEF AppInv, Creating
    <3>3. \A x \in Apps : x # a => app'[x] = app[x] /\ app[x].file # f
      BY <3>1, <1>t DEF TypeOK, Unused
    <3>4. app'[a].pc = "migrate" /\ app'[a].file = f /\ database'[f] = Blank
      BY <3>1, <1>t DEF TypeOK
    <3>5. \A g \in Files : g # f => database'[g] = database[g]
      BY <3>1, <1>t DEF TypeOK
    <3>6. AppInv(a)'
      <4>1. /\ database'[f].identity = "none"
            /\ database'[f].rows = {} /\ database'[f].states = {}
        BY <3>4 DEF Blank
      <4> QED
        BY <3>1, <3>4, <4>1 DEF AppInv, Creating
    <3>7. ASSUME NEW x \in Apps, x # a PROVE AppInv(x)'
      BY <1>a, <3>2, <3>3, <3>5, <3>7 DEF AppInv, Creating, IsCurrent
    <3> QED
      BY <3>6, <3>7
  <2> QED
    BY <2>1, <2>2
<1>3. ASSUME NEW a \in Apps, Migrate(a) PROVE Goal'
  <2> DEFINE f == app[a].file
  <2>1. /\ f \in Files /\ f = path /\ path' = path /\ app'[a].file = f
        /\ database[f].identity = "none"
        /\ \A g \in Files : g # f => database'[g] = database[g]
        /\ \A x \in Apps : x # a => app'[x] = app[x]
        /\ database'[f].rows = {} /\ database'[f].states = {}
        /\ \/ app'[a].pc = "migrate" /\ database'[f].identity = "none"
           \/ app'[a].pc = "finish" /\ database'[f].identity = "current"
    BY <1>3, MigrateEffect
  <2>2. AppInv(a)'
    BY <2>1 DEF AppInv, Creating
  <2>3. ASSUME NEW x \in Apps, x # a PROVE AppInv(x)'
    <3>1. ~Creating(x)
      BY <1>3, <1>t, <2>3 DEF OneCreator, Creating, Migrate
    <3>2. app[x].pc \in {"open", "write"} => app[x].file # f
      BY <1>a, <2>1 DEF AppInv, IsCurrent
    <3> QED
      BY <1>a, <2>1, <2>3, <3>1, <3>2 DEF AppInv, Creating, IsCurrent
  <2> QED
    BY <2>2, <2>3
<1>4. ASSUME NEW a \in Apps, FinishCreate(a) PROVE Goal'
  BY <1>4, <1>t, <1>a DEF FinishCreate, TypeOK, AppInv, Creating, IsCurrent
<1>5. ASSUME NEW a \in Apps, CreateFails(a) PROVE Goal'
  BY <1>5, <1>t, <1>a, <1>b
     DEF CreateFails, TypeOK, AppInv, Creating, IsCurrent, AtOld, IsOld, NotOpen, Blank, Unused, OneCreator, UpgraderInv, Database, maintenance
<1>6. ASSUME NEW a \in Apps, CreateTimesOut(a) PROVE Goal'
  BY <1>6, <1>t, <1>a, <1>b
     DEF CreateTimesOut, TypeOK, AppInv, Creating, IsCurrent, AtOld, IsOld, NotOpen, Blank, Unused, OneCreator, UpgraderInv, Database, maintenance
<1>7. ASSUME NEW a \in Apps, TryOpen(a) PROVE Goal'
  BY <1>7, <1>t, <1>a DEF TryOpen, TypeOK, AppInv, Creating, IsCurrent, IsOld, NotOpen
<1>8. ASSUME NEW a \in Apps, GiveUp(a) PROVE Goal'
  BY <1>8, <1>t, <1>a DEF GiveUp, TypeOK, AppInv, Creating, IsCurrent, IsOld, NotOpen
<1>9. ASSUME NEW a \in Apps, BeginWrite(a) PROVE Goal'
  BY <1>9, <1>t, <1>a DEF BeginWrite, TypeOK, AppInv, Creating
<1>10. ASSUME NEW a \in Apps, NEW r \in Resources, CommitWrite(a, r) PROVE Goal'
  <2> DEFINE f == app[a].file
  <2>1. f \in Files /\ IsCurrent(database[f])
    BY <1>10, <1>a DEF CommitWrite, AppInv
  <2>2. PICK rows \in {database[f].rows \cup {r}, database[f].rows \ {r}} :
          database' = [database EXCEPT ![f].rows = rows, ![f].states = @ \cup {r}]
    BY <1>10 DEF CommitWrite
  <2>3. /\ database'[f].rows = rows /\ database'[f].states = database[f].states \cup {r}
        /\ database'[f].identity = database[f].identity
        /\ database'[f].ledger = database[f].ledger /\ database'[f].sound = database[f].sound
    BY <2>1, <2>2, <1>t DEF TypeOK, Database
  <2>4. IsCurrent(database'[f])
    BY <2>1, <2>3 DEF IsCurrent
  <2>5. \A g \in Files : g # f => database'[g] = database[g]
    BY <2>2, <1>t DEF TypeOK
  <2>6. app'[a].pc = "open" /\ app'[a].file = f /\ \A x \in Apps : x # a => app'[x] = app[x]
    BY <1>10, <1>t DEF CommitWrite, TypeOK
  <2>7. path' = path
    BY <1>10 DEF CommitWrite
  <2>8. AppInv(a)'
    BY <2>1, <2>4, <2>6 DEF AppInv, Creating
  <2>9. ASSUME NEW x \in Apps, x # a PROVE AppInv(x)'
    <3>1. CASE app[x].file = f
      <4>1. app[x].pc # "migrate"
        BY <1>a, <2>1, <3>1 DEF AppInv, IsCurrent
      <4> QED
        BY <1>a, <2>1, <2>3, <2>4, <2>6, <2>7, <2>9, <3>1, <4>1 DEF AppInv, Creating
    <3>2. CASE app[x].file # f
      BY <1>a, <2>5, <2>6, <2>7, <2>9, <3>2 DEF AppInv, Creating
    <3> QED
      BY <3>1, <3>2
  <2> QED
    BY <2>8, <2>9
<1>11. ASSUME NEW a \in Apps, Close(a) PROVE Goal'
  BY <1>11, <1>t, <1>a DEF Close, TypeOK, AppInv, Creating, NotOpen
<1>12. ASSUME NEW a \in Apps, Crash(a) PROVE Goal'
  BY <1>12, <1>t, <1>a DEF Crash, TypeOK, AppInv, Creating, NotOpen, Fault
<1>13. ASSUME NEW u \in Upgraders, BeginUpgrade(u) PROVE Goal'
  BY <1>13, <1>t, <1>a DEF BeginUpgrade, TypeOK, AppInv, Creating, IsOld
<1>14. ASSUME NEW u \in Upgraders, ReserveBackup(u) PROVE Goal'
  BY <1>14, <1>t, <1>a DEF ReserveBackup, TypeOK, AppInv, Creating, NoWork, Blank, Upgrading
<1>15. ASSUME NEW u \in Upgraders, CopyBackup(u) PROVE Goal'
  BY <1>15, <1>t, <1>a DEF CopyBackup, TypeOK, AppInv, Creating, IsOld, NoWork
<1>16. ASSUME NEW u \in Upgraders, LockUpgrade(u) PROVE Goal'
  BY <1>16, <1>t, <1>a DEF LockUpgrade, TypeOK, AppInv, Creating, IsOld, NoWork
<1>17. ASSUME NEW u \in Upgraders, Backfill(u) PROVE Goal'
  BY <1>17, <1>t, <1>a DEF Backfill, TypeOK, AppInv, Creating
<1>18. ASSUME NEW u \in Upgraders, Stamp(u) PROVE Goal'
  BY <1>18, <1>t, <1>a DEF Stamp, TypeOK, AppInv, Creating
<1>19. ASSUME NEW u \in Upgraders, CommitUpgrade(u) PROVE Goal'
  BY <1>19, <1>t, <1>a, <1>b
     DEF CommitUpgrade, TypeOK, AppInv, Creating, IsCurrent, NoWork, UpgraderInv, AtOld, IsOld, maintenance
<1>20. ASSUME NEW u \in Upgraders, UpgradeFails(u) PROVE Goal'
  BY <1>20, <1>t, <1>a DEF UpgradeFails, TypeOK, AppInv, Creating, NoWork, Fault
<1> QED
  BY <1>u, <1>1, <1>2, <1>3, <1>4, <1>5, <1>6, <1>7, <1>8, <1>9, <1>10, <1>11, <1>12, <1>13, <1>14, <1>15, <1>16, <1>17, <1>18, <1>19, <1>20
     DEF Next, Opening, Upgrade

\* The exclusive creation of the file at the path lets one creator in.
LEMMA CreatorNext == LifeInv /\ [Next]_vars => (OneCreator)'
<1> SUFFICES ASSUME LifeInv, [Next]_vars PROVE (OneCreator)'
  OBVIOUS
<1> DEFINE Goal == OneCreator
<1> USE ProcessesAssumption
<1>t. TypeOK /\ OneCreator /\ OldStateless /\ UpgradedInv /\ NothingLost
  BY DEF LifeInv
<1>a. \A a \in Apps : AppInv(a)
  BY DEF LifeInv
<1>b. \A u \in Upgraders : UpgraderInv(u)
  BY DEF LifeInv
<1>u. CASE UNCHANGED vars
  BY <1>t, <1>u DEF vars, OneCreator, Creating
<1>1. ASSUME NEW a \in Apps, NEW readonly \in BOOLEAN, OpenApplication(a, readonly) PROVE Goal'
  BY <1>1, <1>t DEF OpenApplication, TypeOK, OneCreator, Creating
<1>2. ASSUME NEW a \in Apps, Reserve(a) PROVE Goal'
  BY <1>2, <1>t DEF Reserve, TypeOK, OneCreator, Creating, Blank, Unused
<1>3. ASSUME NEW a \in Apps, Migrate(a) PROVE Goal'
  BY <1>3, <1>t DEF Migrate, TypeOK, OneCreator, Creating
<1>4. ASSUME NEW a \in Apps, FinishCreate(a) PROVE Goal'
  BY <1>4, <1>t DEF FinishCreate, TypeOK, OneCreator, Creating, IsCurrent
<1>5. ASSUME NEW a \in Apps, CreateFails(a) PROVE Goal'
  BY <1>5, <1>t DEF CreateFails, TypeOK, OneCreator, Creating, NotOpen, Fault
<1>6. ASSUME NEW a \in Apps, CreateTimesOut(a) PROVE Goal'
  BY <1>6, <1>t DEF CreateTimesOut, TypeOK, OneCreator, Creating, NotOpen
<1>7. ASSUME NEW a \in Apps, TryOpen(a) PROVE Goal'
  BY <1>7, <1>t DEF TryOpen, TypeOK, OneCreator, Creating, IsCurrent, IsOld, NotOpen
<1>8. ASSUME NEW a \in Apps, GiveUp(a) PROVE Goal'
  BY <1>8, <1>t DEF GiveUp, TypeOK, OneCreator, Creating, IsCurrent, IsOld, NotOpen
<1>9. ASSUME NEW a \in Apps, BeginWrite(a) PROVE Goal'
  BY <1>9, <1>t DEF BeginWrite, TypeOK, OneCreator, Creating
<1>10. ASSUME NEW a \in Apps, NEW r \in Resources, CommitWrite(a, r) PROVE Goal'
  BY <1>10, <1>t DEF CommitWrite, TypeOK, OneCreator, Creating
<1>11. ASSUME NEW a \in Apps, Close(a) PROVE Goal'
  BY <1>11, <1>t DEF Close, TypeOK, OneCreator, Creating, NotOpen
<1>12. ASSUME NEW a \in Apps, Crash(a) PROVE Goal'
  BY <1>12, <1>t DEF Crash, TypeOK, OneCreator, Creating, NotOpen, Fault
<1>13. ASSUME NEW u \in Upgraders, BeginUpgrade(u) PROVE Goal'
  BY <1>13, <1>t DEF BeginUpgrade, TypeOK, OneCreator, Creating, IsOld
<1>14. ASSUME NEW u \in Upgraders, ReserveBackup(u) PROVE Goal'
  BY <1>14, <1>t DEF ReserveBackup, TypeOK, OneCreator, Creating, NoWork, Blank, Upgrading
<1>15. ASSUME NEW u \in Upgraders, CopyBackup(u) PROVE Goal'
  BY <1>15, <1>t DEF CopyBackup, TypeOK, OneCreator, Creating, IsOld, NoWork
<1>16. ASSUME NEW u \in Upgraders, LockUpgrade(u) PROVE Goal'
  BY <1>16, <1>t DEF LockUpgrade, TypeOK, OneCreator, Creating, IsOld, NoWork
<1>17. ASSUME NEW u \in Upgraders, Backfill(u) PROVE Goal'
  BY <1>17, <1>t DEF Backfill, TypeOK, OneCreator, Creating
<1>18. ASSUME NEW u \in Upgraders, Stamp(u) PROVE Goal'
  BY <1>18, <1>t DEF Stamp, TypeOK, OneCreator, Creating
<1>19. ASSUME NEW u \in Upgraders, CommitUpgrade(u) PROVE Goal'
  BY <1>19, <1>t DEF CommitUpgrade, TypeOK, OneCreator, Creating, IsCurrent, NoWork
<1>20. ASSUME NEW u \in Upgraders, UpgradeFails(u) PROVE Goal'
  BY <1>20, <1>t DEF UpgradeFails, TypeOK, OneCreator, Creating, NoWork, Fault
<1> QED
  BY <1>u, <1>1, <1>2, <1>3, <1>4, <1>5, <1>6, <1>7, <1>8, <1>9, <1>10, <1>11, <1>12, <1>13, <1>14, <1>15, <1>16, <1>17, <1>18, <1>19, <1>20
     DEF Next, Opening, Upgrade

\* Nothing writes publication states into an older catalog.
LEMMA OldNext == LifeInv /\ [Next]_vars => (OldStateless)'
<1> SUFFICES ASSUME LifeInv, [Next]_vars PROVE (OldStateless)'
  OBVIOUS
<1> DEFINE Goal == OldStateless
<1> USE ProcessesAssumption
<1>t. TypeOK /\ OneCreator /\ OldStateless /\ UpgradedInv /\ NothingLost
  BY DEF LifeInv
<1>a. \A a \in Apps : AppInv(a)
  BY DEF LifeInv
<1>b. \A u \in Upgraders : UpgraderInv(u)
  BY DEF LifeInv
<1>u. CASE UNCHANGED vars
  BY <1>t, <1>u DEF vars, OldStateless
<1>1. ASSUME NEW a \in Apps, NEW readonly \in BOOLEAN, OpenApplication(a, readonly) PROVE Goal'
  BY <1>1, <1>t DEF OpenApplication, TypeOK, OldStateless
<1>2. ASSUME NEW a \in Apps, Reserve(a) PROVE Goal'
  BY <1>2, <1>t DEF Reserve, TypeOK, OldStateless, Blank, Unused
<1>3. ASSUME NEW a \in Apps, Migrate(a) PROVE Goal'
  BY <1>3, <1>t, MigrateEffect DEF OldStateless
<1>4. ASSUME NEW a \in Apps, FinishCreate(a) PROVE Goal'
  BY <1>4, <1>t DEF FinishCreate, TypeOK, OldStateless, IsCurrent
<1>5. ASSUME NEW a \in Apps, CreateFails(a) PROVE Goal'
  BY <1>5, <1>t DEF CreateFails, TypeOK, OldStateless, NotOpen, Fault
<1>6. ASSUME NEW a \in Apps, CreateTimesOut(a) PROVE Goal'
  BY <1>6, <1>t DEF CreateTimesOut, TypeOK, OldStateless, NotOpen
<1>7. ASSUME NEW a \in Apps, TryOpen(a) PROVE Goal'
  BY <1>7, <1>t DEF TryOpen, TypeOK, OldStateless, IsCurrent, IsOld, NotOpen
<1>8. ASSUME NEW a \in Apps, GiveUp(a) PROVE Goal'
  BY <1>8, <1>t DEF GiveUp, TypeOK, OldStateless, IsCurrent, IsOld, NotOpen
<1>9. ASSUME NEW a \in Apps, BeginWrite(a) PROVE Goal'
  BY <1>9, <1>t DEF BeginWrite, TypeOK, OldStateless
<1>10. ASSUME NEW a \in Apps, NEW r \in Resources, CommitWrite(a, r) PROVE Goal'
  BY <1>10, <1>t, <1>a, <1>b
     DEF CommitWrite, TypeOK, OldStateless, AppInv, Creating, UpgraderInv, AtOld, IsCurrent, IsOld, maintenance
<1>11. ASSUME NEW a \in Apps, Close(a) PROVE Goal'
  BY <1>11, <1>t DEF Close, TypeOK, OldStateless, NotOpen
<1>12. ASSUME NEW a \in Apps, Crash(a) PROVE Goal'
  BY <1>12, <1>t DEF Crash, TypeOK, OldStateless, NotOpen, Fault
<1>13. ASSUME NEW u \in Upgraders, BeginUpgrade(u) PROVE Goal'
  BY <1>13, <1>t DEF BeginUpgrade, TypeOK, OldStateless, IsOld
<1>14. ASSUME NEW u \in Upgraders, ReserveBackup(u) PROVE Goal'
  BY <1>14, <1>t DEF ReserveBackup, TypeOK, OldStateless, NoWork, Blank, Upgrading
<1>15. ASSUME NEW u \in Upgraders, CopyBackup(u) PROVE Goal'
  BY <1>15, <1>t DEF CopyBackup, TypeOK, OldStateless, IsOld, NoWork
<1>16. ASSUME NEW u \in Upgraders, LockUpgrade(u) PROVE Goal'
  BY <1>16, <1>t DEF LockUpgrade, TypeOK, OldStateless, IsOld, NoWork
<1>17. ASSUME NEW u \in Upgraders, Backfill(u) PROVE Goal'
  BY <1>17, <1>t DEF Backfill, TypeOK, OldStateless
<1>18. ASSUME NEW u \in Upgraders, Stamp(u) PROVE Goal'
  BY <1>18, <1>t DEF Stamp, TypeOK, OldStateless
<1>19. ASSUME NEW u \in Upgraders, CommitUpgrade(u) PROVE Goal'
  BY <1>19, <1>t DEF CommitUpgrade, TypeOK, OldStateless, IsCurrent, NoWork
<1>20. ASSUME NEW u \in Upgraders, UpgradeFails(u) PROVE Goal'
  BY <1>20, <1>t DEF UpgradeFails, TypeOK, OldStateless, NoWork, Fault
<1> QED
  BY <1>u, <1>1, <1>2, <1>3, <1>4, <1>5, <1>6, <1>7, <1>8, <1>9, <1>10, <1>11, <1>12, <1>13, <1>14, <1>15, <1>16, <1>17, <1>18, <1>19, <1>20
     DEF Next, Opening, Upgrade

\* The older catalog a maintenance call has read does not change before its commit.
LEMMA UpgradersNext == LifeInv /\ [Next]_vars => (\A x \in Upgraders : UpgraderInv(x))'
<1> SUFFICES ASSUME LifeInv, [Next]_vars PROVE (\A x \in Upgraders : UpgraderInv(x))'
  OBVIOUS
<1> DEFINE Goal == \A x \in Upgraders : UpgraderInv(x)
<1> USE ProcessesAssumption
<1>t. TypeOK /\ OneCreator /\ OldStateless /\ UpgradedInv /\ NothingLost
  BY DEF LifeInv
<1>a. \A a \in Apps : AppInv(a)
  BY DEF LifeInv
<1>b. \A u \in Upgraders : UpgraderInv(u)
  BY DEF LifeInv
<1>u. CASE UNCHANGED vars
  BY <1>t, <1>b, <1>u DEF vars, UpgraderInv, AtOld, IsOld
<1>1. ASSUME NEW a \in Apps, NEW readonly \in BOOLEAN, OpenApplication(a, readonly) PROVE Goal'
  BY <1>1, <1>t, <1>b DEF OpenApplication, TypeOK, UpgraderInv, AtOld, maintenance
<1>2. ASSUME NEW a \in Apps, Reserve(a) PROVE Goal'
  BY <1>2, <1>t, <1>b DEF Reserve, TypeOK, UpgraderInv, AtOld, Blank, Unused, maintenance
<1>3. ASSUME NEW a \in Apps, Migrate(a) PROVE Goal'
  BY <1>3, <1>t, <1>a, <1>b
     DEF Migrate, TypeOK, UpgraderInv, AppInv, Creating, IsCurrent, AtOld, IsOld, NotOpen, NoWork, Blank, Upgrading, Fault, UpgradedInv, Database, OldStateless, maintenance
<1>4. ASSUME NEW a \in Apps, FinishCreate(a) PROVE Goal'
  BY <1>4, <1>t, <1>b DEF FinishCreate, TypeOK, UpgraderInv, AtOld, IsCurrent, maintenance
<1>5. ASSUME NEW a \in Apps, CreateFails(a) PROVE Goal'
  BY <1>5, <1>t, <1>a, <1>b
     DEF CreateFails, TypeOK, UpgraderInv, AtOld, NotOpen, Fault, AppInv, Creating, IsCurrent, IsOld, maintenance
<1>6. ASSUME NEW a \in Apps, CreateTimesOut(a) PROVE Goal'
  BY <1>6, <1>t, <1>a, <1>b
     DEF CreateTimesOut, TypeOK, UpgraderInv, AtOld, NotOpen, AppInv, Creating, IsCurrent, IsOld, maintenance
<1>7. ASSUME NEW a \in Apps, TryOpen(a) PROVE Goal'
  BY <1>7, <1>t, <1>b
     DEF TryOpen, TypeOK, UpgraderInv, AtOld, IsCurrent, IsOld, NotOpen, maintenance
<1>8. ASSUME NEW a \in Apps, GiveUp(a) PROVE Goal'
  BY <1>8, <1>t, <1>b DEF GiveUp, TypeOK, UpgraderInv, AtOld, IsCurrent, IsOld, NotOpen, maintenance
<1>9. ASSUME NEW a \in Apps, BeginWrite(a) PROVE Goal'
  BY <1>9, <1>t, <1>b DEF BeginWrite, TypeOK, UpgraderInv, AtOld, maintenance
<1>10. ASSUME NEW a \in Apps, NEW r \in Resources, CommitWrite(a, r) PROVE Goal'
  BY <1>10, <1>t, <1>a, <1>b
     DEF CommitWrite, TypeOK, UpgraderInv, AtOld, AppInv, Creating, IsCurrent, IsOld, maintenance
<1>11. ASSUME NEW a \in Apps, Close(a) PROVE Goal'
  BY <1>11, <1>t, <1>b DEF Close, TypeOK, UpgraderInv, AtOld, NotOpen, maintenance
<1>12. ASSUME NEW a \in Apps, Crash(a) PROVE Goal'
  BY <1>12, <1>t, <1>b DEF Crash, TypeOK, UpgraderInv, AtOld, NotOpen, Fault, maintenance
<1>13. ASSUME NEW u \in Upgraders, BeginUpgrade(u) PROVE Goal'
  BY <1>13, <1>t, <1>b DEF BeginUpgrade, TypeOK, UpgraderInv, AtOld, IsOld
<1>14. ASSUME NEW u \in Upgraders, ReserveBackup(u) PROVE Goal'
  <2>1. \A x \in Upgraders : x # u => work'[x] = work[x] /\ backup'[x] = backup[x]
    BY <1>14, <1>t DEF ReserveBackup, Upgrading, TypeOK
  <2>2. work'[u].pc = "idle" \/ (work'[u].pc = "copy" /\ work'[u].db = work[u].db)
    BY <1>14, <1>t DEF ReserveBackup, Upgrading, TypeOK, NoWork
  <2>3. UNCHANGED <<path, database, writer>> /\ work[u].pc = "reserve"
    BY <1>14 DEF ReserveBackup
  <2>4. UpgraderInv(u)'
    BY <1>b, <2>2, <2>3 DEF UpgraderInv, AtOld
  <2>5. ASSUME NEW x \in Upgraders, x # u PROVE UpgraderInv(x)'
    BY <1>b, <2>1, <2>3, <2>5 DEF UpgraderInv, AtOld
  <2> QED
    BY <2>4, <2>5
<1>15. ASSUME NEW u \in Upgraders, CopyBackup(u) PROVE Goal'
  BY <1>15, <1>t, <1>b DEF CopyBackup, TypeOK, UpgraderInv, AtOld, IsOld, NoWork
<1>16. ASSUME NEW u \in Upgraders, LockUpgrade(u) PROVE Goal'
  <2>0. UNCHANGED <<path, database, backup>> /\ path \in Files /\ work[u].pc = "lock"
    BY <1>16, <1>t DEF LockUpgrade, TypeOK
  <2>1. \A x \in Upgraders : x # u => work'[x] = work[x]
    BY <1>16, <1>t DEF LockUpgrade, TypeOK
  <2>2. \A x \in Upgraders : writer[path] # x
    BY <1>16 DEF LockUpgrade
  <2>3. ASSUME NEW x \in Upgraders, x # u PROVE UpgraderInv(x)'
    BY <1>b, <2>0, <2>1, <2>2, <2>3 DEF UpgraderInv, AtOld
  <2>4. CASE AtOld
    <3>1. work'[u].pc = "backfill" /\ work'[u].db = database[path] /\ writer'[path] = u
      BY <1>16, <1>t, <2>0, <2>4 DEF LockUpgrade, AtOld, TypeOK
    <3>2. backup[u] = database[path]
      BY <1>b, <2>0, <2>4 DEF UpgraderInv
    <3>3. UpgraderInv(u)'
      BY <2>0, <2>4, <3>1, <3>2 DEF UpgraderInv, AtOld
    <3> QED
      BY <2>3, <3>3
  <2>5. CASE ~AtOld
    <3>1. work'[u].pc = "idle"
      BY <1>16, <1>t, <2>0, <2>5 DEF LockUpgrade, AtOld, TypeOK, NoWork
    <3> QED
      BY <2>3, <3>1 DEF UpgraderInv
  <2> QED
    BY <2>4, <2>5
<1>17. ASSUME NEW u \in Upgraders, Backfill(u) PROVE Goal'
  BY <1>17, <1>t, <1>b DEF Backfill, TypeOK, UpgraderInv, AtOld
<1>18. ASSUME NEW u \in Upgraders, Stamp(u) PROVE Goal'
  BY <1>18, <1>t, <1>b DEF Stamp, TypeOK, UpgraderInv, AtOld
<1>19. ASSUME NEW u \in Upgraders, CommitUpgrade(u) PROVE Goal'
  BY <1>19, <1>t, <1>a, <1>b
     DEF CommitUpgrade, TypeOK, UpgraderInv, AtOld, IsCurrent, NoWork, AppInv, Creating, IsOld, maintenance
<1>20. ASSUME NEW u \in Upgraders, UpgradeFails(u) PROVE Goal'
  BY <1>20, <1>t, <1>b DEF UpgradeFails, TypeOK, UpgraderInv, AtOld, NoWork, Fault
<1> QED
  BY <1>u, <1>1, <1>2, <1>3, <1>4, <1>5, <1>6, <1>7, <1>8, <1>9, <1>10, <1>11, <1>12, <1>13, <1>14, <1>15, <1>16, <1>17, <1>18, <1>19, <1>20
     DEF Next, Opening, Upgrade

\* After an upgrade there is no older catalog, and its backup is left alone.
LEMMA UpgradedNext == LifeInv /\ [Next]_vars => (UpgradedInv)'
<1> SUFFICES ASSUME LifeInv, [Next]_vars PROVE (UpgradedInv)'
  OBVIOUS
<1> DEFINE Goal == UpgradedInv
<1> USE ProcessesAssumption
<1>t. TypeOK /\ OneCreator /\ OldStateless /\ UpgradedInv /\ NothingLost
  BY DEF LifeInv
<1>a. \A a \in Apps : AppInv(a)
  BY DEF LifeInv
<1>b. \A u \in Upgraders : UpgraderInv(u)
  BY DEF LifeInv
<1>u. CASE UNCHANGED vars
  BY <1>t, <1>u DEF vars, UpgradedInv, AtOld, IsOld
<1>1. ASSUME NEW a \in Apps, NEW readonly \in BOOLEAN, OpenApplication(a, readonly) PROVE Goal'
  BY <1>1, <1>t DEF OpenApplication, TypeOK, UpgradedInv, AtOld, maintenance
<1>2. ASSUME NEW a \in Apps, Reserve(a) PROVE Goal'
  BY <1>2, <1>t DEF Reserve, TypeOK, UpgradedInv, AtOld, Blank, Unused, maintenance
<1>3. ASSUME NEW a \in Apps, Migrate(a) PROVE Goal'
  BY <1>3, <1>t, <1>a, <1>b
     DEF Migrate, TypeOK, UpgraderInv, AppInv, Creating, IsCurrent, AtOld, IsOld, NotOpen, NoWork, Blank, Upgrading, Fault, UpgradedInv, Database, maintenance
<1>4. ASSUME NEW a \in Apps, FinishCreate(a) PROVE Goal'
  BY <1>4, <1>t DEF FinishCreate, TypeOK, UpgradedInv, AtOld, IsCurrent, maintenance
<1>5. ASSUME NEW a \in Apps, CreateFails(a) PROVE Goal'
  BY <1>5, <1>t DEF CreateFails, TypeOK, UpgradedInv, AtOld, NotOpen, Fault, maintenance
<1>6. ASSUME NEW a \in Apps, CreateTimesOut(a) PROVE Goal'
  BY <1>6, <1>t DEF CreateTimesOut, TypeOK, UpgradedInv, AtOld, NotOpen, maintenance
<1>7. ASSUME NEW a \in Apps, TryOpen(a) PROVE Goal'
  BY <1>7, <1>t DEF TryOpen, TypeOK, UpgradedInv, AtOld, IsCurrent, IsOld, NotOpen, maintenance
<1>8. ASSUME NEW a \in Apps, GiveUp(a) PROVE Goal'
  BY <1>8, <1>t DEF GiveUp, TypeOK, UpgradedInv, AtOld, IsCurrent, IsOld, NotOpen, maintenance
<1>9. ASSUME NEW a \in Apps, BeginWrite(a) PROVE Goal'
  BY <1>9, <1>t DEF BeginWrite, TypeOK, UpgradedInv, AtOld, maintenance
<1>10. ASSUME NEW a \in Apps, NEW r \in Resources, CommitWrite(a, r) PROVE Goal'
  BY <1>10, <1>t, <1>a, <1>b
     DEF CommitWrite, TypeOK, UpgradedInv, AtOld, AppInv, Creating, UpgraderInv, IsCurrent, IsOld, maintenance
<1>11. ASSUME NEW a \in Apps, Close(a) PROVE Goal'
  BY <1>11, <1>t DEF Close, TypeOK, UpgradedInv, AtOld, NotOpen, maintenance
<1>12. ASSUME NEW a \in Apps, Crash(a) PROVE Goal'
  BY <1>12, <1>t DEF Crash, TypeOK, UpgradedInv, AtOld, NotOpen, Fault, maintenance
<1>13. ASSUME NEW u \in Upgraders, BeginUpgrade(u) PROVE Goal'
  BY <1>13, <1>t DEF BeginUpgrade, TypeOK, UpgradedInv, AtOld, IsOld
<1>14. ASSUME NEW u \in Upgraders, ReserveBackup(u) PROVE Goal'
  BY <1>14, <1>t DEF ReserveBackup, TypeOK, UpgradedInv, AtOld, NoWork, Blank, Upgrading
<1>15. ASSUME NEW u \in Upgraders, CopyBackup(u) PROVE Goal'
  BY <1>15, <1>t DEF CopyBackup, TypeOK, UpgradedInv, AtOld, IsOld, NoWork
<1>16. ASSUME NEW u \in Upgraders, LockUpgrade(u) PROVE Goal'
  BY <1>16, <1>t DEF LockUpgrade, TypeOK, UpgradedInv, AtOld, IsOld, NoWork
<1>17. ASSUME NEW u \in Upgraders, Backfill(u) PROVE Goal'
  BY <1>17, <1>t DEF Backfill, TypeOK, UpgradedInv, AtOld
<1>18. ASSUME NEW u \in Upgraders, Stamp(u) PROVE Goal'
  BY <1>18, <1>t DEF Stamp, TypeOK, UpgradedInv, AtOld
<1>19. ASSUME NEW u \in Upgraders, CommitUpgrade(u) PROVE Goal'
  BY <1>19, <1>t, <1>a, <1>b
     DEF CommitUpgrade, TypeOK, UpgradedInv, AtOld, IsCurrent, NoWork, AppInv, Creating, UpgraderInv, IsOld, maintenance
<1>20. ASSUME NEW u \in Upgraders, UpgradeFails(u) PROVE Goal'
  BY <1>20, <1>t DEF UpgradeFails, TypeOK, UpgradedInv, AtOld, NoWork, Fault
<1> QED
  BY <1>u, <1>1, <1>2, <1>3, <1>4, <1>5, <1>6, <1>7, <1>8, <1>9, <1>10, <1>11, <1>12, <1>13, <1>14, <1>15, <1>16, <1>17, <1>18, <1>19, <1>20
     DEF Next, Opening, Upgrade

\* A failing creator removes a file nobody has written to, unless it fails late.
LEMMA NothingLostNext == LifeInv /\ [Next]_vars => (NothingLost)'
<1> SUFFICES ASSUME LifeInv, [Next]_vars PROVE (NothingLost)'
  OBVIOUS
<1> DEFINE Goal == NothingLost
<1> USE ProcessesAssumption
<1>t. TypeOK /\ OneCreator /\ OldStateless /\ UpgradedInv /\ NothingLost
  BY DEF LifeInv
<1>a. \A a \in Apps : AppInv(a)
  BY DEF LifeInv
<1>b. \A u \in Upgraders : UpgraderInv(u)
  BY DEF LifeInv
<1>u. CASE UNCHANGED vars
  BY <1>t, <1>u DEF vars, NothingLost
<1>1. ASSUME NEW a \in Apps, NEW readonly \in BOOLEAN, OpenApplication(a, readonly) PROVE Goal'
  BY <1>1, <1>t DEF OpenApplication, TypeOK, NothingLost
<1>2. ASSUME NEW a \in Apps, Reserve(a) PROVE Goal'
  <2>1. CASE path # None
    BY <1>2, <1>t, <2>1 DEF Reserve, TypeOK, NothingLost
  <2>2. CASE path = None
    <3>1. ~late => acked = {} /\ \A x \in Apps : app[x].pc \notin {"open", "write"}
      BY <1>t, <1>a, <2>2 DEF NothingLost, AppInv
    <3>2. late' = late /\ acked' = acked
      BY <1>2 DEF Reserve
    <3>3. app'[a].pc = "migrate" /\ \A x \in Apps : x # a => app'[x] = app[x]
      BY <1>2, <1>t, <2>2 DEF Reserve, TypeOK
    <3> QED
      BY <3>1, <3>2, <3>3 DEF NothingLost
  <2> QED
    BY <2>1, <2>2
<1>3. ASSUME NEW a \in Apps, Migrate(a) PROVE Goal'
  <2>1. ~late => acked = {} /\ \A x \in Apps : app[x].pc \in {"open", "write"} => app[x].file = path
    BY <1>3, <1>t, <1>a DEF NothingLost, AppInv, Creating, Migrate
  <2>2. late' = late /\ acked' = acked /\ path' = path
    BY <1>3 DEF Migrate
  <2>3. app'[a].pc \in {"migrate", "finish"} /\ \A x \in Apps : x # a => app'[x] = app[x]
    BY <1>3, MigrateEffect
  <2> QED
    BY <2>1, <2>2, <2>3 DEF NothingLost
<1>4. ASSUME NEW a \in Apps, FinishCreate(a) PROVE Goal'
  BY <1>4, <1>t, <1>a, <1>b
     DEF FinishCreate, TypeOK, NothingLost, IsCurrent, AppInv, Creating, UpgraderInv, AtOld, IsOld, maintenance
<1>5. ASSUME NEW a \in Apps, CreateFails(a) PROVE Goal'
  BY <1>5, <1>t, <1>a, <1>b
     DEF CreateFails, TypeOK, NothingLost, NotOpen, Fault, AppInv, Creating, UpgraderInv, AtOld, IsCurrent, IsOld, maintenance
<1>6. ASSUME NEW a \in Apps, CreateTimesOut(a) PROVE Goal'
  BY <1>6, <1>t DEF CreateTimesOut, TypeOK, NothingLost, NotOpen
<1>7. ASSUME NEW a \in Apps, TryOpen(a) PROVE Goal'
  BY <1>7, <1>t, <1>a, <1>b
     DEF TryOpen, TypeOK, NothingLost, IsCurrent, IsOld, NotOpen, AppInv, Creating, UpgraderInv, AtOld, maintenance
<1>8. ASSUME NEW a \in Apps, GiveUp(a) PROVE Goal'
  BY <1>8, <1>t DEF GiveUp, TypeOK, NothingLost, IsCurrent, IsOld, NotOpen
<1>9. ASSUME NEW a \in Apps, BeginWrite(a) PROVE Goal'
  BY <1>9, <1>t DEF BeginWrite, TypeOK, NothingLost
<1>10. ASSUME NEW a \in Apps, NEW r \in Resources, CommitWrite(a, r) PROVE Goal'
  BY <1>10, <1>t, <1>a, <1>b
     DEF CommitWrite, TypeOK, NothingLost, AppInv, Creating, UpgraderInv, AtOld, IsCurrent, IsOld, maintenance
<1>11. ASSUME NEW a \in Apps, Close(a) PROVE Goal'
  BY <1>11, <1>t DEF Close, TypeOK, NothingLost, NotOpen
<1>12. ASSUME NEW a \in Apps, Crash(a) PROVE Goal'
  BY <1>12, <1>t DEF Crash, TypeOK, NothingLost, NotOpen, Fault
<1>13. ASSUME NEW u \in Upgraders, BeginUpgrade(u) PROVE Goal'
  BY <1>13, <1>t DEF BeginUpgrade, TypeOK, NothingLost, IsOld
<1>14. ASSUME NEW u \in Upgraders, ReserveBackup(u) PROVE Goal'
  BY <1>14, <1>t DEF ReserveBackup, TypeOK, NothingLost, NoWork, Blank, Upgrading
<1>15. ASSUME NEW u \in Upgraders, CopyBackup(u) PROVE Goal'
  BY <1>15, <1>t DEF CopyBackup, TypeOK, NothingLost, IsOld, NoWork
<1>16. ASSUME NEW u \in Upgraders, LockUpgrade(u) PROVE Goal'
  BY <1>16, <1>t DEF LockUpgrade, TypeOK, NothingLost, IsOld, NoWork
<1>17. ASSUME NEW u \in Upgraders, Backfill(u) PROVE Goal'
  BY <1>17, <1>t DEF Backfill, TypeOK, NothingLost
<1>18. ASSUME NEW u \in Upgraders, Stamp(u) PROVE Goal'
  BY <1>18, <1>t DEF Stamp, TypeOK, NothingLost
<1>19. ASSUME NEW u \in Upgraders, CommitUpgrade(u) PROVE Goal'
  BY <1>19, <1>t, <1>a, <1>b
     DEF CommitUpgrade, TypeOK, NothingLost, UpgraderInv, AppInv, Creating, IsCurrent, AtOld, IsOld, NotOpen, OldStateless, Database, maintenance
<1>20. ASSUME NEW u \in Upgraders, UpgradeFails(u) PROVE Goal'
  BY <1>20, <1>t DEF UpgradeFails, TypeOK, NothingLost, NoWork, Fault
<1> QED
  BY <1>u, <1>1, <1>2, <1>3, <1>4, <1>5, <1>6, <1>7, <1>8, <1>9, <1>10, <1>11, <1>12, <1>13, <1>14, <1>15, <1>16, <1>17, <1>18, <1>19, <1>20
     DEF Next, Opening, Upgrade

-----------------------------------------------------------------------------
\* LifeInv is inductive: no step of an opener, a creator or a maintenance call leaves it.
LEMMA LifeInvariant == Spec => []LifeInv
<1>1. LifeInv /\ [Next]_vars => LifeInv'
  BY LifeTypeNext, AppsNext, CreatorNext, OldNext, UpgradersNext, UpgradedNext, NothingLostNext
     DEF LifeInv
<1> QED
  BY LifeInit, <1>1, PTL DEF Spec

\* Type correctness of the catalog's files and of the processes that use them.
THEOREM CatalogTypeCorrect == Spec => []TypeOK
<1>1. LifeInv => TypeOK
  BY DEF LifeInv
<1> QED
  BY LifeInvariant, <1>1, PTL

\* _open and _create_clean hand out complete current catalogs only, however many
\* processes create, open and upgrade at the same time.
THEOREM OnlyCompleteOpened == Spec => []OpenedComplete
<1>1. LifeInv => OpenedComplete
  BY DEF LifeInv, AppInv, OpenedComplete
<1> QED
  BY LifeInvariant, <1>1, PTL

\* The clean-up of _create_clean takes nothing from anybody and no acknowledged write is
\* lost, unless a creator fails after it has committed the identity row.
THEOREM WritesSurvive == Spec => []NothingLost
<1>1. LifeInv => NothingLost
  BY DEF LifeInv
<1> QED
  BY LifeInvariant, <1>1, PTL

\* The backup of upgrade_v2_file is the catalog it has upgraded, although it is copied
\* before the write lock is taken.
THEOREM UpgradeBackedUp == Spec => []BackupHolds
<1>1. LifeInv => BackupHolds
  BY DEF LifeInv, UpgradedInv, BackupHolds
<1> QED
  BY LifeInvariant, <1>1, PTL

\* Unless a creator fails after it has committed the identity row, and its clean-up removes
\* a catalog others already use (catalog.py:256), an acknowledged write stays in the catalog
\* at the path; and, with or without such a failure, an upgraded catalog has a backup that
\* is all of it as it was.
THEOREM CommitsKeptUnlessLate == Spec => []CommitsKept
BY WritesSurvive, UpgradeBackedUp, PTL DEF CommitsKept

\* No step, a second maintenance call included, takes a publication state out of a
\* current catalog.
THEOREM StatesNeverReset == Spec => StatesKept
<1> DEFINE Kept == \A f \in Files : database[f].identity = "current" /\ f = path /\ path' = path =>
                     database[f].states \subseteq database'[f].states
<1>1. LifeInv /\ [Next]_vars => [Kept]_vars
  <2> SUFFICES ASSUME LifeInv, Next, NEW f \in Files,
                      database[f].identity = "current", f = path, path' = path
               PROVE  database[f].states \subseteq database'[f].states
    OBVIOUS
  <2>t. TypeOK
    BY DEF LifeInv
  <2>1. CASE database' = database
    BY <2>1
  <2>2. ASSUME NEW a \in Apps, Migrate(a) PROVE FALSE
    BY <2>2, MigrateEffect
  <2>3. ASSUME NEW a \in Apps, Reserve(a), database' # database PROVE FALSE
    BY <2>3, ProcessesAssumption DEF Reserve
  <2>4. ASSUME NEW a \in Apps, NEW r \in Resources, CommitWrite(a, r)
        PROVE  database[f].states \subseteq database'[f].states
    <3>1. app[a].file \in Files
      BY <2>4 DEF LifeInv, AppInv, CommitWrite
    <3>2. PICK rows : database' = [database EXCEPT ![app[a].file].rows = rows,
                                                   ![app[a].file].states = @ \cup {r}]
      BY <2>4 DEF CommitWrite
    <3> QED
      BY <2>t, <3>1, <3>2 DEF TypeOK, Database
  <2>5. ASSUME NEW u \in Upgraders, CommitUpgrade(u) PROVE FALSE
    BY <2>5 DEF LifeInv, UpgraderInv, AtOld, IsOld, CommitUpgrade
  <2>6. \/ database' = database
        \/ \E a \in Apps : Migrate(a) \/ (Reserve(a) /\ database' # database)
                            \/ \E r \in Resources : CommitWrite(a, r)
        \/ \E u \in Upgraders : CommitUpgrade(u)
    BY DEF Next, Opening, Upgrade, OpenApplication, FinishCreate, CreateFails, CreateTimesOut,
           TryOpen, GiveUp, BeginWrite, Close, Crash, BeginUpgrade, ReserveBackup, CopyBackup,
           LockUpgrade, Backfill, Stamp, UpgradeFails
  <2> QED
    BY <2>1, <2>2, <2>3, <2>4, <2>5, <2>6
<1> QED
  BY LifeInvariant, <1>1, PTL DEF Spec, StatesKept
=============================================================================
