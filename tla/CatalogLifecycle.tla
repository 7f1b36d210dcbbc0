-------------------------- MODULE CatalogLifecycle --------------------------
(***************************************************************************)
(* The life of the one catalog file of a store: created at its final path  *)
(* by the first writer (SQLiteCatalog._create_clean), opened by everybody  *)
(* else with a deadline (canonical_catalog._open_verified_v2), upgraded    *)
(* from the recognised older schema by an explicit maintenance call        *)
(* (upgrade.upgrade_v2_file).                                              *)
(*                                                                         *)
(* A database is its migration ledger, its identity row, the resources     *)
(* with a graph (rows), the resources with a publication state (states)    *)
(* and whether its integrity and graph checks succeed (sound).  Files have *)
(* identities: a connection stays with the file it was opened on when that *)
(* file is unlinked.  SQLite commits atomically and has one writer.        *)
(*                                                                         *)
(* Consumers of the older software are stopped during maintenance, which   *)
(* the upgrade demands of its caller; they are not modelled.               *)
(***************************************************************************)
EXTENDS Naturals, FiniteSets

CONSTANTS Apps,        \* processes that open the store
          Upgraders,   \* maintenance calls
          Resources,
          Files,       \* identities of database files
          None,
          Migrations,  \* how many scripts the plan has; the older schema lacks the last
          InitCatalogs, \* what the store may hold at first: "none", an "old" catalog
          Faults,      \* the failures met: "crash", "error", "late", "busy"
          MaxFaults    \* how many of them

ASSUME PlanAssumption == Migrations \in Nat /\ Migrations >= 1
ASSUME FaultsAssumption == MaxFaults \in Nat
ASSUME InitAssumption == InitCatalogs \subseteq {"none", "old"}
ASSUME ProcessesAssumption == /\ Apps \cap Upgraders = {}
                              /\ None \notin Apps \cup Upgraders \cup Files

VARIABLES path,      \* the file at the catalog's path
          database,  \* database[f]: what is committed in file f
          writer,    \* writer[f]: who holds the write lock of file f
          app,       \* app[a]: what process a does and the file it is connected to
          work,      \* work[u]: upgrader u: step, snapshot and transaction
          backup,    \* backup[u]: the file at u's backup path
          upgraded,  \* history: who upgraded, and what the catalog was
          acked,     \* history: the resources whose writes have been acknowledged
          late,      \* history: has a creator failed with a complete catalog
          faults

vars == <<path, database, writer, app, work, backup, upgraded, acked, late, faults>>

Blank == [ledger |-> 0, identity |-> "none", rows |-> {}, states |-> {}, sound |-> TRUE]
OldCatalog(ok) == [ledger |-> Migrations - 1, identity |-> "old", rows |-> Resources,
                   states |-> {}, sound |-> ok]
Database == [ledger : 0 .. Migrations, identity : {"none", "old", "current"},
             rows : SUBSET Resources, states : SUBSET Resources, sound : BOOLEAN]
ASSUME DatabaseAssumption == None \notin Database

NotOpen == [pc |-> "closed", file |-> None, readonly |-> FALSE]
NoWork == [pc |-> "idle", db |-> Blank]

TypeOK ==
    /\ path \in Files \cup {None}
    /\ database \in [Files -> Database]
    /\ writer \in [Files -> Apps \cup Upgraders \cup {None}]
    /\ app \in [Apps -> [pc : {"closed", "create", "migrate", "finish", "opening", "open", "write"},
                         file : Files \cup {None}, readonly : BOOLEAN]]
    /\ work \in [Upgraders -> [pc : {"idle", "reserve", "copy", "lock", "backfill", "stamp", "commit"},
                               db : Database]]
    /\ backup \in [Upgraders -> Database \cup {None}]
    /\ upgraded \in [by : Upgraders \cup {None}, was : Database]
    /\ acked \subseteq Resources
    /\ late \in BOOLEAN
    /\ faults \in 0 .. MaxFaults

Init ==
    /\ \/ "none" \in InitCatalogs /\ path = None
       \/ "old" \in InitCatalogs /\ path \in Files
    /\ \E ok \in BOOLEAN :              \* the older catalog may be damaged
         database = [f \in Files |-> IF f = path THEN OldCatalog(ok) ELSE Blank]
    /\ writer = [f \in Files |-> None]
    /\ app = [a \in Apps |-> NotOpen]
    /\ work = [u \in Upgraders |-> NoWork]
    /\ backup = [u \in Upgraders |-> None]
    /\ upgraded = [by |-> None, was |-> Blank]
    /\ acked = IF path = None THEN {} ELSE Resources
    /\ late = FALSE
    /\ faults = 0

\* validate_v2_clean_identity and _verify_snapshot accept the database.
IsCurrent(db) == /\ db.ledger = Migrations /\ db.identity = "current"
                 /\ db.sound /\ db.rows \subseteq db.states

\* _verify_old accepts it.
IsOld(db) == /\ db.ledger = Migrations - 1 /\ db.identity = "old" /\ db.sound

Fault(kind) == kind \in Faults /\ faults < MaxFaults /\ faults' = faults + 1

Unused(f) == /\ f # path /\ \A a \in Apps : app[a].file # f

maintenance == <<work, backup, upgraded>>

-----------------------------------------------------------------------------
(* Opening, and creating when there is no catalog.                         *)

\* open_application_catalog and open_application_catalog_readonly.
OpenApplication(a, readonly) ==
    /\ app[a].pc = "closed"
    /\ path = None => ~readonly          \* a reader is told catalog_missing
    /\ app' = [app EXCEPT ![a].pc = IF path # None THEN "opening" ELSE "create",
                          ![a].readonly = readonly]
    /\ UNCHANGED <<path, database, writer, maintenance, acked, late, faults>>

\* O_CREAT | O_EXCL reserves the path: of two creators the second becomes an opener.
Reserve(a) ==
    /\ app[a].pc = "create"
    /\ IF path # None
       THEN app' = [app EXCEPT ![a].pc = "opening"] /\ UNCHANGED <<path, database>>
       ELSE \E f \in {x \in Files : Unused(x)} :
              /\ path' = f
              /\ database' = [database EXCEPT ![f] = Blank]
              /\ app' = [app EXCEPT ![a].pc = "migrate", ![a].file = f]
    /\ UNCHANGED <<writer, maintenance, acked, late, faults>>

\* apply_v2_migrations: one transaction per script, and one for the identity row.
Migrate(a) ==
    /\ app[a].pc = "migrate"
    /\ LET f == app[a].file IN
       /\ writer[f] = None
       /\ IF database[f].ledger < Migrations
          THEN database' = [database EXCEPT ![f].ledger = @ + 1] /\ UNCHANGED app
          ELSE /\ database' = [database EXCEPT ![f].identity = "current"]
               /\ app' = [app EXCEPT ![a].pc = "finish"]
    /\ UNCHANGED <<path, writer, maintenance, acked, late, faults>>

\* The vector backend is initialised in a write transaction, the whole is verified.
FinishCreate(a) ==
    /\ app[a].pc = "finish"
    /\ writer[app[a].file] = None /\ IsCurrent(database[app[a].file])
    /\ app' = [app EXCEPT ![a].pc = "open"]
    /\ UNCHANGED <<path, database, writer, maintenance, acked, late, faults>>

\* A managed failure of the creator removes the file at the path, whether it comes before
\* the identity row is committed ("error") or after it ("late").
CreateFails(a) ==
    /\ \/ app[a].pc = "migrate" /\ Fault("error")
       \/ app[a].pc = "finish" /\ Fault("late")
    /\ path' = None
    /\ app' = [app EXCEPT ![a] = NotOpen]
    /\ late' = (late \/ app[a].pc = "finish")
    /\ UNCHANGED <<database, writer, maintenance, acked>>

\* Faulty variant: the creator waits for the other writer without a timeout.
CreateWaits(a) ==
    /\ app[a].pc = "finish" /\ writer[app[a].file] # None /\ FALSE
    /\ UNCHANGED vars

\* A late failure that needs no other fault: the write transaction that initialises the
\* vector backend times out behind a process that has already opened the catalog.
CreateTimesOut(a) ==
    /\ app[a].pc = "finish" /\ writer[app[a].file] # None /\ "busy" \in Faults
    /\ path' = None
    /\ app' = [app EXCEPT ![a] = NotOpen]
    /\ late' = TRUE
    /\ UNCHANGED <<database, writer, maintenance, acked, faults>>

\* Faulty variant: an opener takes the file as it finds it.
TryOpenUnverified(a) ==
    /\ app[a].pc = "opening" /\ path # None
    /\ app' = [app EXCEPT ![a].pc = "open", ![a].file = path]
    /\ UNCHANGED <<path, database, writer, maintenance, acked, late, faults>>

\* SQLiteCatalog._open: one read transaction detects the schema and verifies all of it.
TryOpen(a) ==
    /\ app[a].pc = "opening" /\ path # None
    /\ CASE IsCurrent(database[path]) -> app' = [app EXCEPT ![a].pc = "open", ![a].file = path]
         [] IsOld(database[path]) -> app' = [app EXCEPT ![a] = NotOpen]
         [] OTHER -> FALSE               \* tried again after a pause
    /\ UNCHANGED <<path, database, writer, maintenance, acked, late, faults>>

\* The attempts have failed up to the deadline.
GiveUp(a) ==
    /\ app[a].pc = "opening"
    /\ path # None => ~IsCurrent(database[path]) /\ ~IsOld(database[path])
    /\ app' = [app EXCEPT ![a] = NotOpen]
    /\ UNCHANGED <<path, database, writer, maintenance, acked, late, faults>>

-----------------------------------------------------------------------------
(* Use: a write transaction publishes or withdraws a resource.             *)

BeginWrite(a) ==
    /\ app[a].pc = "open" /\ ~app[a].readonly
    /\ writer[app[a].file] = None
    /\ writer' = [writer EXCEPT ![app[a].file] = a]
    /\ app' = [app EXCEPT ![a].pc = "write"]
    /\ UNCHANGED <<path, database, maintenance, acked, late, faults>>

\* Faulty variant: a withdrawal takes the publication state away with the graph, and
\* nothing of the resource is owed to anybody.
CommitWriteForgets(a, r) ==
    /\ app[a].pc = "write"
    /\ \/ /\ database' = [database EXCEPT ![app[a].file].rows = @ \cup {r},
                                           ![app[a].file].states = @ \cup {r}]
          /\ acked' = acked \cup {r}
       \/ /\ database' = [database EXCEPT ![app[a].file].rows = @ \ {r},
                                           ![app[a].file].states = @ \ {r}]
          /\ acked' = acked \ {r}
    /\ writer' = [writer EXCEPT ![app[a].file] = None]
    /\ app' = [app EXCEPT ![a].pc = "open"]
    /\ UNCHANGED <<path, maintenance, late, faults>>

CommitWrite(a, r) ==
    /\ app[a].pc = "write"
    /\ \E rows \in {database[app[a].file].rows \cup {r}, database[app[a].file].rows \ {r}} :
         database' = [database EXCEPT ![app[a].file].rows = rows,
                                      ![app[a].file].states = @ \cup {r}]
    /\ acked' = acked \cup {r}
    /\ writer' = [writer EXCEPT ![app[a].file] = None]
    /\ app' = [app EXCEPT ![a].pc = "open"]
    /\ UNCHANGED <<path, maintenance, late, faults>>

Close(a) ==
    /\ app[a].pc = "open"
    /\ app' = [app EXCEPT ![a] = NotOpen]
    /\ UNCHANGED <<path, database, writer, maintenance, acked, late, faults>>

\* The process dies: its transaction is rolled back, its file stays.
Crash(a) ==
    /\ app[a].pc # "closed" /\ Fault("crash")
    /\ app' = [app EXCEPT ![a] = NotOpen]
    /\ writer' = [f \in Files |-> IF writer[f] = a THEN None ELSE writer[f]]
    /\ UNCHANGED <<path, database, maintenance, acked, late>>

-----------------------------------------------------------------------------
(* upgrade_v2_file.                                                        *)

Upgrading(u, pc) == work' = [work EXCEPT ![u].pc = pc]

\* In one read transaction: a current catalog needs nothing, an unknown one is refused.
BeginUpgrade(u) ==
    /\ work[u].pc = "idle" /\ path # None
    /\ IsOld(database[path])
    /\ work' = [work EXCEPT ![u] = [pc |-> "reserve", db |-> database[path]]]
    /\ UNCHANGED <<path, database, writer, app, backup, upgraded, acked, late, faults>>

ReserveBackup(u) ==
    /\ work[u].pc = "reserve"
    /\ IF backup[u] = None
       THEN backup' = [backup EXCEPT ![u] = Blank] /\ Upgrading(u, "copy")
       ELSE work' = [work EXCEPT ![u] = NoWork] /\ UNCHANGED backup
    /\ UNCHANGED <<path, database, writer, app, upgraded, acked, late, faults>>

\* The backup copies the snapshot of the read transaction and is verified itself.
CopyBackup(u) ==
    /\ work[u].pc = "copy"
    /\ backup' = [backup EXCEPT ![u] = work[u].db]
    /\ work' = [work EXCEPT ![u] = IF IsOld(work[u].db) THEN [@ EXCEPT !.pc = "lock"] ELSE NoWork]
    /\ UNCHANGED <<path, database, writer, app, upgraded, acked, late, faults>>

\* Faulty variant: the older schema is not verified again under the write lock.
LockUpgradeUnverified(u) ==
    /\ work[u].pc = "lock" /\ path # None /\ writer[path] = None
    /\ writer' = [writer EXCEPT ![path] = u]
    /\ work' = [work EXCEPT ![u] = [pc |-> "backfill", db |-> database[path]]]
    /\ UNCHANGED <<path, database, app, backup, upgraded, acked, late, faults>>

\* BEGIN IMMEDIATE, then the same verification again.
LockUpgrade(u) ==
    /\ work[u].pc = "lock" /\ path # None /\ writer[path] = None
    /\ IF IsOld(database[path])
       THEN /\ writer' = [writer EXCEPT ![path] = u]
            /\ work' = [work EXCEPT ![u] = [pc |-> "backfill", db |-> database[path]]]
       ELSE work' = [work EXCEPT ![u] = NoWork] /\ UNCHANGED writer
    /\ UNCHANGED <<path, database, app, backup, upgraded, acked, late, faults>>

\* 0005_publication.sql: a fresh published state for every resource there is.
Backfill(u) ==
    /\ work[u].pc = "backfill"
    /\ work' = [work EXCEPT ![u] = [pc |-> "stamp", db |-> [@.db EXCEPT !.states = work[u].db.rows]]]
    /\ UNCHANGED <<path, database, writer, app, backup, upgraded, acked, late, faults>>

Stamp(u) ==
    /\ work[u].pc = "stamp"
    /\ work' = [work EXCEPT ![u] = [pc |-> "commit",
                 db |-> [@.db EXCEPT !.ledger = Migrations, !.identity = "current"]]]
    /\ UNCHANGED <<path, database, writer, app, backup, upgraded, acked, late, faults>>

CommitUpgrade(u) ==
    /\ work[u].pc = "commit" /\ IsCurrent(work[u].db)
    /\ database' = [database EXCEPT ![path] = work[u].db]
    /\ upgraded' = [by |-> u, was |-> database[path]]
    /\ writer' = [writer EXCEPT ![path] = None]
    /\ work' = [work EXCEPT ![u] = NoWork]
    /\ UNCHANGED <<path, app, backup, acked, late, faults>>

\* An error or the death of the process: the transaction is rolled back, the backup stays.
UpgradeFails(u) ==
    /\ work[u].pc # "idle" /\ Fault("error")
    /\ work' = [work EXCEPT ![u] = NoWork]
    /\ writer' = [f \in Files |-> IF writer[f] = u THEN None ELSE writer[f]]
    /\ UNCHANGED <<path, database, app, backup, upgraded, acked, late>>

-----------------------------------------------------------------------------
Opening(a) == Reserve(a) \/ Migrate(a) \/ FinishCreate(a) \/ TryOpen(a) \/ GiveUp(a)
              \/ CreateTimesOut(a)

Upgrade(u) == \/ BeginUpgrade(u) \/ ReserveBackup(u) \/ CopyBackup(u) \/ LockUpgrade(u)
              \/ Backfill(u) \/ Stamp(u) \/ CommitUpgrade(u)

Next ==
    \/ \E a \in Apps : \/ \E readonly \in BOOLEAN : OpenApplication(a, readonly)
                       \/ Opening(a) \/ CreateFails(a)
                       \/ BeginWrite(a) \/ (\E r \in Resources : CommitWrite(a, r))
                       \/ Close(a) \/ Crash(a)
    \/ \E u \in Upgraders : Upgrade(u) \/ UpgradeFails(u)

Spec == Init /\ [][Next]_vars

\* An open call runs to its end in its own process: every wait in it has a timeout.
FairSpec ==
    /\ Spec
    /\ \A a \in Apps : WF_vars(Opening(a))

-----------------------------------------------------------------------------
(* Properties.                                                             *)

\* Whoever holds an open catalog holds a complete current one: the file stands at its
\* final path from the first moment of its creation, but no opener takes a partial one,
\* and an upgrade never shows a state between the two schemas.
OpenedComplete ==
    \A a \in Apps : app[a].pc \in {"open", "write"} => IsCurrent(database[app[a].file])

\* "existing catalog is never removed by fresh-create cleanup" (decision 0014): no clean-up of
\* a failed creation takes the catalog away from a process that has it open.
InUseKept == \A a \in Apps : app[a].pc \in {"open", "write"} => app[a].file = path

\* What a write or the older catalog established is never lost: every acknowledged resource
\* keeps its row or its publication state in the catalog at the path, and nobody works on a
\* catalog that is no longer there.  The one exception is a creator that fails after the
\* catalog is complete (InUseKept).
NothingLost ==
    ~late => /\ \A a \in Apps : app[a].pc \in {"open", "write"} => app[a].file = path
             /\ acked # {} =>
                  path # None /\ acked \subseteq database[path].rows \cup database[path].states

\* An upgrade happens at most after a verified copy: the backup of the call that upgraded
\* is the whole catalog as it was before, whatever other maintenance calls did.
BackupHolds == upgraded.by # None => backup[upgraded.by] = upgraded.was

\* Unless a creator has failed late, what was committed stays in the catalog; what an
\* upgrade replaced is in its backup in every case (_create_clean, upgrade_v2_file).
CommitsKept == NothingLost /\ BackupHolds

\* A publication state, once there, stays: neither a second maintenance call nor an opener
\* resets the states of withdrawn resources.
StatesKept ==
    [][\A f \in Files : database[f].identity = "current" /\ f = path /\ path' = path =>
          database[f].states \subseteq database'[f].states]_vars

\* Every open call ends: in an open catalog, a refusal, or at the deadline.
OpensEnd == \A a \in Apps : app[a].pc \in {"create", "migrate", "finish", "opening"}
                              ~> app[a].pc \in {"closed", "open"}
=============================================================================
