--------------------------- MODULE ResourceStore ---------------------------
(***************************************************************************)
(* SQLiteResourceStore (mdrack-sqlite): several clients, each with a       *)
(* connection of its own, read and write one catalog file.                 *)
(*                                                                         *)
(* SQLite itself is external.  What the code uses of it: BEGIN IMMEDIATE   *)
(* takes the one writer lock or times out busy; a writer's statements are  *)
(* private until COMMIT; ROLLBACK, or the death of the process, discards   *)
(* them; a read transaction in WAL mode sees the commit it started from.   *)
(***************************************************************************)
EXTENDS CatalogTables

CONSTANTS
    Clients,
    MaxTokens    \* bound: how many tokens may be issued

ASSUME MaxTokensAssumption == MaxTokens \in Nat

ASSUME ClientsAssumption == None \notin Clients

VARIABLES
    db,       \* the committed tables
    wdb,      \* the tables as the open write transaction sees them
    lock,     \* the client that holds the writer lock, or None
    minted,   \* how many lifecycle/token values have been committed
    pc,       \* where each client's call is
    view,     \* the open read transaction of a client: the state it has read
              \* and the commit it is pinned to
    snap,     \* the last ResourceSnapshot a client has read
    req       \* the client's current write call

vars == <<db, wdb, lock, minted, pc, view, snap, req>>

View == [res : Resources, state : StateType, tables : DatabaseType]

Snapshot == [res : Resources, state : StateType, graph : BatchType \cup {None}]

PublishOps   == {"replace_resource", "compare_and_publish"}
RemoveOps    == {"withdraw_if_current", "delete_if_current", "delete_resource"}
ConditionalOps == {"compare_and_publish", "withdraw_if_current", "delete_if_current"}

(***************************************************************************)
(* A write call: what it does, to which resource, with which batch, and    *)
(* the snapshot whose state a conditional call expects to find.            *)
(***************************************************************************)
Request ==
    [op   : PublishOps \cup RemoveOps \cup {"rebuild_fts_index"},
     res  : Resources \cup {None},
     batch : Batches \cup {None},
     base : Snapshot \cup {None}]

ASSUME RecordsAssumption == None \notin BatchType /\ None \notin Snapshot /\ None \notin Request

TypeOK ==
    /\ db \in DatabaseType
    /\ wdb \in DatabaseType
    /\ lock \in Clients \cup {None}
    /\ minted \in Nat
    /\ pc \in [Clients -> {"idle", "reading", "queued", "begun", "wrote", "ready"}]
    /\ view \in [Clients -> View \cup {None}]
    /\ snap \in [Clients -> Snapshot \cup {None}]
    /\ req \in [Clients -> Request \cup {None}]

Init ==
    /\ db = EmptyDatabase
    /\ wdb = EmptyDatabase
    /\ lock = None
    /\ minted = 0
    /\ pc = [c \in Clients |-> "idle"]
    /\ view = [c \in Clients |-> None]
    /\ snap = [c \in Clients |-> None]
    /\ req = [c \in Clients |-> None]

-----------------------------------------------------------------------------
(***************************************************************************)
(* read_snapshot: the state, then the graph, in one read transaction.      *)
(***************************************************************************)
ReadSnapshotState(c, r) ==
    /\ pc[c] = "idle"
    /\ pc' = [pc EXCEPT ![c] = "reading"]
    /\ view' = [view EXCEPT ![c] = [res |-> r, state |-> db.state[r], tables |-> db]]
    /\ UNCHANGED <<db, wdb, lock, minted, snap, req>>

\* Faulty variant: the graph is read outside the read transaction.
ReadSnapshotGraphLater(c) ==
    LET v == view[c]
        g == ReadGraph(db, v.res)
    IN  /\ pc[c] = "reading"
        /\ g # None <=> v.state.status = "published"
        /\ snap' = [snap EXCEPT ![c] = [res |-> v.res, state |-> v.state, graph |-> g]]
        /\ pc' = [pc EXCEPT ![c] = "idle"]
        /\ view' = [view EXCEPT ![c] = None]
        /\ UNCHANGED <<db, wdb, lock, minted, req>>

\* ResourceSnapshot refuses a graph that does not go with the state.
ReadSnapshotGraph(c) ==
    LET v == view[c]
        g == ReadGraph(v.tables, v.res)
    IN  /\ pc[c] = "reading"
        /\ g # None <=> v.state.status = "published"
        /\ snap' = [snap EXCEPT ![c] = [res |-> v.res, state |-> v.state, graph |-> g]]
        /\ pc' = [pc EXCEPT ![c] = "idle"]
        /\ view' = [view EXCEPT ![c] = None]
        /\ UNCHANGED <<db, wdb, lock, minted, req>>

-----------------------------------------------------------------------------
(***************************************************************************)
(* The write calls.  _preflight and ExpectedPublication are checked before *)
(* any transaction: a removal expects a live state; an expected state that *)
(* is not live has to be said to be a creation, which the caller can do.   *)
(***************************************************************************)
Call(c, op, r, b, base) ==
    /\ pc[c] = "idle"
    /\ minted < MaxTokens
    /\ pc' = [pc EXCEPT ![c] = "queued"]
    /\ req' = [req EXCEPT ![c] = [op |-> op, res |-> r, batch |-> b, base |-> base]]
    /\ UNCHANGED <<db, wdb, lock, minted, view, snap>>

CallReplace(c) ==
    \E b \in Batches : ValidBatch(b) /\ Call(c, "replace_resource", b.res, b, None)

CallCompareAndPublish(c) ==
    /\ snap[c] # None
    /\ \E b \in Batches :
          /\ ValidBatch(b)
          /\ snap[c].res = b.res
          /\ Call(c, "compare_and_publish", b.res, b, snap[c])

CallRemoveIfCurrent(c) ==
    /\ snap[c] # None
    /\ IsLive(snap[c].state)
    /\ \E op \in {"withdraw_if_current", "delete_if_current"} :
          Call(c, op, snap[c].res, None, snap[c])

CallDelete(c) == \E r \in Resources : Call(c, "delete_resource", r, None, None)

CallRebuild(c) == Call(c, "rebuild_fts_index", None, None, None)

-----------------------------------------------------------------------------
Finish(c) ==
    /\ pc' = [pc EXCEPT ![c] = "idle"]
    /\ req' = [req EXCEPT ![c] = None]

\* BEGIN IMMEDIATE
Begin(c) ==
    /\ pc[c] = "queued"
    /\ lock = None
    /\ lock' = c
    /\ wdb' = db
    /\ pc' = [pc EXCEPT ![c] = "begun"]
    /\ UNCHANGED <<db, minted, view, snap, req>>

\* The busy timeout expires: ADAPTER_TIMEOUT, nothing written.
Busy(c) ==
    /\ pc[c] = "queued"
    /\ lock # None
    /\ Finish(c)
    /\ UNCHANGED <<db, wdb, lock, minted, view, snap>>

\* Faulty variant: only the lifecycle is compared, not the whole state.
CurrentLifecycle(c) ==
    req[c].op \in ConditionalOps => wdb.state[req[c].res].life = req[c].base.state.life

\* previous == expected.state, read under the writer lock
Current(c) ==
    req[c].op \in ConditionalOps => wdb.state[req[c].res] = req[c].base.state

\* PublicationResult(False, previous)
Conflict(c) ==
    /\ pc[c] = "begun"
    /\ ~Current(c)
    /\ wdb' = db
    /\ lock' = None
    /\ Finish(c)
    /\ UNCHANGED <<db, minted, view, snap>>

Work(c, from, to, d) ==
    /\ pc[c] = from
    /\ wdb' = d
    /\ pc' = [pc EXCEPT ![c] = to]
    /\ UNCHANGED <<db, lock, minted, view, snap, req>>

\* _write_graph, up to and with _verify
DoWriteGraph(c) ==
    LET b == req[c].batch
    IN  /\ pc[c] = "begun"
        /\ req[c].op \in PublishOps
        /\ Current(c)
        /\ WriteAllowed(wdb, b)
        /\ VerifyWritten(WriteGraph(wdb, b), b)
        /\ Work(c, "begun", "wrote", WriteGraph(wdb, b))

\* _put_state(previous, "published", batch)
DoPutPublished(c) ==
    LET b == req[c].batch
    IN  /\ pc[c] = "wrote"
        /\ req[c].op \in PublishOps
        /\ PutAllowed(wdb.state, b.res, "published", b.src)
        /\ Work(c, "wrote", "ready",
                [wdb EXCEPT !.state = PutState(wdb.state, b.res, "published", b.src, minted + 1)])

\* the deletions of _remove_if_current and _delete_resource
DoRemoveGraph(c) ==
    /\ pc[c] = "begun"
    /\ req[c].op \in RemoveOps
    /\ Current(c)
    /\ Work(c, "begun", "wrote", RemoveGraph(wdb, req[c].res))

\* Faulty variant: a status the schema's CHECK does not know.
RemovedStatusUnknown(op) == IF op = "withdraw_if_current" THEN "withdrawn" ELSE "deleted"

\* their _put_state, which an unconditional delete skips for a resource that
\* is not live, and the pruning of facets that follows it
RemovedStatus(op) ==
    IF op = "withdraw_if_current" THEN "live_without_projections" ELSE "deleted"

DoPutRemoved(c) ==
    LET r  == req[c].res
        st == wdb.state[r]
        to == RemovedStatus(req[c].op)
    IN  /\ pc[c] = "wrote"
        /\ req[c].op \in RemoveOps
        /\ \/ /\ IsLive(st)
              /\ PutAllowed(wdb.state, r, to, st.src)
              /\ Work(c, "wrote", "ready",
                      PruneFacets([wdb EXCEPT !.state = PutState(wdb.state, r, to, st.src, minted + 1)]))
           \/ /\ ~IsLive(st)
              /\ Work(c, "wrote", "ready", PruneFacets(wdb))

DoRebuild(c) ==
    /\ pc[c] = "begun"
    /\ req[c].op = "rebuild_fts_index"
    /\ Work(c, "begun", "ready", RebuildFts(wdb))

Commit(c) ==
    /\ pc[c] = "ready"
    /\ db' = wdb
    /\ minted' = IF wdb.state = db.state THEN minted ELSE minted + 1
    /\ lock' = None
    /\ Finish(c)
    /\ UNCHANGED <<wdb, view, snap>>

(***************************************************************************)
(* Any exception after BEGIN (a failed check, a constraint, an error of    *)
(* the disk, the failure hook) rolls the transaction back and is raised.   *)
(***************************************************************************)
Rollback(c) ==
    /\ pc[c] \in {"begun", "wrote", "ready"}
    /\ wdb' = db
    /\ lock' = None
    /\ Finish(c)
    /\ UNCHANGED <<db, minted, view, snap>>

\* The client's process dies and comes back with nothing in memory.
Crash(c) ==
    /\ pc[c] # "idle"
    /\ wdb' = IF lock = c THEN db ELSE wdb
    /\ lock' = IF lock = c THEN None ELSE lock
    /\ Finish(c)
    /\ view' = [view EXCEPT ![c] = None]
    /\ snap' = [snap EXCEPT ![c] = None]
    /\ UNCHANGED <<db, minted>>

Step(c) ==
    \/ ReadSnapshotGraph(c)
    \/ Begin(c)
    \/ Busy(c)
    \/ Conflict(c)
    \/ DoWriteGraph(c)
    \/ DoPutPublished(c)
    \/ DoRemoveGraph(c)
    \/ DoPutRemoved(c)
    \/ DoRebuild(c)
    \/ Commit(c)
    \/ Rollback(c)

Start(c) ==
    \/ \E r \in Resources : ReadSnapshotState(c, r)
    \/ CallReplace(c)
    \/ CallCompareAndPublish(c)
    \/ CallRemoveIfCurrent(c)
    \/ CallDelete(c)
    \/ CallRebuild(c)

Next == \E c \in Clients : Start(c) \/ Step(c) \/ Crash(c)

Spec == Init /\ [][Next]_vars

-----------------------------------------------------------------------------
(***************************************************************************)
(* Every commit leaves tables that SQLiteCatalog.verify accepts: graphs    *)
(* exist exactly for published states, are valid and whole, and the text   *)
(* index holds every published text exactly once and nothing else.         *)
(***************************************************************************)
CatalogVerifies == CatalogVerify(db)

(***************************************************************************)
(* Facets are shared between resources: after every commit a facet row     *)
(* exists exactly when some resource still carries it (_prune_facets).     *)
(***************************************************************************)
FacetsShared == db.facet = {f \in Facets : \E r \in Resources : <<r, f>> \in db.tag}

(***************************************************************************)
(* One source is never bound to two live resources, whether published or   *)
(* withdrawn: the checks on core_resources, the check of the live binding  *)
(* and the partial unique index together see to it.                        *)
(***************************************************************************)
LiveSourceUnique ==
    \A q, r \in Resources :
        q # r /\ IsLive(db.state[q]) /\ IsLive(db.state[r]) => db.state[q].src # db.state[r].src

(***************************************************************************)
(* The authority of a state token: as long as the catalog still has the    *)
(* state of a snapshot, it still has the graph of that snapshot, however   *)
(* many calls of other clients have committed since it was read.           *)
(***************************************************************************)
SnapshotAuthority ==
    \A c \in Clients :
        snap[c] # None /\ db.state[snap[c].res] = snap[c].state
            => ReadGraph(db, snap[c].res) = snap[c].graph

(***************************************************************************)
(* read_snapshot is never torn: two clients that hold the same state of a  *)
(* resource hold the same graph, whatever was committed while they read.   *)
(***************************************************************************)
SnapshotsAgree ==
    \A c, x \in Clients :
        snap[c] # None /\ snap[x] # None /\ snap[c].res = snap[x].res /\ snap[c].state = snap[x].state
            => snap[c].graph = snap[x].graph

(***************************************************************************)
(* A conditional call that commits replaces the very graph its caller had  *)
(* read: nothing another client committed in between is overwritten.       *)
(***************************************************************************)
ReplacesWhatWasRead ==
    \A c \in Clients :
        pc[c] = "ready" /\ db' # db /\ pc'[c] = "idle" /\ req[c].op \in ConditionalOps
            => ReadGraph(db, req[c].res) = req[c].base.graph

NoLostUpdate == [][ReplacesWhatWasRead]_vars

(***************************************************************************)
(* A space id never changes its meaning and is never forgotten, also when  *)
(* the last vector that used it goes (_check_spaces, ON CONFLICT DO        *)
(* NOTHING, ON DELETE RESTRICT).                                           *)
(***************************************************************************)
KeepsSpaces == \A s \in Spaces : db.space[s] # None => db'.space[s] = db.space[s]

SpaceIdentityFixed == [][KeepsSpaces]_vars

(***************************************************************************)
(* A graph changes only together with its state token; while a resource is *)
(* live its lifecycle and its binding stay; a lifecycle that has ended     *)
(* never comes back, the next one is new and starts with a publication.    *)
(***************************************************************************)
KeepsLifecycles ==
    \A r \in Resources :
        LET old == db.state[r]
            new == db'.state[r]
        IN  /\ ReadGraph(db', r) # ReadGraph(db, r) => new.token > old.token
            /\ IsLive(old) => new.life = old.life /\ new.src = old.src
            /\ ~IsLive(old) /\ new # old => new.status = "published" /\ new.life > old.life

LifecycleDiscipline == [][KeepsLifecycles]_vars

(***************************************************************************)
(* The tables implement the publication port: each commit that issues a    *)
(* token is one Publish, Withdraw or Delete on the stored graphs.          *)
(***************************************************************************)
Port == INSTANCE Publication WITH
            state  <- db.state,
            graph  <- [r \in Resources |-> ReadGraph(db, r)],
            issued <- minted,
            Graphs <- {StoredForm(b) : b \in Batches}

ImplementsPublication == Port!Spec

(***************************************************************************)
(* However a call ends (commit, conflict, busy timeout, failure, death of  *)
(* the client), it gives the writer lock back and leaves nothing           *)
(* uncommitted behind: the lock is held by a client in a transaction or by *)
(* nobody.                                                                 *)
(***************************************************************************)
NoTransactionLeft ==
    IF lock = None THEN wdb = db ELSE pc[lock] \in {"begun", "wrote", "ready"}

(***************************************************************************)
(* What every commit leaves (SQLiteCatalog.verify, _prune_facets, the      *)
(* unique index).                                                          *)
(***************************************************************************)
StoreSound == CatalogVerifies /\ FacetsShared /\ LiveSourceUnique

(***************************************************************************)
(* What calls of several clients never do to each other (read_snapshot,    *)
(* write transactions).                                                    *)
(***************************************************************************)
CallsSerial == SnapshotAuthority /\ SnapshotsAgree /\ NoTransactionLeft

(***************************************************************************)
(* What a commit may never do: overwrite what its caller had not read,     *)
(* change the meaning of a space, or move a resource out of its lifecycle  *)
(* (compare_and_publish, _check_spaces, _put_state).                       *)
(***************************************************************************)
StepsLawful == [][ReplacesWhatWasRead /\ KeepsSpaces /\ KeepsLifecycles]_vars
=============================================================================
