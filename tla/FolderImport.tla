---------------------------- MODULE FolderImport ----------------------------
(***************************************************************************)
(* FolderImportService.run (application/folder_import.py): importers that  *)
(* scan selected folders, withdraw what disappeared and publish what is    *)
(* there, with two whole-file JSON records beside the catalog: the         *)
(* namespace registry and the lifecycle file (folder_lifecycle.py).        *)
(*                                                                         *)
(* A step is one access to something shared: the port (the abstract one of *)
(* module Publication), a JSON record, the disk.  A document's graph is    *)
(* seen as the content it was made from; documents stand for images too,   *)
(* which take the same route to the port.                                  *)
(***************************************************************************)
EXTENDS PublicationState, TLC

CONSTANTS
    Importers,
    Namespaces, Roots, Refs,
    Contents,     \* file contents
    Foreign,      \* the source of a publication that is not this importer's
    Selections,   \* what may be selected: namespace -> root or None
    Scopes,       \* what a scan may meet: see Scope
    MaxTokens,    \* bound: publications
    MaxEdits,     \* bound: changes of files
    MaxStops      \* bound: runs cut short

\* _derived_resource_id: one resource, and one source, per namespace and reference.
ASSUME FolderIdentityAssumption ==
    /\ Resources = Namespaces \X Refs
    /\ Foreign \notin Resources
    /\ Sources = Resources \cup {Foreign}

\* _validate_selections: distinct namespaces on distinct roots.
ASSUME SelectionsAssumption ==
    \A sel \in Selections :
        /\ sel \in [Namespaces -> Roots \cup {None}]
        /\ \A m, n \in Namespaces : sel[m] = sel[n] => m = n \/ sel[m] = None

ASSUME FolderBoundsAssumption == MaxTokens \in Nat /\ MaxEdits \in Nat /\ MaxStops \in Nat

VARIABLES
    state, graph, issued,   \* the port: see Publication
    disk,       \* what the file at a reference of a root holds
    registry,   \* folders.json: the root a namespace is bound to
    lifecycle,  \* folder-lifecycle.json: the last outcome for each file
    pc,         \* where an importer stands
    run,        \* its local variables
    watch,      \* history: whether the run had the world to itself (quiet), whether
                \* its source stands as checked, which files were absent meanwhile
                \* (gone) and which were recorded as available when it began (known)
    edits, stops

port == <<state, graph, issued>>
records == <<registry, lifecycle>>
vars == <<state, graph, issued, disk, registry, lifecycle, pc, run, watch, edits, stops>>

Port == INSTANCE Publication WITH Graphs <- Contents

Files == Roots \X Refs

\* excluded: by pattern; linked: a link, or under one; ignored: under an ignored
\* directory; unreadable: under a directory that cannot be listed.
Scope == [excluded : SUBSET Refs, linked : SUBSET Refs, ignored : SUBSET Refs,
          unreadable : SUBSET Refs]

Blocked(scope) == scope.linked \cup scope.ignored

ASSUME ScopesAssumption == Scopes \subseteq Scope

LifecycleFile == [available : BOOLEAN, hash : Contents]

mark_unavailable(entry) == [entry EXCEPT !.available = FALSE]

Lifecycle == [Resources -> LifecycleFile \cup {None}]

Outcomes == {"ready", "unchanged", "unavailable", "failed", "unprocessed", "skipped"}

Snapshot == [state : StateType, graph : Contents \cup {None}]

read_snapshot(r) == [state |-> state[r], graph |-> graph[r]]

Run ==
    [sel : [Namespaces -> Roots \cup {None}], scope : Scope,
     seen : [Namespaces -> Roots \cup {None}],   \* the registry it read
     life : Lifecycle,                           \* its FolderLifecycle
     missing : SUBSET Resources,                 \* still to reconcile
     todo : SUBSET Resources,                    \* candidates still to process
     file : Resources \cup {None},               \* the one it is at
     base : Snapshot \cup {None},                \* the snapshot its write expects
     bytes : Contents \cup {None},               \* the source it captured
     rebased : BOOLEAN,
     outcomes : SUBSET Outcomes,
     status : {"running", "refused", "success", "partial_success", "failed"}]

PCs == {"idle", "registry", "bind", "scan", "files", "withdraw", "ingest", "guard", "decide",
        "reread", "save", "done"}

ASSUME FolderRecordsAssumption == None \notin Run \cup Snapshot \cup LifecycleFile

Watch == [quiet : BOOLEAN, checked : BOOLEAN, gone : SUBSET Files, known : SUBSET Resources]

TypeOK ==
    /\ state \in [Resources -> StateType]
    /\ graph \in [Resources -> Contents \cup {None}]
    /\ issued \in Nat
    /\ disk \in [Files -> Contents \cup {None}]
    /\ registry \in [Namespaces -> Roots \cup {None}]
    /\ lifecycle \in Lifecycle
    /\ pc \in [Importers -> PCs]
    /\ run \in [Importers -> Run \cup {None}]
    /\ watch \in [Importers -> Watch]
    /\ edits \in 0..MaxEdits /\ stops \in 0..MaxStops
    \* the program counter says which locals are in use
    /\ \A i \in Importers :
          /\ pc[i] = "idle" <=> run[i] = None
          /\ pc[i] \in {"withdraw", "guard", "decide", "reread"} => run[i].base # None
          /\ pc[i] \in {"guard", "decide", "reread"} => run[i].bytes # None

Init ==
    /\ Port!Init
    /\ disk \in [Files -> Contents \cup {None}]
    /\ registry = [n \in Namespaces |-> None]
    /\ lifecycle = [r \in Resources |-> None]
    /\ pc = [i \in Importers |-> "idle"]
    /\ run = [i \in Importers |-> None]
    /\ watch = [i \in Importers |-> [quiet |-> TRUE, checked |-> FALSE, gone |-> {}, known |-> {}]]
    /\ edits = 0 /\ stops = 0

-----------------------------------------------------------------------------
Absent == {f \in Files : disk[f] = None}

\* These importers no longer have the catalog and the records to themselves.
Disturb(others) ==
    watch' = [i \in Importers |-> IF i \in others THEN [watch[i] EXCEPT !.quiet = FALSE] ELSE watch[i]]

Others(i) == Importers \ {i}

Go(i, where, what) ==
    /\ pc' = [pc EXCEPT ![i] = where]
    /\ run' = [run EXCEPT ![i] = what]

Available(life, r) == life[r] # None /\ life[r].available

Path(i, r) == <<run[i].sel[r[1]], r[2]>>

Selected(i) == {n \in Namespaces : run[i].sel[n] # None}

\* Load the lifecycle file.
Start(i, sel, scope) ==
    /\ pc[i] \in {"idle", "done"}
    /\ issued < MaxTokens
    /\ Go(i, "registry",
          [sel |-> sel, scope |-> scope, seen |-> registry, life |-> lifecycle,
           missing |-> {}, todo |-> {}, file |-> None, base |-> None, bytes |-> None,
           rebased |-> FALSE, outcomes |-> {}, status |-> "running"])
    /\ watch' = [watch EXCEPT ![i] = [quiet |-> TRUE, checked |-> FALSE, gone |-> Absent,
                                      known |-> {r \in Resources : Available(lifecycle, r)}]]
    /\ UNCHANGED <<port, disk, records, edits, stops>>

\* _bind_registry: namespace_root_conflict, root_namespace_conflict
BindConflict(entries, sel) ==
    \E n \in Namespaces :
        /\ sel[n] # None
        /\ \/ entries[n] # None /\ entries[n] # sel[n]
           \/ \E m \in Namespaces \ {n} : entries[m] = sel[n]

Bind(entries, sel) == [n \in Namespaces |-> IF entries[n] = None THEN sel[n] ELSE entries[n]]

ReadRegistry(i) ==
    /\ pc[i] = "registry"
    /\ IF BindConflict(registry, run[i].sel)
       THEN Go(i, "done", [run[i] EXCEPT !.status = "refused"])
       ELSE Go(i, IF Bind(registry, run[i].sel) = registry THEN "scan" ELSE "bind",
               [run[i] EXCEPT !.seen = registry])
    /\ UNCHANGED <<port, disk, records, watch, edits, stops>>

\* _write_registry: the whole file, from the entries read before.
WriteRegistry(i) ==
    /\ pc[i] = "bind"
    /\ registry' = Bind(run[i].seen, run[i].sel)
    /\ Go(i, "scan", run[i])
    /\ Disturb(Others(i))
    /\ UNCHANGED <<port, disk, lifecycle, edits, stops>>

-----------------------------------------------------------------------------
(***************************************************************************)
(* _scan_root.  A file is observed unless it lies under something blocked  *)
(* or unreadable; a link itself is reported as skipped.                    *)
(***************************************************************************)
Observed(sel, scope) ==
    {r \in Resources : /\ sel[r[1]] # None
                       /\ disk[<<sel[r[1]], r[2]>>] # None
                       /\ r[2] \notin Blocked(scope) \cup scope.unreadable}

\* Faulty variant: the blocked subtrees count as deleted.
MissingBlockedToo(sel, scope, life) ==
    IF scope.unreadable # {} THEN {}
    ELSE {r \in Resources : /\ sel[r[1]] # None /\ life[r] # None
                            /\ r \notin Observed(sel, scope)
                            /\ r[2] \notin scope.excluded}

\* Known files that a complete enumeration did not meet.
Missing(sel, scope, life) ==
    IF scope.unreadable # {} THEN {}
    ELSE {r \in Resources : /\ sel[r[1]] # None /\ life[r] # None
                            /\ r \notin Observed(sel, scope)
                            /\ r[2] \notin scope.excluded \cup Blocked(scope)}

Scan(i) ==
    LET sel   == run[i].sel
        scope == run[i].scope
    IN  /\ pc[i] = "scan"
        /\ Go(i, "files",
              [run[i] EXCEPT
                 !.missing = Missing(sel, scope, run[i].life),
                 !.todo = {r \in Observed(sel, scope) : r[2] \notin scope.excluded},
                 !.outcomes = (IF scope.unreadable # {} THEN {"unprocessed"} ELSE {})
                              \cup (IF scope.linked # {} THEN {"skipped"} ELSE {})])
        /\ UNCHANGED <<port, disk, records, watch, edits, stops>>

-----------------------------------------------------------------------------
\* A file's outcome, with the lifecycle entry to record or None.
Settle(i, r, outcome, entry) ==
    LET life == IF entry = None THEN run[i].life ELSE [run[i].life EXCEPT ![r] = entry]
    IN  Go(i, IF life = run[i].life THEN "files" ELSE "save",
           [run[i] EXCEPT !.life = life, !.outcomes = @ \cup {outcome},
                          !.missing = @ \ {r}, !.todo = @ \ {r},
                          !.file = None, !.base = None, !.bytes = None, !.rebased = FALSE])

\* _save_lifecycle: the whole file.
Save(i) ==
    /\ pc[i] = "save"
    /\ lifecycle' = run[i].life
    /\ Go(i, "files", run[i])
    /\ Disturb(Others(i))
    /\ UNCHANGED <<port, disk, registry, edits, stops>>

(***************************************************************************)
(* _reconcile_missing                                                      *)
(***************************************************************************)
ReconcileMissing(i, r) ==
    /\ pc[i] = "files" /\ r \in run[i].missing
    /\ LET entry == run[i].life[r]
       IN  CASE ~entry.available -> Settle(i, r, "unavailable", None)
             [] entry.available /\ state[r].status # "published" ->
                    Settle(i, r, "unavailable", mark_unavailable(entry))
             [] OTHER -> IF state[r].src # r THEN Settle(i, r, "failed", None)
                         ELSE Go(i, "withdraw", [run[i] EXCEPT !.file = r, !.base = read_snapshot(r)])
    /\ UNCHANGED <<port, disk, records, watch, edits, stops>>

\* Faulty variant: the same conditional withdrawal again and again.
WithdrawMissingRetrying(i) ==
    LET r == run[i].file
    IN  /\ pc[i] = "withdraw"
        /\ state[r] = run[i].base.state
        /\ Port!Withdraw(r)
        /\ Settle(i, r, "unavailable", mark_unavailable(run[i].life[r]))
        /\ Disturb(Others(i))
        /\ UNCHANGED <<disk, records, edits, stops>>

WithdrawMissing(i) ==
    LET r == run[i].file
        unavailable == mark_unavailable(run[i].life[r])
    IN  /\ pc[i] = "withdraw"
        /\ \/ /\ state[r] = run[i].base.state
              /\ Port!Withdraw(r)
              /\ Settle(i, r, "unavailable", unavailable)
              /\ Disturb(Others(i))
           \/ /\ state[r] # run[i].base.state
              /\ IF state[r].status = "published" THEN Settle(i, r, "failed", None)
                 ELSE Settle(i, r, "unavailable", unavailable)
              /\ UNCHANGED <<port, watch>>
        /\ UNCHANGED <<disk, records, edits, stops>>

-----------------------------------------------------------------------------
(***************************************************************************)
(* _process_candidate and ingest_native_text                               *)
(***************************************************************************)
ProcessCandidate(i, r) ==
    /\ pc[i] = "files" /\ run[i].missing = {} /\ r \in run[i].todo
    /\ IF state[r].status = "deleted" THEN Settle(i, r, "failed", None)
       ELSE Go(i, "ingest", [run[i] EXCEPT !.file = r])
    /\ UNCHANGED <<port, disk, records, watch, edits, stops>>

\* The snapshot first, then the source: the two reads touch different things,
\* so together they are one step.
CaptureSource(i) ==
    LET r == run[i].file
    IN  /\ pc[i] = "ingest"
        /\ IF disk[Path(i, r)] = None THEN Settle(i, r, "failed", None)
           ELSE Go(i, "guard", [run[i] EXCEPT !.base = read_snapshot(r), !.bytes = disk[Path(i, r)]])
        /\ UNCHANGED <<port, disk, records, watch, edits, stops>>

\* Faulty variant: the captured bytes are taken to be the file's.
GuardSourceNever(i) ==
    /\ pc[i] = "guard"
    /\ Go(i, "decide", run[i])
    /\ watch' = [watch EXCEPT ![i].checked = TRUE]
    /\ UNCHANGED <<port, disk, records, edits, stops>>

\* _SourceGuardedPublication._check, before every call of the port.
GuardSource(i) ==
    /\ pc[i] = "guard"
    /\ IF disk[Path(i, run[i].file)] # run[i].bytes
       THEN /\ Settle(i, run[i].file, "failed", None)
            /\ UNCHANGED watch
       ELSE /\ Go(i, "decide", run[i])
            /\ watch' = [watch EXCEPT ![i].checked = TRUE]
    /\ UNCHANGED <<port, disk, records, edits, stops>>

\* Faulty variant: the lifecycle file is asked instead of the catalog.
SameDocumentAsRecorded(i) ==
    run[i].life[run[i].file] = [available |-> TRUE, hash |-> run[i].bytes]

\* _same_document_identity
SameDocument(i) == run[i].base.graph = run[i].bytes /\ run[i].base.state.src = run[i].file

\* Nothing to encode: publish_reindex as a one-shot check, max_retries=0.
Confirm(i) ==
    LET r == run[i].file
    IN  /\ pc[i] = "decide" /\ SameDocument(i)
        /\ IF state[r] = run[i].base.state
           THEN Settle(i, r, "unchanged", [available |-> TRUE, hash |-> run[i].bytes])
           ELSE Settle(i, r, "failed", None)
        /\ UNCHANGED <<port, disk, records, watch, edits, stops>>

\* compare_and_publish of publish_reindex, max_retries=1.
PublishFile(i) ==
    LET r == run[i].file
    IN  /\ pc[i] = "decide" /\ ~SameDocument(i)
        /\ \/ /\ state[r] = run[i].base.state
              /\ Port!Move(r, "published", r, run[i].bytes)
              /\ Settle(i, r, "ready", [available |-> TRUE, hash |-> run[i].bytes])
              /\ Disturb(Others(i))
           \/ /\ state[r] = run[i].base.state /\ ~PutAllowed(state, r, "published", r)
              /\ Settle(i, r, "failed", None)
              /\ UNCHANGED <<port, watch>>
           \/ /\ state[r] # run[i].base.state
              /\ IF run[i].rebased THEN Settle(i, r, "failed", None)
                 ELSE Go(i, "reread", [run[i] EXCEPT !.rebased = TRUE])
              /\ UNCHANGED <<port, watch>>
        /\ UNCHANGED <<disk, records, edits, stops>>

(***************************************************************************)
(* The rebase of publish_reindex: see module Enrichment.  Somebody else    *)
(* may have published this very content; a state that differs only in its  *)
(* token may be tried again.                                               *)
(***************************************************************************)
Rebase(i) ==
    LET r    == run[i].file
        old  == run[i].base
        new  == read_snapshot(r)
        dead == \/ disk[Path(i, r)] # run[i].bytes
                \/ new.state.life # old.state.life \/ IsLive(new.state) # IsLive(old.state)
                \/ new.graph = None \/ old.graph = None
    IN  /\ pc[i] = "reread"
        /\ \/ /\ ~dead /\ new.graph = old.graph
              /\ Go(i, "guard", [run[i] EXCEPT !.base = new])
           \/ /\ ~dead /\ new.graph # old.graph /\ new.graph = run[i].bytes
              /\ Settle(i, r, "unchanged", [available |-> TRUE, hash |-> run[i].bytes])
           \/ /\ dead \/ new.graph \notin {old.graph, run[i].bytes}
              /\ Settle(i, r, "failed", None)
        /\ UNCHANGED <<port, disk, records, watch, edits, stops>>

\* _overall_status
OverallStatus(outcomes) ==
    IF outcomes \cap {"failed", "unprocessed"} # {}
    THEN IF outcomes \cap {"ready", "unchanged", "unavailable"} # {} THEN "partial_success" ELSE "failed"
    ELSE IF "skipped" \in outcomes THEN "partial_success" ELSE "success"

Finish(i) ==
    /\ pc[i] = "files" /\ run[i].missing = {} /\ run[i].todo = {}
    /\ Go(i, "done", [run[i] EXCEPT !.status = OverallStatus(run[i].outcomes)])
    /\ UNCHANGED <<port, disk, records, watch, edits, stops>>

Step(i) ==
    \/ ReadRegistry(i) \/ WriteRegistry(i) \/ Scan(i) \/ Save(i)
    \/ \E r \in Resources : ReconcileMissing(i, r) \/ ProcessCandidate(i, r)
    \/ WithdrawMissing(i) \/ CaptureSource(i) \/ GuardSource(i) \/ Confirm(i) \/ PublishFile(i)
    \/ Rebase(i) \/ Finish(i)

\* The process dies, or an error of the catalog or of a record ends the run.
Stop(i) ==
    /\ pc[i] \notin {"idle", "done"}
    /\ stops < MaxStops
    /\ stops' = stops + 1
    /\ Go(i, "idle", None)
    /\ UNCHANGED <<port, disk, records, watch, edits>>

-----------------------------------------------------------------------------
(***************************************************************************)
(* The world around: the files' owner, and other users of the port that    *)
(* enrich (the graph's content stands, its token does not), withdraw,      *)
(* delete or take the resource for another source.                         *)
(***************************************************************************)
Edit(f, c) ==
    /\ edits < MaxEdits /\ disk[f] # c
    /\ edits' = edits + 1
    /\ disk' = [disk EXCEPT ![f] = c]
    /\ watch' = [i \in Importers |->
                    [watch[i] EXCEPT !.quiet = FALSE, !.checked = FALSE,
                                     !.gone = IF c = None THEN @ \cup {f} ELSE @]]
    /\ UNCHANGED <<port, records, pc, run, stops>>

Outsider(r) ==
    /\ issued < MaxTokens
    /\ \/ graph[r] # None /\ Port!Move(r, "published", state[r].src, graph[r])
       \/ Port!Withdraw(r)
       \/ Port!Delete(r)
       \/ ~IsLive(state[r]) /\ \E c \in Contents : Port!Move(r, "published", Foreign, c)
    /\ Disturb(Importers)
    /\ UNCHANGED <<disk, records, pc, run, edits, stops>>

Next ==
    \/ \E i \in Importers :
          \/ \E sel \in Selections, scope \in Scopes : Start(i, sel, scope)
          \/ Step(i)
          \/ Stop(i)
    \/ \E f \in Files, c \in Contents \cup {None} : Edit(f, c)
    \/ \E r \in Resources : Outsider(r)

Spec == Init /\ [][Next]_vars

\* A run is one coroutine whose awaited calls return: it goes on by itself.
FairSpec == Spec /\ \A i \in Importers : WF_vars(Step(i))

-----------------------------------------------------------------------------
InScope(i, ref) == ref \notin run[i].scope.excluded \cup Blocked(run[i].scope)

UndisturbedSuccess(i) == pc[i] = "done" /\ run[i].status = "success" /\ watch[i].quiet

(***************************************************************************)
(* A run that reports success, and had the catalog and the files to        *)
(* itself, has published every selected file with its present content,     *)
(* whatever earlier runs and crashes left behind (_process_candidate).     *)
(***************************************************************************)
PresentFilesPublished ==
    \A i \in Importers : UndisturbedSuccess(i) =>
        \A r \in Resources :
            r[1] \in Selected(i) /\ InScope(i, r[2]) /\ disk[Path(i, r)] # None =>
                graph[r] = disk[Path(i, r)] /\ state[r].src = r

(***************************************************************************)
(* ... and has left nothing published of a file that is gone               *)
(* (_reconcile_missing).  The lifecycle file is all an importer knows of   *)
(* earlier runs, and _reconcile_missing does not ask the catalog about a   *)
(* file that is recorded as unavailable.  So where a run may be cut short  *)
(* between a publication and the save of its record, or other importers    *)
(* may save the records they loaded before, this holds of the files that   *)
(* were recorded as available when the run began, and of no others.        *)
(***************************************************************************)
RecordsComplete(i) == stops = 0 /\ Importers = {i}

MissingFilesWithdrawn ==
    \A i \in Importers : UndisturbedSuccess(i) =>
        \A r \in Resources :
            /\ r[1] \in Selected(i) /\ InScope(i, r[2]) /\ disk[Path(i, r)] = None
            /\ RecordsComplete(i) \/ r \in watch[i].known
            => graph[r] = None \/ state[r].src # r

\* A successful undisturbed run leaves the catalog as the folders are (run).
FoldersReconciled == TypeOK /\ PresentFilesPublished /\ MissingFilesWithdrawn

(***************************************************************************)
(* "Only a genuinely unseen scope may be reconciled as missing": an        *)
(* importer withdraws a file's resource only if the file was absent at     *)
(* some moment of the run, and never for what the scan left out.           *)
(***************************************************************************)
Withdrew(i, r) == pc[i] = "withdraw" /\ run[i].file = r /\ state'[r] # state[r]

WithdrawnOnlyMissing(i) ==
    \A r \in Resources : Withdrew(i, r) =>
        Path(i, r) \in watch[i].gone /\ InScope(i, r[2]) /\ run[i].scope.unreadable = {}

(***************************************************************************)
(* What the importer publishes is what the file holds, however long the    *)
(* encoding took: only an edit after the last check of the source, just    *)
(* before the write, goes unnoticed (_SourceGuardedPublication).           *)
(***************************************************************************)
Published(i) == pc[i] = "decide" /\ pc'[i] # "decide" /\ issued' # issued

NothingStalePublished ==
    [][\A i \in Importers :
          Published(i) /\ watch[i].checked => graph'[run[i].file] = disk[Path(i, run[i].file)]]_vars

(***************************************************************************)
(* resource_deleted: an importer that is not raced never brings a deleted  *)
(* resource back.  This and WithdrawnOnlyMissing are what an importer may  *)
(* do to the lifecycle of a file's resource.                               *)
(***************************************************************************)
DeletedStays(i) == Published(i) /\ state[run[i].file].status = "deleted" => ~watch[i].quiet

LifecyclesRespected == [][\A i \in Importers : WithdrawnOnlyMissing(i) /\ DeletedStays(i)]_vars

(***************************************************************************)
(* Every run ends.                                                         *)
(***************************************************************************)
ImportEnds == \A i \in Importers : pc[i] = "registry" ~> pc[i] \in {"idle", "done"}

-----------------------------------------------------------------------------
(***************************************************************************)
(* "Namespace/root bindings are durable and cannot silently remap"         *)
(* (limitations.md): a binding in folders.json is never changed or lost.   *)
(***************************************************************************)
BindingsDurable ==
    [][\A n \in Namespaces : registry[n] # None => registry'[n] = registry[n]]_vars

-----------------------------------------------------------------------------
(* The instances that are checked: one folder under one name, and one of   *)
(* its files may be excluded, linked, ignored or unreadable.               *)

FolderResources == Namespaces \X Refs
FolderSources == FolderResources \cup {Foreign}

OneFolder == {[m \in Namespaces |-> IF m = n THEN p ELSE None] : n \in Namespaces, p \in Roots}

Everything == [excluded |-> {}, linked |-> {}, ignored |-> {}, unreadable |-> {}]
WholeScopes == {Everything}
FileScopes ==
    LET file == CHOOSE f \in Refs : TRUE
    IN  WholeScopes \cup {[Everything EXCEPT ![why] = {file}] : why \in DOMAIN Everything}

Symmetry == Permutations(Contents)
=============================================================================
