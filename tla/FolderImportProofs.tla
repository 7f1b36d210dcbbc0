------------------------- MODULE FolderImportProofs -------------------------
(***************************************************************************)
(* What folder imports guarantee, for any number of importers, folders,    *)
(* files, edits, interruptions and outside users of the catalog.           *)
(*                                                                         *)
(* The inductive invariant says what an importer knows at each point of    *)
(* its run: what its list of missing files rests on, and, as long as it    *)
(* has had the world to itself (quiet), how its lists, its snapshot, its   *)
(* captured bytes and its lifecycle record agree with the catalog, the     *)
(* disk and the lifecycle file.                                            *)
(***************************************************************************)
EXTENDS FolderImport, TLAPS

AtFile == {"withdraw", "ingest", "guard", "decide", "reread"}
Scanned == AtFile \cup {"files", "save"}

PublishedOnly ==
    \A r \in Resources : graph[r] # None => state[r].status = "published" /\ state[r].src \in Sources

(***************************************************************************)
(* A run that nobody else has disturbed.                                   *)
(***************************************************************************)
\* The record it holds is the one on disk, except just before it saves it.
RecordCurrent(i) ==
    pc[i] \in {"registry", "bind", "scan", "files"} \cup AtFile => run[i].life = lifecycle

Present(i, r) == r[1] \in Selected(i) /\ InScope(i, r[2]) /\ disk[Path(i, r)] # None

Vanished(i, r) == r[1] \in Selected(i) /\ InScope(i, r[2]) /\ disk[Path(i, r)] = None

UpToDate(i, r) == graph[r] = disk[Path(i, r)] /\ state[r].src = r

Unpublished(r) == graph[r] = None \/ state[r].src # r

\* Where it stands with the file it is at.
FileCurrent(i) ==
    LET r == run[i].file
    IN  /\ pc[i] \in {"withdraw", "guard", "decide"} => run[i].base = read_snapshot(r)
        /\ pc[i] \in {"guard", "decide"} => run[i].bytes = disk[Path(i, r)]
        /\ pc[i] \in {"ingest", "guard", "decide"} => state[r].status # "deleted"
        /\ pc[i] \in {"ingest", "guard", "decide"} => disk[Path(i, r)] # None

\* What it has still to do is all that is left to be done.
PresentDone(i) ==
    \A r \in Resources : Present(i, r) => r \in run[i].todo \/ UpToDate(i, r)

VanishedDone(i) ==
    \A r \in Resources :
        Vanished(i, r) /\ (RecordsComplete(i) \/ r \in watch[i].known) =>
            \/ r \in run[i].missing /\ (Available(run[i].life, r) \/ Unpublished(r))
            \/ Unpublished(r)

Reconciled(i) ==
    \/ run[i].outcomes \cap {"failed", "unprocessed"} # {}
    \/ PresentDone(i) /\ VanishedDone(i)

QuietInv(i) ==
    /\ pc[i] # "reread"
    /\ RecordCurrent(i)
    /\ pc[i] \in {"registry", "bind", "scan"} => watch[i].known = {r \in Resources : Available(lifecycle, r)}
    /\ FileCurrent(i)
    /\ \A r \in run[i].missing : disk[Path(i, r)] = None
    /\ \A r \in run[i].todo : disk[Path(i, r)] # None
    /\ pc[i] \in Scanned => Reconciled(i)
    /\ pc[i] = "done" /\ run[i].status = "success" =>
          /\ \A r \in Resources : Present(i, r) => UpToDate(i, r)
          /\ \A r \in Resources :
                Vanished(i, r) /\ (RecordsComplete(i) \/ r \in watch[i].known) => Unpublished(r)

(***************************************************************************)
(* Any run.                                                                *)
(***************************************************************************)
RunInv(i) ==
    /\ \A r \in run[i].missing \cup run[i].todo : r[1] \in Selected(i)
    /\ pc[i] \in AtFile => run[i].file \in run[i].missing \cup run[i].todo
    /\ pc[i] = "withdraw" => run[i].file \in run[i].missing
    /\ pc[i] \in {"registry", "bind", "scan"} => run[i].missing = {} /\ run[i].todo = {}
    /\ pc[i] # "done" => run[i].status = "running"
    /\ Absent \subseteq watch[i].gone
    /\ \A r \in run[i].missing :
          /\ run[i].life[r] # None
          /\ Path(i, r) \in watch[i].gone
          /\ InScope(i, r[2])
          /\ run[i].scope.unreadable = {}
    /\ pc[i] = "decide" /\ watch[i].checked => disk[Path(i, run[i].file)] = run[i].bytes
    /\ watch[i].quiet => QuietInv(i)

(***************************************************************************)
(* The one importer that ever ran, and was never cut short: what it has    *)
(* published is recorded, or about to be.                                  *)
(***************************************************************************)
RecordsInv(i) ==
    RecordsComplete(i) =>
        /\ pc[i] \in {"registry", "bind", "scan", "files"} \cup AtFile => run[i].life = lifecycle
        /\ \A r \in Resources :
              graph[r] # None /\ state[r].src = r =>
                  Available(IF pc[i] = "save" THEN run[i].life ELSE lifecycle, r)

FolderInv ==
    /\ TypeOK
    /\ PublishedOnly
    /\ \A i \in Importers : pc[i] # "idle" => RunInv(i)
    /\ \A i \in Importers : RecordsInv(i)

-----------------------------------------------------------------------------
(***************************************************************************)
(* Types, for the locals of the importers and for the world they share.    *)
(***************************************************************************)
LocalTypes ==
    /\ pc \in [Importers -> PCs]
    /\ run \in [Importers -> Run \cup {None}]
    /\ \A i \in Importers :
          /\ pc[i] = "idle" <=> run[i] = None
          /\ pc[i] \in {"withdraw", "guard", "decide", "reread"} => run[i].base # None
          /\ pc[i] \in {"guard", "decide", "reread"} => run[i].bytes # None

WorldTypes ==
    /\ state \in [Resources -> StateType]
    /\ graph \in [Resources -> Contents \cup {None}]
    /\ issued \in Nat
    /\ disk \in [Files -> Contents \cup {None}]
    /\ registry \in [Namespaces -> Roots \cup {None}]
    /\ lifecycle \in Lifecycle
    /\ watch \in [Importers -> Watch]
    /\ edits \in 0..MaxEdits /\ stops \in 0..MaxStops

LEMMA TypesTogether == /\ TypeOK => LocalTypes /\ WorldTypes
                       /\ LocalTypes /\ WorldTypes => TypeOK
                       /\ LocalTypes' /\ WorldTypes' => TypeOK'
BY DEF TypeOK, LocalTypes, WorldTypes

\* A program counter and the locals it needs.
LocalsFor(where, what) ==
    /\ where \in PCs \ {"idle"} /\ what \in Run
    /\ where \in {"withdraw", "guard", "decide", "reread"} => what.base # None
    /\ where \in {"guard", "decide", "reread"} => what.bytes # None

OthersStay(i) == \A j \in Importers : j # i => pc'[j] = pc[j] /\ run'[j] = run[j]

LEMMA GoType ==
    ASSUME TypeOK, NEW i \in Importers, NEW where, NEW what, Go(i, where, what), LocalsFor(where, what)
    PROVE  /\ LocalTypes'
           /\ pc'[i] = where /\ run'[i] = what
           /\ OthersStay(i)
<1>1. LocalTypes
  BY TypesTogether
<1>2. /\ pc'[i] = where /\ run'[i] = what
      /\ OthersStay(i)
  BY <1>1 DEF Go, LocalTypes, OthersStay
<1>3. pc' \in [Importers -> PCs] /\ run' \in [Importers -> Run \cup {None}]
  BY <1>1 DEF Go, LocalTypes, LocalsFor
<1>4. what # None /\ where # "idle"
  BY FolderRecordsAssumption DEF LocalsFor
<1>5. ASSUME NEW j \in Importers
      PROVE  /\ pc'[j] = "idle" <=> run'[j] = None
             /\ pc'[j] \in {"withdraw", "guard", "decide", "reread"} => run'[j].base # None
             /\ pc'[j] \in {"guard", "decide", "reread"} => run'[j].bytes # None
  BY <1>1, <1>2, <1>4 DEF LocalTypes, LocalsFor, OthersStay
<1> QED
  BY <1>2, <1>3, <1>5 DEF LocalTypes

\* What a running importer holds.
LEMMA RunType ==
    ASSUME TypeOK, NEW i \in Importers, pc[i] # "idle"
    PROVE  /\ run[i] \in Run
           /\ \A r \in run[i].missing \cup run[i].todo : r \in Resources
           /\ \A n \in Selected(i) : n \in Namespaces /\ run[i].sel[n] \in Roots
           /\ \A r \in Resources : r[1] \in Namespaces /\ r[2] \in Refs
           /\ \A r \in Resources : r[1] \in Selected(i) => Path(i, r) \in Files
<1>1. run[i] \in Run
  BY DEF TypeOK
<1>2. run[i].missing \subseteq Resources /\ run[i].todo \subseteq Resources
      /\ run[i].sel \in [Namespaces -> Roots \cup {None}]
  BY <1>1 DEF Run
<1>3. \A r \in Resources : r[1] \in Namespaces /\ r[2] \in Refs
  BY FolderIdentityAssumption
<1> QED
  BY <1>1, <1>2, <1>3 DEF Selected, Path, Files

-----------------------------------------------------------------------------
(***************************************************************************)
(* Steps of one importer and what they are to the others: no step changes  *)
(* the catalog or the lifecycle file without ending the others' quiet.     *)
(***************************************************************************)
Elsewhere(i) ==
    /\ OthersStay(i)
    /\ disk' = disk
    /\ \A j \in Importers : j # i =>
          \/ watch'[j] = watch[j] /\ UNCHANGED <<state, graph, lifecycle>>
          \/ watch'[j] = [watch[j] EXCEPT !.quiet = FALSE]

LEMMA OtherImporter ==
    ASSUME FolderInv, NEW i \in Importers, Elsewhere(i),
           NEW j \in Importers, j # i, pc'[j] # "idle"
    PROVE  RunInv(j)'
<1>1. /\ pc'[j] = pc[j] /\ run'[j] = run[j] /\ disk' = disk
      /\ ~RecordsComplete(j) /\ ~RecordsComplete(j)'
  BY DEF Elsewhere, OthersStay, RecordsComplete
<1>2. RunInv(j) /\ watch[j] \in Watch
  BY <1>1 DEF FolderInv, TypeOK
<1>3. CASE watch'[j] = watch[j] /\ UNCHANGED <<state, graph, lifecycle>>
  <2>1. watch[j].quiet => QuietInv(j)'
    <3>1. watch[j].quiet => QuietInv(j)
      BY <1>2 DEF RunInv
    <3> QED
      BY <1>1, <1>3, <3>1
         DEF QuietInv, RecordCurrent, FileCurrent, Reconciled, PresentDone, VanishedDone, Present,
             Vanished, UpToDate, Unpublished, Selected, InScope, Path, read_snapshot
  <2> QED
    BY <1>1, <1>2, <1>3, <2>1 DEF RunInv, Absent, Path, InScope, Selected
<1>4. CASE watch'[j] = [watch[j] EXCEPT !.quiet = FALSE]
  <2>1. ~watch'[j].quiet /\ watch'[j].gone = watch[j].gone /\ watch'[j].checked = watch[j].checked
    BY <1>2, <1>4 DEF Watch
  <2> QED
    BY <1>1, <1>2, <2>1 DEF RunInv, Absent, Path, InScope, Selected
<1> QED
  BY <1>3, <1>4 DEF Elsewhere

LEMMA StepFrame ==
    ASSUME FolderInv, NEW i \in Importers, Elsewhere(i), TypeOK', PublishedOnly',
           pc'[i] # "idle" => RunInv(i)', RecordsInv(i)'
    PROVE  FolderInv'
<1>1. ASSUME NEW j \in Importers, pc'[j] # "idle" PROVE RunInv(j)'
  BY <1>1, OtherImporter
<1>2. ASSUME NEW j \in Importers PROVE RecordsInv(j)'
  <2>1. CASE j = i
    BY <2>1
  <2>2. CASE j # i
    BY <2>2 DEF RecordsInv, RecordsComplete
  <2> QED
    BY <2>1, <2>2
<1> QED
  BY <1>1, <1>2 DEF FolderInv

(***************************************************************************)
(* A file is done with: its outcome is noted and what is recorded of it.   *)
(***************************************************************************)
NewRecord(i, r, entry) == IF entry = None THEN run[i].life ELSE [run[i].life EXCEPT ![r] = entry]

LEMMA SettleEffect ==
    ASSUME TypeOK, NEW i \in Importers, pc[i] # "idle", NEW r \in Resources,
           NEW outcome \in Outcomes, NEW entry \in LifecycleFile \cup {None},
           Settle(i, r, outcome, entry)
    PROVE  /\ LocalTypes' /\ OthersStay(i)
           /\ pc'[i] \in {"files", "save"}
           /\ pc'[i] = "files" => NewRecord(i, r, entry) = run[i].life
           /\ run'[i] \in Run
           /\ run'[i].life = NewRecord(i, r, entry)
           /\ run'[i].sel = run[i].sel /\ run'[i].scope = run[i].scope
           /\ run'[i].status = run[i].status
           /\ run'[i].outcomes = run[i].outcomes \cup {outcome}
           /\ run'[i].missing = run[i].missing \ {r}
           /\ run'[i].todo = run[i].todo \ {r}
<1> DEFINE life == NewRecord(i, r, entry)
           what == [run[i] EXCEPT !.life = life, !.outcomes = @ \cup {outcome},
                                  !.missing = @ \ {r}, !.todo = @ \ {r},
                                  !.file = None, !.base = None, !.bytes = None, !.rebased = FALSE]
           where == IF life = run[i].life THEN "files" ELSE "save"
<1>1. run[i] \in Run
  BY RunType
<1>2. run[i].life \in Lifecycle
  BY <1>1 DEF Run
<1>3. life \in Lifecycle
  BY <1>2 DEF Lifecycle, NewRecord
<1>4. Go(i, where, what)
  BY DEF Settle, NewRecord
<1> HIDE DEF life
<1>5. /\ what \in Run
      /\ what.life = life
      /\ what.sel = run[i].sel /\ what.scope = run[i].scope
      /\ what.status = run[i].status
      /\ what.outcomes = run[i].outcomes \cup {outcome}
      /\ what.missing = run[i].missing \ {r}
      /\ what.todo = run[i].todo \ {r}
  BY <1>1, <1>3 DEF Run
<1> HIDE DEF what
<1>6. LocalsFor(where, what) /\ where \in {"files", "save"} /\ (where = "files" => life = run[i].life)
  BY <1>5 DEF LocalsFor, PCs
<1> HIDE DEF where
<1>7. /\ LocalTypes' /\ OthersStay(i)
      /\ pc'[i] = where /\ run'[i] = what
  BY <1>4, <1>6, GoType
<1> QED
  BY <1>5, <1>6, <1>7 DEF life

\* What the file's outcome claims, of a run that was not disturbed.
OutcomeHolds(i, r) ==
    /\ Present(i, r) => graph'[r] = disk[Path(i, r)] /\ state'[r].src = r
    /\ Vanished(i, r) /\ (RecordsComplete(i) \/ r \in watch[i].known) => Unpublished(r)'

LEMMA SettleKeeps ==
    ASSUME FolderInv, NEW i \in Importers, pc[i] \in AtFile \cup {"files"}, NEW r \in Resources,
           NEW outcome \in Outcomes, NEW entry \in LifecycleFile \cup {None},
           Settle(i, r, outcome, entry),
           Elsewhere(i), WorldTypes', PublishedOnly',
           lifecycle' = lifecycle, stops' = stops, watch'[i] = watch[i],
           \A q \in Resources : q # r => state'[q] = state[q] /\ graph'[q] = graph[q],
           watch[i].quiet /\ outcome # "failed" /\ PresentDone(i) /\ VanishedDone(i) => OutcomeHolds(i, r),
           RecordsComplete(i) =>
               \/ entry # None /\ entry.available
               \/ entry = None /\ state'[r] = state[r] /\ graph'[r] = graph[r]
               \/ Unpublished(r)'
    PROVE  FolderInv'
<1>1. TypeOK /\ pc[i] # "idle"
  BY DEF FolderInv, AtFile
<1>2. /\ LocalTypes'
      /\ pc'[i] \in {"files", "save"}
      /\ pc'[i] = "files" => NewRecord(i, r, entry) = run[i].life
      /\ run'[i].life = NewRecord(i, r, entry)
      /\ run'[i].sel = run[i].sel /\ run'[i].scope = run[i].scope
      /\ run'[i].status = run[i].status
      /\ run'[i].outcomes = run[i].outcomes \cup {outcome}
      /\ run'[i].missing = run[i].missing \ {r}
      /\ run'[i].todo = run[i].todo \ {r}
  BY <1>1, SettleEffect
<1>3. RunInv(i) /\ RecordsInv(i) /\ run[i] \in Run
  BY <1>1, RunType DEF FolderInv
<1>4. \A q \in Resources : /\ Path(i, q)' = Path(i, q) /\ InScope(i, q[2])' = InScope(i, q[2])
                           /\ Selected(i)' = Selected(i)
  BY <1>2 DEF Path, InScope, Selected
<1>5. disk' = disk /\ RecordsComplete(i)' = RecordsComplete(i)
  BY DEF Elsewhere, RecordsComplete
<1>6. /\ \A q \in Resources : q # r => NewRecord(i, r, entry)[q] = run[i].life[q]
      /\ entry # None => NewRecord(i, r, entry)[r] = entry
      /\ entry = None => NewRecord(i, r, entry) = run[i].life
  BY <1>3 DEF NewRecord, Run, Lifecycle
<1>7. run[i].missing \subseteq Resources /\ run[i].todo \subseteq Resources
  BY <1>3 DEF Run
<1>8. watch[i].quiet => QuietInv(i)'
  <2> SUFFICES ASSUME watch[i].quiet PROVE QuietInv(i)'
    OBVIOUS
  <2>1. QuietInv(i)
    BY <1>3 DEF RunInv
  <2>2. run[i].life = lifecycle
    BY <2>1 DEF QuietInv, RecordCurrent, AtFile
  <2>3. Reconciled(i)'
    <3>1. CASE run[i].outcomes \cap {"failed", "unprocessed"} # {} \/ outcome = "failed"
      BY <3>1, <1>2 DEF Reconciled
    <3>2. CASE ~(run[i].outcomes \cap {"failed", "unprocessed"} # {} \/ outcome = "failed")
      <4>1. PresentDone(i) /\ VanishedDone(i)
        BY <3>2, <2>1 DEF QuietInv, Reconciled, Scanned, AtFile
      <4>2. OutcomeHolds(i, r)
        BY <3>2, <4>1
      <4>3. PresentDone(i)'
        BY <4>1, <4>2, <1>2, <1>4, <1>5 DEF PresentDone, OutcomeHolds, Present, UpToDate
      <4>4. VanishedDone(i)'
        <5> SUFFICES ASSUME NEW q \in Resources, Vanished(i, q)',
                            RecordsComplete(i)' \/ q \in watch'[i].known
                     PROVE  \/ q \in run'[i].missing /\ (Available(run[i].life, q)' \/ Unpublished(q)')
                            \/ Unpublished(q)'
          BY <1>2 DEF VanishedDone
        <5>1. Vanished(i, q) /\ (RecordsComplete(i) \/ q \in watch[i].known)
          BY <1>4, <1>5 DEF Vanished
        <5>2. CASE q = r
          BY <5>1, <5>2, <4>2 DEF OutcomeHolds
        <5>3. CASE q # r
          BY <5>1, <5>3, <4>1, <1>2, <1>6 DEF VanishedDone, Unpublished, Available
        <5> QED
          BY <5>2, <5>3
      <4> QED
        BY <4>3, <4>4 DEF Reconciled
    <3> QED
      BY <3>1, <3>2
  <2>4. /\ \A q \in run'[i].missing : disk'[Path(i, q)'] = None
        /\ \A q \in run'[i].todo : disk'[Path(i, q)'] # None
    BY <2>1, <1>2, <1>4, <1>5, <1>7 DEF QuietInv
  <2> QED
    BY <2>2, <2>3, <2>4, <1>2 DEF QuietInv, RecordCurrent, FileCurrent, AtFile, Path
<1>9. RunInv(i)'
  <2>1. \A q \in run'[i].missing :
           /\ run'[i].life[q] # None
           /\ Path(i, q)' \in watch'[i].gone
           /\ InScope(i, q[2])'
           /\ run'[i].scope.unreadable = {}
    BY <1>2, <1>3, <1>4, <1>6, <1>7 DEF RunInv
  <2>2. run'[i].status = "running"
    BY <1>2, <1>3 DEF RunInv, AtFile
  <2>3. (Absent \subseteq watch[i].gone)'
    BY <1>3, <1>5 DEF RunInv, Absent
  <2>4. \A q \in run'[i].missing \cup run'[i].todo : q[1] \in Selected(i)'
    BY <1>2, <1>3 DEF RunInv, Selected
  <2> QED
    BY <2>1, <2>2, <2>3, <2>4, <1>2, <1>8 DEF RunInv, AtFile, Path
<1>10. RecordsInv(i)'
  <2> SUFFICES ASSUME RecordsComplete(i)
               PROVE  /\ pc'[i] = "files" => run'[i].life = lifecycle'
                      /\ \A q \in Resources : graph'[q] # None /\ state'[q].src = q =>
                            Available(run'[i].life, q)
    BY <1>2, <1>5 DEF RecordsInv, AtFile, Available
  <2>1. run[i].life = lifecycle /\ pc[i] # "save"
    BY <1>3 DEF RecordsInv, AtFile
  <2>2. \A q \in Resources : graph[q] # None /\ state[q].src = q => Available(run[i].life, q)
    BY <1>3, <2>1 DEF RecordsInv
  <2>3. ASSUME NEW q \in Resources, graph'[q] # None /\ state'[q].src = q
        PROVE  Available(run'[i].life, q)
    <3>1. CASE q # r
      BY <2>2, <2>3, <3>1, <1>2, <1>6 DEF Available
    <3>2. CASE q = r
      BY <2>2, <2>3, <3>2, <1>2, <1>6 DEF Available, Unpublished
    <3> QED
      BY <3>1, <3>2
  <2> QED
    BY <2>1, <2>3, <1>2
<1>11. TypeOK'
  BY <1>2, TypesTogether
<1> QED
  BY <1>9, <1>10, <1>11, StepFrame

\* Reads: whatever changes only one importer's locals.
OnlyLocals(i) == OthersStay(i) /\ UNCHANGED <<port, disk, records, watch, edits, stops>>

LEMMA ReadFrame ==
    ASSUME FolderInv, NEW i \in Importers, OnlyLocals(i)
    PROVE  /\ Elsewhere(i) /\ WorldTypes' /\ PublishedOnly'
           /\ lifecycle' = lifecycle /\ stops' = stops /\ watch'[i] = watch[i]
           /\ \A q \in Resources : state'[q] = state[q] /\ graph'[q] = graph[q]
<1>1. WorldTypes
  BY TypesTogether DEF FolderInv
<1> QED
  BY <1>1 DEF OnlyLocals, Elsewhere, WorldTypes, FolderInv, PublishedOnly, port, records

\* The settling reads.
LEMMA SettleReads ==
    ASSUME FolderInv, NEW i \in Importers, pc[i] \in AtFile \cup {"files"}, NEW r \in Resources,
           NEW outcome \in Outcomes, NEW entry \in LifecycleFile \cup {None},
           Settle(i, r, outcome, entry),
           UNCHANGED <<port, disk, records, watch, edits, stops>>,
           watch[i].quiet /\ outcome # "failed" /\ PresentDone(i) /\ VanishedDone(i) =>
               /\ Present(i, r) => UpToDate(i, r)
               /\ Vanished(i, r) /\ (RecordsComplete(i) \/ r \in watch[i].known) => Unpublished(r),
           RecordsComplete(i) => entry = None \/ entry.available \/ Unpublished(r)
    PROVE  FolderInv'
<1>1. OnlyLocals(i)
  BY SettleEffect DEF OnlyLocals, FolderInv, AtFile
<1>2. /\ Elsewhere(i) /\ WorldTypes' /\ PublishedOnly'
      /\ lifecycle' = lifecycle /\ stops' = stops /\ watch'[i] = watch[i]
      /\ \A q \in Resources : state'[q] = state[q] /\ graph'[q] = graph[q]
  BY <1>1, ReadFrame
<1>3. watch[i].quiet /\ outcome # "failed" /\ PresentDone(i) /\ VanishedDone(i) => OutcomeHolds(i, r)
  BY <1>2 DEF OutcomeHolds, UpToDate, Unpublished
<1>4. RecordsComplete(i) =>
               \/ entry # None /\ entry.available
               \/ entry = None /\ state'[r] = state[r] /\ graph'[r] = graph[r]
               \/ Unpublished(r)'
  BY <1>2 DEF Unpublished
<1> QED
  BY <1>2, <1>3, <1>4, SettleKeeps

LEMMA GoReads ==
    ASSUME FolderInv, NEW i \in Importers, NEW where, NEW what, Go(i, where, what),
           LocalsFor(where, what),
           UNCHANGED <<port, disk, records, watch, edits, stops>>
    PROVE  /\ pc'[i] = where /\ run'[i] = what
           /\ OnlyLocals(i)
           /\ state' = state /\ graph' = graph /\ disk' = disk /\ lifecycle' = lifecycle
           /\ watch' = watch /\ stops' = stops
           /\ RunInv(i)' /\ RecordsInv(i)' => FolderInv'
<1>1. /\ LocalTypes'
      /\ pc'[i] = where /\ run'[i] = what
      /\ OthersStay(i)
  BY GoType DEF FolderInv
<1>2. Elsewhere(i) /\ WorldTypes' /\ PublishedOnly'
  BY <1>1, ReadFrame DEF OnlyLocals
<1>3. RunInv(i)' /\ RecordsInv(i)' => FolderInv'
  BY <1>1, <1>2, StepFrame, TypesTogether
<1> QED
  BY <1>1, <1>3 DEF OnlyLocals, port, records

\* What is left to be done depends on the lists, the record and the world.
LEMMA ReconciledStays ==
    ASSUME NEW i \in Importers, Reconciled(i),
           state' = state, graph' = graph, disk' = disk, stops' = stops, watch'[i] = watch[i],
           run'[i].sel = run[i].sel, run'[i].scope = run[i].scope, run'[i].life = run[i].life,
           run'[i].missing = run[i].missing, run'[i].todo = run[i].todo,
           run'[i].outcomes = run[i].outcomes
    PROVE  Reconciled(i)'
<1>1. \A r \in Resources : /\ Present(i, r)' <=> Present(i, r)
                           /\ Vanished(i, r)' <=> Vanished(i, r)
                           /\ UpToDate(i, r)' <=> UpToDate(i, r)
                           /\ Unpublished(r)' <=> Unpublished(r)
                           /\ Available(run[i].life, r)' <=> Available(run[i].life, r)
  BY DEF Present, Vanished, UpToDate, Unpublished, Available, Selected, InScope, Path
<1>2. PresentDone(i) => PresentDone(i)'
  BY <1>1 DEF PresentDone
<1>3. VanishedDone(i) => VanishedDone(i)'
  BY <1>1 DEF VanishedDone, RecordsComplete
<1> QED
  BY <1>2, <1>3 DEF Reconciled

-----------------------------------------------------------------------------
(***************************************************************************)
(* The steps of an importer.                                               *)
(***************************************************************************)
LEMMA ReadRegistryKeeps ==
    ASSUME FolderInv, NEW i \in Importers, ReadRegistry(i)
    PROVE  FolderInv'
<1> DEFINE refused == [run[i] EXCEPT !.status = "refused"]
           known == [run[i] EXCEPT !.seen = registry]
<1>1. /\ pc[i] = "registry" /\ run[i] \in Run
      /\ RunInv(i) /\ RecordsInv(i)
  BY RunType DEF ReadRegistry, FolderInv
<1>2. registry \in [Namespaces -> Roots \cup {None}]
  BY DEF FolderInv, TypeOK
<1>3. CASE BindConflict(registry, run[i].sel)
  <2>1. LocalsFor("done", refused)
    BY <1>1 DEF LocalsFor, PCs, Run
  <2>2. /\ pc'[i] = "done" /\ run'[i] = refused
        /\ state' = state /\ graph' = graph /\ disk' = disk /\ lifecycle' = lifecycle
        /\ watch' = watch /\ stops' = stops
        /\ RunInv(i)' /\ RecordsInv(i)' => FolderInv'
    BY <1>3, <2>1, GoReads DEF ReadRegistry
  <2>3. /\ run'[i].sel = run[i].sel /\ run'[i].scope = run[i].scope
        /\ run'[i].missing = {} /\ run'[i].todo = {} /\ run'[i].status = "refused"
    BY <1>1, <2>2 DEF Run, RunInv
  <2>4. QuietInv(i)'
    BY <2>2, <2>3 DEF QuietInv, RecordCurrent, FileCurrent, AtFile, Scanned
  <2>5. RunInv(i)'
    BY <1>1, <2>2, <2>3, <2>4 DEF RunInv, AtFile, Absent
  <2>6. RecordsInv(i)'
    BY <1>1, <2>2 DEF RecordsInv, RecordsComplete, AtFile, Available
  <2> QED
    BY <2>2, <2>5, <2>6
<1>4. CASE ~BindConflict(registry, run[i].sel)
  <2> DEFINE where == IF Bind(registry, run[i].sel) = registry THEN "scan" ELSE "bind"
  <2>1. LocalsFor(where, known) /\ where \in {"scan", "bind"}
    BY <1>1, <1>2 DEF LocalsFor, PCs, Run
  <2> HIDE DEF where
  <2>2. Go(i, where, known) /\ UNCHANGED <<port, disk, records, watch, edits, stops>>
    BY <1>4 DEF ReadRegistry, where
  <2>3. /\ pc'[i] = where /\ run'[i] = known
        /\ state' = state /\ graph' = graph /\ disk' = disk /\ lifecycle' = lifecycle
        /\ watch' = watch /\ stops' = stops
        /\ RunInv(i)' /\ RecordsInv(i)' => FolderInv'
    BY <2>1, <2>2, GoReads
  <2>4. /\ run'[i].sel = run[i].sel /\ run'[i].scope = run[i].scope /\ run'[i].life = run[i].life
        /\ run'[i].missing = {} /\ run'[i].todo = {} /\ run'[i].status = "running"
    BY <1>1, <2>3 DEF Run, RunInv
  <2>5. watch[i].quiet => QuietInv(i)'
    BY <1>1, <2>1, <2>3, <2>4 DEF RunInv, QuietInv, RecordCurrent, FileCurrent, AtFile, Scanned, Available
  <2>6. RunInv(i)'
    BY <1>1, <2>1, <2>3, <2>4, <2>5 DEF RunInv, AtFile, Absent
  <2>7. RecordsInv(i)'
    BY <1>1, <2>1, <2>3, <2>4 DEF RecordsInv, RecordsComplete, AtFile, Available
  <2> QED
    BY <2>3, <2>6, <2>7
<1> QED
  BY <1>3, <1>4

\* Writing a record or the catalog disturbs the others.
LEMMA DisturbOthers ==
    ASSUME FolderInv, NEW i \in Importers, Disturb(Others(i)), OthersStay(i), disk' = disk
    PROVE  Elsewhere(i) /\ watch'[i] = watch[i] /\ watch' \in [Importers -> Watch]
<1>1. watch \in [Importers -> Watch]
  BY DEF FolderInv, TypeOK
<1>2. watch' = [j \in Importers |-> IF j \in Others(i) THEN [watch[j] EXCEPT !.quiet = FALSE] ELSE watch[j]]
  BY DEF Disturb
<1>3. \A j \in Importers : [watch[j] EXCEPT !.quiet = FALSE] \in Watch
  BY <1>1 DEF Watch
<1> QED
  BY <1>1, <1>2, <1>3 DEF Elsewhere, Others

LEMMA WriteRegistryKeeps ==
    ASSUME FolderInv, NEW i \in Importers, WriteRegistry(i)
    PROVE  FolderInv'
<1>1. /\ pc[i] = "bind" /\ run[i] \in Run
      /\ RunInv(i) /\ RecordsInv(i)
  BY RunType DEF WriteRegistry, FolderInv
<1>2. LocalsFor("scan", run[i])
  BY <1>1 DEF LocalsFor, PCs
<1>3. /\ LocalTypes'
      /\ pc'[i] = "scan" /\ run'[i] = run[i]
      /\ OthersStay(i)
  BY <1>2, GoType DEF FolderInv, WriteRegistry
<1>4. /\ state' = state /\ graph' = graph /\ issued' = issued /\ disk' = disk
      /\ lifecycle' = lifecycle /\ edits' = edits /\ stops' = stops
  BY DEF WriteRegistry, port
<1>5. Elsewhere(i) /\ watch'[i] = watch[i] /\ watch' \in [Importers -> Watch]
  BY <1>3, <1>4, DisturbOthers DEF WriteRegistry
<1>6. registry' \in [Namespaces -> Roots \cup {None}]
  BY <1>1 DEF WriteRegistry, Bind, Run
<1>7. WorldTypes'
  BY <1>4, <1>5, <1>6, TypesTogether DEF FolderInv, WorldTypes
<1>8. PublishedOnly'
  BY <1>4 DEF FolderInv, PublishedOnly
<1>9. watch[i].quiet => QuietInv(i)'
  BY <1>1, <1>3, <1>4, <1>5
     DEF RunInv, QuietInv, RecordCurrent, FileCurrent, AtFile, Scanned, Available
<1>10. RunInv(i)'
  BY <1>1, <1>3, <1>4, <1>5, <1>9 DEF RunInv, AtFile, Absent
<1>11. RecordsInv(i)'
  BY <1>1, <1>3, <1>4 DEF RecordsInv, RecordsComplete, AtFile, Available
<1> QED
  BY <1>3, <1>5, <1>7, <1>8, <1>10, <1>11, StepFrame, TypesTogether

\* What the scan sorted, against what is on the disk.
LEMMA ScanSorts ==
    ASSUME FolderInv, NEW i \in Importers, pc[i] # "idle", NEW r \in Resources,
           NEW missing, missing = Missing(run[i].sel, run[i].scope, run[i].life),
           NEW todo, todo = {q \in Observed(run[i].sel, run[i].scope) : q[2] \notin run[i].scope.excluded}
    PROVE  /\ r \in missing => /\ run[i].life[r] # None
                               /\ r[1] \in Selected(i) /\ Path(i, r) \in Absent /\ InScope(i, r[2])
                               /\ run[i].scope.unreadable = {}
           /\ r \in todo => r[1] \in Selected(i) /\ disk[Path(i, r)] # None
           /\ run[i].scope.unreadable = {} =>
                 /\ Present(i, r) => r \in todo
                 /\ Vanished(i, r) /\ run[i].life[r] # None => r \in missing
<1>1. /\ run[i] \in Run
      /\ r[1] \in Namespaces /\ r[2] \in Refs
      /\ r[1] \in Selected(i) => Path(i, r) \in Files
      /\ Path(i, r) = <<run[i].sel[r[1]], r[2]>>
      /\ r[1] \in Selected(i) <=> run[i].sel[r[1]] # None
  BY RunType DEF FolderInv, Path, Selected
<1>2. r \in Observed(run[i].sel, run[i].scope) <=>
        /\ r[1] \in Selected(i) /\ disk[Path(i, r)] # None
        /\ r[2] \notin Blocked(run[i].scope) \cup run[i].scope.unreadable
  BY <1>1 DEF Observed
<1>3. r \in missing <=>
        /\ run[i].scope.unreadable = {}
        /\ r[1] \in Selected(i) /\ run[i].life[r] # None
        /\ r \notin Observed(run[i].sel, run[i].scope)
        /\ InScope(i, r[2])
  BY <1>1 DEF Missing, InScope
<1>4. r \in todo <=> r \in Observed(run[i].sel, run[i].scope) /\ r[2] \notin run[i].scope.excluded
  OBVIOUS
<1> QED
  BY <1>1, <1>2, <1>3, <1>4 DEF InScope, Present, Vanished, Absent

LEMMA ScanKeeps ==
    ASSUME FolderInv, NEW i \in Importers, Scan(i)
    PROVE  FolderInv'
<1> DEFINE missing == Missing(run[i].sel, run[i].scope, run[i].life)
           todo == {q \in Observed(run[i].sel, run[i].scope) : q[2] \notin run[i].scope.excluded}
           outcomes == (IF run[i].scope.unreadable # {} THEN {"unprocessed"} ELSE {})
                         \cup (IF run[i].scope.linked # {} THEN {"skipped"} ELSE {})
           what == [run[i] EXCEPT !.missing = missing, !.todo = todo, !.outcomes = outcomes]
<1>1. /\ pc[i] = "scan" /\ run[i] \in Run
      /\ RunInv(i) /\ RecordsInv(i)
  BY RunType DEF Scan, FolderInv
<1>2. /\ missing \subseteq Resources /\ todo \subseteq Resources /\ outcomes \subseteq Outcomes
      /\ run[i].scope.unreadable # {} => "unprocessed" \in outcomes
  BY DEF Missing, Observed, Outcomes
<1>3. \A r \in Resources :
           /\ r \in missing => /\ run[i].life[r] # None
                               /\ r[1] \in Selected(i) /\ Path(i, r) \in Absent /\ InScope(i, r[2])
                               /\ run[i].scope.unreadable = {}
           /\ r \in todo => r[1] \in Selected(i) /\ disk[Path(i, r)] # None
           /\ run[i].scope.unreadable = {} =>
                 /\ Present(i, r) => r \in todo
                 /\ Vanished(i, r) /\ run[i].life[r] # None => r \in missing
  BY <1>1, ScanSorts
<1>4. Go(i, "files", what) /\ UNCHANGED <<port, disk, records, watch, edits, stops>>
  BY DEF Scan
<1> HIDE DEF missing, todo, outcomes
<1>5. LocalsFor("files", what)
  BY <1>1, <1>2 DEF LocalsFor, PCs, Run
<1>6. /\ pc'[i] = "files" /\ run'[i] = what
      /\ state' = state /\ graph' = graph /\ disk' = disk /\ lifecycle' = lifecycle
      /\ watch' = watch /\ stops' = stops
      /\ RunInv(i)' /\ RecordsInv(i)' => FolderInv'
  BY <1>4, <1>5, GoReads
<1>7. /\ run'[i].sel = run[i].sel /\ run'[i].scope = run[i].scope /\ run'[i].life = run[i].life
      /\ run'[i].missing = missing /\ run'[i].todo = todo /\ run'[i].outcomes = outcomes
      /\ run'[i].status = "running"
  BY <1>1, <1>6 DEF Run, RunInv
<1>8. \A r \in Resources : /\ Path(i, r)' = Path(i, r) /\ InScope(i, r[2])' = InScope(i, r[2])
                           /\ Present(i, r)' <=> Present(i, r)
                           /\ Vanished(i, r)' <=> Vanished(i, r)
  BY <1>6, <1>7 DEF Path, InScope, Selected, Present, Vanished
<1>9. watch[i].quiet => QuietInv(i)'
  <2> SUFFICES ASSUME watch[i].quiet PROVE QuietInv(i)'
    OBVIOUS
  <2>1. /\ run[i].life = lifecycle
        /\ watch[i].known = {r \in Resources : Available(lifecycle, r)}
    BY <1>1 DEF RunInv, QuietInv, RecordCurrent
  <2>2. \A r \in missing : disk[Path(i, r)] = None
    BY <1>2, <1>3 DEF Absent
  <2>3. \A r \in todo : disk[Path(i, r)] # None
    BY <1>2, <1>3
  <2>4. Reconciled(i)'
    <3>1. CASE run[i].scope.unreadable # {}
      BY <3>1, <1>2, <1>7 DEF Reconciled
    <3>2. CASE run[i].scope.unreadable = {}
      <4>1. PresentDone(i)'
        BY <3>2, <1>3, <1>7, <1>8 DEF PresentDone
      <4>2. VanishedDone(i)'
        <5> SUFFICES ASSUME NEW r \in Resources, Vanished(i, r), ~Unpublished(r),
                            RecordsComplete(i) \/ r \in watch[i].known
                     PROVE  r \in missing /\ Available(run[i].life, r)
          BY <1>6, <1>7, <1>8 DEF VanishedDone, RecordsComplete, Unpublished
        <5>1. Available(lifecycle, r)
          BY <2>1, <1>1 DEF RecordsInv, Unpublished
        <5> QED
          BY <5>1, <2>1, <3>2, <1>3 DEF Available
      <4> QED
        BY <4>1, <4>2 DEF Reconciled
    <3> QED
      BY <3>1, <3>2
  <2>5. (\A r \in run[i].missing : disk[Path(i, r)] = None)' /\ (\A r \in run[i].todo : disk[Path(i, r)] # None)'
    BY <2>2, <2>3, <1>2, <1>6, <1>7, <1>8
  <2> QED
    BY <2>1, <2>4, <2>5, <1>6, <1>7 DEF QuietInv, RecordCurrent, FileCurrent
<1>10. RunInv(i)'
  <2>1. Absent' = Absent
    BY <1>6 DEF Absent
  <2>2. \A r \in missing : /\ run[i].life[r] # None
                           /\ Path(i, r) \in watch[i].gone
                           /\ InScope(i, r[2])
                           /\ run[i].scope.unreadable = {}
    BY <1>1, <1>2, <1>3 DEF RunInv
  <2>3. \A r \in missing \cup todo : r[1] \in Selected(i)
    BY <1>2, <1>3
  <2>4. Selected(i)' = Selected(i)
    BY <1>7 DEF Selected
  <2> QED
    BY <2>1, <2>2, <2>3, <2>4, <1>1, <1>2, <1>6, <1>7, <1>8, <1>9 DEF RunInv, AtFile
<1>11. RecordsInv(i)'
  BY <1>1, <1>6, <1>7 DEF RecordsInv, RecordsComplete, AtFile, Available
<1> QED
  BY <1>6, <1>10, <1>11

LEMMA SaveKeeps ==
    ASSUME FolderInv, NEW i \in Importers, Save(i)
    PROVE  FolderInv'
<1>1. /\ pc[i] = "save" /\ run[i] \in Run
      /\ RunInv(i) /\ RecordsInv(i)
  BY RunType DEF Save, FolderInv
<1>2. LocalsFor("files", run[i])
  BY <1>1 DEF LocalsFor, PCs
<1>3. /\ LocalTypes'
      /\ pc'[i] = "files" /\ run'[i] = run[i]
      /\ OthersStay(i)
  BY <1>2, GoType DEF FolderInv, Save
<1>4. /\ state' = state /\ graph' = graph /\ issued' = issued /\ disk' = disk
      /\ registry' = registry /\ edits' = edits /\ stops' = stops
      /\ lifecycle' = run[i].life /\ run[i].life \in Lifecycle
  BY <1>1 DEF Save, port, Run
<1>5. Elsewhere(i) /\ watch'[i] = watch[i] /\ watch' \in [Importers -> Watch]
  BY <1>3, <1>4, DisturbOthers DEF Save
<1>6. WorldTypes'
  BY <1>4, <1>5, TypesTogether DEF FolderInv, WorldTypes
<1>7. PublishedOnly'
  BY <1>4 DEF FolderInv, PublishedOnly
<1>8. watch[i].quiet => QuietInv(i)'
  <2> SUFFICES ASSUME watch[i].quiet PROVE QuietInv(i)'
    OBVIOUS
  <2>1. QuietInv(i)
    BY <1>1 DEF RunInv
  <2>2. Reconciled(i)'
    BY <2>1, <1>1, <1>3, <1>4, <1>5, ReconciledStays DEF QuietInv, Scanned
  <2> QED
    BY <2>1, <2>2, <1>3, <1>4 DEF QuietInv, RecordCurrent, FileCurrent, Path
<1>9. RunInv(i)'
  BY <1>1, <1>3, <1>4, <1>5, <1>8 DEF RunInv, AtFile, Absent, Path, InScope, Selected
<1>10. RecordsInv(i)'
  BY <1>1, <1>3, <1>4 DEF RecordsInv, RecordsComplete, AtFile, Available
<1> QED
  BY <1>3, <1>5, <1>6, <1>7, <1>9, <1>10, StepFrame, TypesTogether

\* A step within one file: the lists, the record and the outcomes stay.
LEMMA AtFileKeeps ==
    ASSUME FolderInv, NEW i \in Importers, pc[i] \in AtFile \cup {"files"},
           NEW where \in AtFile, NEW what, LocalsFor(where, what),
           what.sel = run[i].sel, what.scope = run[i].scope, what.life = run[i].life,
           what.missing = run[i].missing, what.todo = run[i].todo,
           what.outcomes = run[i].outcomes, what.status = run[i].status,
           what.file \in run[i].missing \cup run[i].todo,
           where = "withdraw" => what.file \in run[i].missing,
           Go(i, where, what), UNCHANGED <<port, disk, records, edits, stops>>,
           watch' = watch \/ watch' = [watch EXCEPT ![i].checked = TRUE],
           where = "decide" /\ watch'[i].checked => disk[Path(i, what.file)] = what.bytes,
           watch[i].quiet =>
               LET r == what.file
               IN  /\ where # "reread"
                   /\ where \in {"withdraw", "guard", "decide"} => what.base = read_snapshot(r)
                   /\ where \in {"guard", "decide"} => what.bytes = disk[Path(i, r)]
                   /\ where \in {"ingest", "guard", "decide"} => state[r].status # "deleted"
                   /\ where \in {"ingest", "guard", "decide"} => disk[Path(i, r)] # None
    PROVE  FolderInv'
<1>1. /\ pc[i] # "idle" /\ pc[i] # "done" /\ run[i] \in Run
      /\ RunInv(i) /\ RecordsInv(i)
  BY RunType DEF FolderInv, AtFile
<1>2. /\ LocalTypes'
      /\ pc'[i] = where /\ run'[i] = what
      /\ OthersStay(i)
  BY GoType DEF FolderInv
<1>3. /\ state' = state /\ graph' = graph /\ issued' = issued /\ disk' = disk
      /\ registry' = registry /\ lifecycle' = lifecycle /\ edits' = edits /\ stops' = stops
  BY DEF port, records
<1>4. /\ watch' \in [Importers -> Watch]
      /\ watch'[i].quiet = watch[i].quiet /\ watch'[i].gone = watch[i].gone
      /\ watch'[i].known = watch[i].known
      /\ \A j \in Importers : j # i => watch'[j] = watch[j]
  <2>1. watch \in [Importers -> Watch]
    BY DEF FolderInv, TypeOK
  <2>2. CASE watch' = watch
    BY <2>1, <2>2
  <2>3. CASE watch' = [watch EXCEPT ![i].checked = TRUE]
    BY <2>1, <2>3 DEF Watch
  <2> QED
    BY <2>2, <2>3
<1>5. Elsewhere(i)
  BY <1>2, <1>3, <1>4 DEF Elsewhere
<1>6. WorldTypes'
  BY <1>3, <1>4, TypesTogether DEF FolderInv, WorldTypes
<1>7. PublishedOnly'
  BY <1>3 DEF FolderInv, PublishedOnly
<1>8. \A r \in Resources : Path(i, r)' = Path(i, r) /\ InScope(i, r[2])' = InScope(i, r[2])
  BY <1>2 DEF Path, InScope
<1>9. run[i].missing \subseteq Resources /\ run[i].todo \subseteq Resources
  BY <1>1 DEF Run
<1>10. watch[i].quiet => QuietInv(i)'
  <2> SUFFICES ASSUME watch[i].quiet PROVE QuietInv(i)'
    OBVIOUS
  <2>1. QuietInv(i)
    BY <1>1 DEF RunInv
  <2>2. Reconciled(i)'
    <3>1. Reconciled(i)
      BY <2>1 DEF QuietInv, Scanned
    <3>2. CASE run[i].outcomes \cap {"failed", "unprocessed"} # {}
      BY <3>2, <1>2 DEF Reconciled
    <3>3. CASE PresentDone(i) /\ VanishedDone(i)
      <4>1. PresentDone(i)'
        BY <3>3, <1>2, <1>3 DEF PresentDone, Present, UpToDate, Selected, InScope, Path
      <4>2. VanishedDone(i)'
        BY <3>3, <1>2, <1>3, <1>4
           DEF VanishedDone, Vanished, Unpublished, Available, RecordsComplete, Selected, InScope, Path
      <4> QED
        BY <4>1, <4>2 DEF Reconciled
    <3> QED
      BY <3>1, <3>2, <3>3 DEF Reconciled
  <2>3. RecordCurrent(i)'
    BY <2>1, <1>2, <1>3 DEF QuietInv, RecordCurrent, AtFile
  <2>4. FileCurrent(i)'
    BY <1>2, <1>3 DEF FileCurrent, read_snapshot, Path
  <2>5. (\A r \in run[i].missing : disk[Path(i, r)] = None)' /\ (\A r \in run[i].todo : disk[Path(i, r)] # None)'
    BY <2>1, <1>2, <1>3, <1>8, <1>9 DEF QuietInv
  <2> QED
    BY <2>2, <2>3, <2>4, <2>5, <1>2 DEF QuietInv, AtFile
<1>11. RunInv(i)'
  <2>1. (pc[i] = "decide" /\ watch[i].checked => disk[Path(i, run[i].file)] = run[i].bytes)'
    BY <1>2, <1>3, <1>8, <1>9
  <2>2. run'[i].status = "running"
    BY <1>1, <1>2 DEF RunInv
  <2>3. (Absent \subseteq watch[i].gone)'
    BY <1>1, <1>3, <1>4 DEF RunInv, Absent
  <2>4. \A r \in run'[i].missing :
           /\ run'[i].life[r] # None
           /\ Path(i, r)' \in watch'[i].gone
           /\ InScope(i, r[2])'
           /\ run'[i].scope.unreadable = {}
    BY <1>1, <1>2, <1>4, <1>8, <1>9 DEF RunInv
  <2>5. (\A r \in run[i].missing \cup run[i].todo : r[1] \in Selected(i))'
    BY <1>1, <1>2 DEF RunInv, Selected
  <2>6. what.file \in run'[i].missing \cup run'[i].todo
    BY <1>2
  <2> QED
    BY <2>1, <2>2, <2>3, <2>4, <2>5, <2>6, <1>2, <1>4, <1>10 DEF RunInv, AtFile
<1>12. RecordsInv(i)'
  BY <1>1, <1>2, <1>3 DEF RecordsInv, RecordsComplete, AtFile, Available
<1> QED
  BY <1>2, <1>5, <1>6, <1>7, <1>11, <1>12, StepFrame, TypesTogether

\* A snapshot is a value, and what a snapshot's state says of a resource.
LEMMA SnapshotType ==
    ASSUME TypeOK, NEW r \in Resources
    PROVE  /\ read_snapshot(r) \in Snapshot /\ read_snapshot(r) # None
           /\ read_snapshot(r).state = state[r] /\ read_snapshot(r).graph = graph[r]
BY FolderRecordsAssumption DEF TypeOK, read_snapshot, Snapshot

LEMMA MarkedType ==
    ASSUME NEW entry \in LifecycleFile
    PROVE  /\ mark_unavailable(entry) \in LifecycleFile
           /\ mark_unavailable(entry) # None /\ entry # None
           /\ ~mark_unavailable(entry).available
BY FolderRecordsAssumption DEF LifecycleFile, mark_unavailable

LEMMA ReconcileMissingKeeps ==
    ASSUME FolderInv, NEW i \in Importers, NEW r \in Resources, ReconcileMissing(i, r)
    PROVE  FolderInv'
<1> DEFINE entry == run[i].life[r]
<1>1. /\ pc[i] = "files" /\ r \in run[i].missing /\ run[i] \in Run
      /\ RunInv(i) /\ RecordsInv(i) /\ TypeOK
      /\ UNCHANGED <<port, disk, records, watch, edits, stops>>
  BY RunType DEF ReconcileMissing, FolderInv
<1>2. entry \in LifecycleFile
  BY <1>1 DEF RunInv, Run, Lifecycle
<1>3. watch[i].quiet => disk[Path(i, r)] = None
  BY <1>1 DEF RunInv, QuietInv
<1>4. CASE ~entry.available
  <2>1. Settle(i, r, "unavailable", None)
    BY <1>4 DEF ReconcileMissing
  <2>2. watch[i].quiet /\ PresentDone(i) /\ VanishedDone(i) =>
               /\ Present(i, r) => UpToDate(i, r)
               /\ Vanished(i, r) /\ (RecordsComplete(i) \/ r \in watch[i].known) => Unpublished(r)
    BY <1>3, <1>4 DEF Present, VanishedDone, Available
  <2> QED
    BY <2>1, <2>2, <1>1, SettleReads DEF Outcomes
<1>5. CASE entry.available /\ state[r].status # "published"
  <2>1. Settle(i, r, "unavailable", mark_unavailable(entry))
    BY <1>5 DEF ReconcileMissing
  <2>2. Unpublished(r)
    BY <1>5 DEF FolderInv, PublishedOnly, Unpublished
  <2>3. mark_unavailable(entry) \in LifecycleFile
    BY <1>2, MarkedType
  <2>4. watch[i].quiet => ~Present(i, r)
    BY <1>3 DEF Present
  <2> QED
    BY <2>1, <2>2, <2>3, <2>4, <1>1, SettleReads DEF Outcomes
<1>6. CASE entry.available /\ state[r].status = "published" /\ state[r].src # r
  <2>1. Settle(i, r, "failed", None)
    BY <1>6 DEF ReconcileMissing
  <2> QED
    BY <2>1, <1>1, SettleReads DEF Outcomes
<1>7. CASE entry.available /\ state[r].status = "published" /\ state[r].src = r
  <2> DEFINE what == [run[i] EXCEPT !.file = r, !.base = read_snapshot(r)]
  <2>1. Go(i, "withdraw", what)
    BY <1>7 DEF ReconcileMissing
  <2>2. read_snapshot(r) \in Snapshot /\ read_snapshot(r) # None
    BY <1>1, SnapshotType
  <2>3. /\ what \in Run
        /\ what.sel = run[i].sel /\ what.scope = run[i].scope /\ what.life = run[i].life
        /\ what.missing = run[i].missing /\ what.todo = run[i].todo
        /\ what.outcomes = run[i].outcomes /\ what.status = run[i].status
        /\ what.file = r /\ what.base = read_snapshot(r)
    BY <2>2, <1>1 DEF Run
  <2> HIDE DEF what
  <2>4. LocalsFor("withdraw", what)
    BY <2>2, <2>3 DEF LocalsFor, PCs
  <2>5. "withdraw" \in AtFile /\ pc[i] \in AtFile \cup {"files"}
    BY <1>1 DEF AtFile
  <2> QED
    BY <2>1, <2>3, <2>4, <2>5, <1>1, AtFileKeeps
<1> QED
  BY <1>4, <1>5, <1>6, <1>7

\* One move of the catalog.
LEMMA MoveEffect ==
    ASSUME TypeOK, PublishedOnly, NEW r \in Resources, NEW status \in Statuses,
           NEW src \in Sources \cup {None}, NEW g \in Contents \cup {None},
           g # None => status = "published" /\ src \in Sources,
           Port!Move(r, status, src, g)
    PROVE  /\ state' \in [Resources -> StateType]
           /\ graph' \in [Resources -> Contents \cup {None}]
           /\ issued' \in Nat
           /\ PublishedOnly'
           /\ graph'[r] = g /\ state'[r].src = src /\ state'[r].status = status
           /\ \A q \in Resources : q # r => state'[q] = state[q] /\ graph'[q] = graph[q]
           /\ issued' # issued
<1>1. /\ state \in [Resources -> StateType]
      /\ graph \in [Resources -> Contents \cup {None}]
      /\ issued \in Nat
  BY DEF TypeOK
<1>2. /\ state' = [state EXCEPT ![r] = NextState(state[r], status, src, issued + 1)]
      /\ graph' = [graph EXCEPT ![r] = g]
      /\ issued' = issued + 1
  BY DEF Port!Move, Port!PutState, Port!NextState, Port!IsLive, NextState, IsLive
<1>3. state[r] \in StateType /\ state[r].life \in Nat
  BY <1>1 DEF StateType
<1> DEFINE next == NextState(state[r], status, src, issued + 1)
<1>4. next \in StateType /\ next.src = src /\ next.status = status
  BY <1>1, <1>3 DEF StateType, NextState
<1> HIDE DEF next
<1>5. state' = [state EXCEPT ![r] = next]
  BY <1>2 DEF next
<1>6. /\ state' \in [Resources -> StateType]
      /\ graph' \in [Resources -> Contents \cup {None}]
      /\ state'[r] = next /\ graph'[r] = g
      /\ \A q \in Resources : q # r => state'[q] = state[q] /\ graph'[q] = graph[q]
  BY <1>1, <1>2, <1>4, <1>5
<1>7. PublishedOnly'
  BY <1>4, <1>6 DEF PublishedOnly
<1> QED
  BY <1>1, <1>2, <1>4, <1>6, <1>7

\* The settling writes to the catalog.
LEMMA SettleWrites ==
    ASSUME FolderInv, NEW i \in Importers, pc[i] \in AtFile, NEW r \in Resources,
           NEW outcome \in Outcomes, NEW entry \in LifecycleFile \cup {None},
           NEW status \in Statuses, NEW src \in Sources \cup {None}, NEW g \in Contents \cup {None},
           g # None => status = "published" /\ src \in Sources,
           Port!Move(r, status, src, g),
           Settle(i, r, outcome, entry),
           Disturb(Others(i)), UNCHANGED <<disk, records, edits, stops>>,
           watch[i].quiet =>
               /\ Present(i, r) => g = disk[Path(i, r)] /\ src = r
               /\ Vanished(i, r) => g = None,
           g = None \/ (entry # None /\ entry.available)
    PROVE  FolderInv'
<1>1. /\ state' \in [Resources -> StateType]
      /\ graph' \in [Resources -> Contents \cup {None}]
      /\ issued' \in Nat
      /\ PublishedOnly'
      /\ graph'[r] = g /\ state'[r].src = src /\ state'[r].status = status
      /\ \A q \in Resources : q # r => state'[q] = state[q] /\ graph'[q] = graph[q]
  BY MoveEffect DEF FolderInv
<1>2. OthersStay(i) /\ pc[i] # "idle"
  BY SettleEffect DEF FolderInv, AtFile
<1>3. /\ disk' = disk /\ registry' = registry /\ lifecycle' = lifecycle
      /\ edits' = edits /\ stops' = stops
  BY DEF records
<1>4. Elsewhere(i) /\ watch'[i] = watch[i] /\ watch' \in [Importers -> Watch]
  BY <1>2, <1>3, DisturbOthers
<1>5. WorldTypes'
  BY <1>1, <1>3, <1>4, TypesTogether DEF FolderInv, WorldTypes
<1>6. watch[i].quiet => OutcomeHolds(i, r)
  BY <1>1 DEF OutcomeHolds, Unpublished
<1>7. \/ entry # None /\ entry.available
      \/ Unpublished(r)'
  BY <1>1 DEF Unpublished
<1> QED
  BY <1>1, <1>3, <1>4, <1>5, <1>6, <1>7, SettleKeeps

\* The file a run is at, and what it holds of it.
LEMMA FileType ==
    ASSUME FolderInv, NEW i \in Importers, pc[i] \in AtFile
    PROVE  /\ run[i] \in Run /\ run[i].file \in Resources
           /\ RunInv(i) /\ RecordsInv(i) /\ TypeOK
           /\ pc[i] \in {"withdraw", "guard", "decide", "reread"} =>
                 run[i].base \in Snapshot /\ run[i].base.state \in StateType
           /\ pc[i] \in {"guard", "decide", "reread"} => run[i].bytes \in Contents
           /\ watch[i].quiet => QuietInv(i) /\ FileCurrent(i)
           /\ run[i].file \in run[i].missing \cup run[i].todo
           /\ Path(i, run[i].file) \in Files
<1>1. pc[i] # "idle" /\ run[i] \in Run /\ RunInv(i) /\ RecordsInv(i) /\ TypeOK
  BY RunType DEF FolderInv, AtFile
<1>2. /\ run[i].file \in run[i].missing \cup run[i].todo
      /\ run[i].file \in Resources /\ run[i].file[1] \in Selected(i)
  BY <1>1 DEF RunInv, Run
<1>3. /\ pc[i] \in {"withdraw", "guard", "decide", "reread"} => run[i].base \in Snapshot
      /\ pc[i] \in {"guard", "decide", "reread"} => run[i].bytes \in Contents
  BY <1>1 DEF TypeOK, Run
<1>4. \A base \in Snapshot : base.state \in StateType
  BY DEF Snapshot
<1>5. Path(i, run[i].file) \in Files
  BY <1>1, <1>2, RunType
<1> QED
  BY <1>1, <1>2, <1>3, <1>4, <1>5 DEF RunInv, QuietInv

LEMMA WithdrawMissingKeeps ==
    ASSUME FolderInv, NEW i \in Importers, WithdrawMissing(i)
    PROVE  FolderInv'
<1> DEFINE r == run[i].file
           unavailable == mark_unavailable(run[i].life[r])
<1>1. /\ pc[i] = "withdraw" /\ pc[i] \in AtFile
      /\ UNCHANGED <<disk, records, edits, stops>>
  BY DEF WithdrawMissing, AtFile
<1>2. /\ run[i] \in Run /\ r \in Resources
      /\ RunInv(i) /\ TypeOK
      /\ watch[i].quiet => QuietInv(i) /\ FileCurrent(i)
  BY <1>1, FileType
<1>3. r \in run[i].missing /\ run[i].life[r] \in LifecycleFile
  BY <1>1, <1>2 DEF RunInv, Run, Lifecycle
<1>4. unavailable \in LifecycleFile /\ ~unavailable.available /\ unavailable # None
  BY <1>3, MarkedType
<1>5. watch[i].quiet => disk[Path(i, r)] = None /\ run[i].base.state = state[r]
  BY <1>1, <1>2, <1>3, SnapshotType DEF QuietInv, FileCurrent
<1> HIDE DEF r, unavailable
<1>6. CASE /\ state[r] = run[i].base.state
           /\ Port!Withdraw(r)
           /\ Settle(i, r, "unavailable", unavailable)
           /\ Disturb(Others(i))
  <2>1. Port!Move(r, "live_without_projections", state[r].src, None)
    BY <1>6 DEF Port!Withdraw
  <2>2. state[r].src \in Sources \cup {None} /\ "live_without_projections" \in Statuses
    BY <1>2 DEF TypeOK, StateType, Statuses
  <2>3. watch[i].quiet => ~Present(i, r)
    BY <1>5 DEF Present
  <2> QED
    BY <2>1, <2>2, <2>3, <1>1, <1>2, <1>4, <1>6, SettleWrites DEF Outcomes
<1>7. CASE /\ state[r] # run[i].base.state
           /\ IF state[r].status = "published" THEN Settle(i, r, "failed", None)
              ELSE Settle(i, r, "unavailable", unavailable)
           /\ UNCHANGED <<port, watch>>
  <2>1. ~watch[i].quiet
    BY <1>5, <1>7
  <2>2. CASE state[r].status = "published"
    BY <2>1, <2>2, <1>1, <1>2, <1>7, SettleReads DEF Outcomes
  <2>3. CASE state[r].status # "published"
    <3>1. Unpublished(r)
      BY <2>3, <1>2 DEF FolderInv, PublishedOnly, Unpublished
    <3> QED
      BY <2>1, <2>3, <3>1, <1>1, <1>2, <1>4, <1>7, SettleReads DEF Outcomes
  <2> QED
    BY <2>2, <2>3
<1> QED
  BY <1>1, <1>6, <1>7 DEF WithdrawMissing, r, unavailable

LEMMA ProcessCandidateKeeps ==
    ASSUME FolderInv, NEW i \in Importers, NEW r \in Resources, ProcessCandidate(i, r)
    PROVE  FolderInv'
<1>1. /\ pc[i] = "files" /\ r \in run[i].todo /\ run[i] \in Run
      /\ RunInv(i)
      /\ pc[i] \in AtFile \cup {"files"}
      /\ UNCHANGED <<port, disk, records, watch, edits, stops>>
  BY RunType DEF ProcessCandidate, FolderInv
<1>2. CASE state[r].status = "deleted"
  <2>1. Settle(i, r, "failed", None)
    BY <1>2 DEF ProcessCandidate
  <2> QED
    BY <2>1, <1>1, SettleReads DEF Outcomes
<1>3. CASE state[r].status # "deleted"
  <2> DEFINE what == [run[i] EXCEPT !.file = r]
  <2>1. Go(i, "ingest", what)
    BY <1>3 DEF ProcessCandidate
  <2>2. /\ what \in Run
        /\ what.sel = run[i].sel /\ what.scope = run[i].scope /\ what.life = run[i].life
        /\ what.missing = run[i].missing /\ what.todo = run[i].todo
        /\ what.outcomes = run[i].outcomes /\ what.status = run[i].status
        /\ what.file = r
    BY <1>1 DEF Run
  <2> HIDE DEF what
  <2>3. LocalsFor("ingest", what) /\ "ingest" \in AtFile
    BY <2>2 DEF LocalsFor, PCs, AtFile
  <2>4. watch[i].quiet => disk[Path(i, r)] # None
    BY <1>1 DEF RunInv, QuietInv
  <2> QED
    BY <2>1, <2>2, <2>3, <2>4, <1>1, <1>3, AtFileKeeps
<1> QED
  BY <1>2, <1>3

LEMMA CaptureSourceKeeps ==
    ASSUME FolderInv, NEW i \in Importers, CaptureSource(i)
    PROVE  FolderInv'
<1> DEFINE r == run[i].file
<1>1. /\ pc[i] = "ingest" /\ pc[i] \in AtFile
      /\ UNCHANGED <<port, disk, records, watch, edits, stops>>
  BY DEF CaptureSource, AtFile
<1>2. /\ run[i] \in Run /\ r \in Resources
      /\ RunInv(i) /\ TypeOK
      /\ watch[i].quiet => QuietInv(i) /\ FileCurrent(i)
      /\ r \in run[i].missing \cup run[i].todo /\ Path(i, r) \in Files
  BY <1>1, FileType
<1>3. CASE disk[Path(i, r)] = None
  <2>1. Settle(i, r, "failed", None)
    BY <1>3 DEF CaptureSource
  <2> QED
    BY <2>1, <1>1, <1>2, SettleReads DEF Outcomes
<1>4. CASE disk[Path(i, r)] # None
  <2> DEFINE what == [run[i] EXCEPT !.base = read_snapshot(r), !.bytes = disk[Path(i, r)]]
  <2>1. Go(i, "guard", what)
    BY <1>4 DEF CaptureSource
  <2>2. read_snapshot(r) \in Snapshot /\ read_snapshot(r) # None
    BY <1>2, SnapshotType
  <2>3. disk[Path(i, r)] \in Contents
    BY <1>2, <1>4 DEF TypeOK
  <2>4. /\ what \in Run
        /\ what.sel = run[i].sel /\ what.scope = run[i].scope /\ what.life = run[i].life
        /\ what.missing = run[i].missing /\ what.todo = run[i].todo
        /\ what.outcomes = run[i].outcomes /\ what.status = run[i].status
        /\ what.file = r /\ what.base = read_snapshot(r) /\ what.bytes = disk[Path(i, r)]
    BY <2>2, <2>3, <1>2 DEF Run
  <2> HIDE DEF what
  <2>5. LocalsFor("guard", what) /\ "guard" \in AtFile
    BY <2>2, <2>4, <1>4 DEF LocalsFor, PCs, AtFile
  <2>6. watch[i].quiet => state[r].status # "deleted"
    BY <1>1, <1>2 DEF FileCurrent
  <2> QED
    BY <2>1, <2>4, <2>5, <2>6, <1>1, <1>2, <1>4, AtFileKeeps
<1> QED
  BY <1>3, <1>4

LEMMA GuardSourceKeeps ==
    ASSUME FolderInv, NEW i \in Importers, GuardSource(i)
    PROVE  FolderInv'
<1> DEFINE r == run[i].file
<1>1. /\ pc[i] = "guard" /\ pc[i] \in AtFile
      /\ UNCHANGED <<port, disk, records, edits, stops>>
  BY DEF GuardSource, AtFile
<1>2. /\ run[i] \in Run /\ r \in Resources /\ r \in run[i].missing \cup run[i].todo
      /\ RunInv(i) /\ TypeOK
      /\ watch[i].quiet => FileCurrent(i)
  BY <1>1, FileType
<1>3. CASE disk[Path(i, r)] # run[i].bytes
  <2>1. Settle(i, r, "failed", None) /\ UNCHANGED watch
    BY <1>3 DEF GuardSource
  <2> QED
    BY <2>1, <1>1, <1>2, SettleReads DEF Outcomes
<1>4. CASE disk[Path(i, r)] = run[i].bytes
  <2>1. Go(i, "decide", run[i]) /\ watch' = [watch EXCEPT ![i].checked = TRUE]
    BY <1>4 DEF GuardSource
  <2>2. LocalsFor("decide", run[i]) /\ "decide" \in AtFile
    BY <1>1, <1>2 DEF LocalsFor, PCs, AtFile, TypeOK
  <2>3. watch[i].quiet => /\ run[i].base = read_snapshot(r) /\ run[i].bytes = disk[Path(i, r)]
                          /\ state[r].status # "deleted" /\ disk[Path(i, r)] # None
    BY <1>1, <1>2 DEF FileCurrent
  <2> QED
    BY <2>1, <2>2, <2>3, <1>1, <1>2, <1>4, AtFileKeeps
<1> QED
  BY <1>3, <1>4

\* What a file's capture is recorded as.
LEMMA RecordedType ==
    ASSUME NEW c \in Contents
    PROVE  /\ [available |-> TRUE, hash |-> c] \in LifecycleFile
           /\ [available |-> TRUE, hash |-> c].available
           /\ [available |-> TRUE, hash |-> c] # None
<1>1. \A b \in BOOLEAN : [available |-> b, hash |-> c] \in LifecycleFile
  BY DEF LifecycleFile
<1>2. TRUE \in BOOLEAN
  OBVIOUS
<1>3. [available |-> TRUE, hash |-> c] \in LifecycleFile
  BY <1>1, <1>2, Zenon
<1> QED
  BY <1>3, FolderRecordsAssumption

LEMMA ConfirmKeeps ==
    ASSUME FolderInv, NEW i \in Importers, Confirm(i)
    PROVE  FolderInv'
<1> DEFINE r == run[i].file
           entry == [available |-> TRUE, hash |-> run[i].bytes]
<1>1. /\ pc[i] = "decide" /\ pc[i] \in AtFile
      /\ UNCHANGED <<port, disk, records, watch, edits, stops>>
      /\ run[i].base.graph = run[i].bytes /\ run[i].base.state.src = r
  BY DEF Confirm, AtFile, SameDocument
<1>2. /\ run[i] \in Run /\ r \in Resources
      /\ RunInv(i) /\ TypeOK /\ run[i].bytes \in Contents
      /\ watch[i].quiet => FileCurrent(i)
  BY <1>1, FileType
<1>3. CASE state[r] = run[i].base.state
  <2>1. Settle(i, r, "unchanged", entry)
    BY <1>3 DEF Confirm
  <2>2. watch[i].quiet => UpToDate(i, r) /\ ~Vanished(i, r)
    BY <1>1, <1>2, SnapshotType DEF FileCurrent, UpToDate, Vanished
  <2>3. entry \in LifecycleFile /\ entry.available
    BY <1>2, RecordedType
  <2> QED
    BY <2>1, <2>2, <2>3, <1>1, <1>2, SettleReads DEF Outcomes
<1>4. CASE state[r] # run[i].base.state
  <2>1. Settle(i, r, "failed", None)
    BY <1>4 DEF Confirm
  <2> QED
    BY <2>1, <1>1, <1>2, SettleReads DEF Outcomes
<1> QED
  BY <1>3, <1>4

LEMMA PublishFileKeeps ==
    ASSUME FolderInv, NEW i \in Importers, PublishFile(i)
    PROVE  FolderInv'
<1> DEFINE r == run[i].file
           entry == [available |-> TRUE, hash |-> run[i].bytes]
<1>1. /\ pc[i] = "decide" /\ pc[i] \in AtFile
      /\ UNCHANGED <<disk, records, edits, stops>>
  BY DEF PublishFile, AtFile
<1>2. /\ run[i] \in Run /\ run[i].base # None
      /\ r \in Resources /\ r \in run[i].missing \cup run[i].todo
      /\ RunInv(i) /\ TypeOK /\ run[i].bytes \in Contents /\ run[i].bytes # None
      /\ watch[i].quiet => FileCurrent(i)
  BY <1>1, FileType DEF TypeOK
<1>3. entry \in LifecycleFile /\ entry.available /\ entry # None
  BY <1>2, RecordedType
<1>4. watch[i].quiet => /\ run[i].base.state = state[r]
                        /\ run[i].bytes = disk[Path(i, r)] /\ disk[Path(i, r)] # None
  BY <1>1, <1>2, SnapshotType DEF FileCurrent
<1>5. CASE /\ state[r] = run[i].base.state
           /\ Port!Move(r, "published", r, run[i].bytes)
           /\ Settle(i, r, "ready", entry)
           /\ Disturb(Others(i))
  <2>1. r \in Sources /\ "published" \in Statuses
    BY <1>2, FolderIdentityAssumption DEF Statuses
  <2>2. watch[i].quiet => ~Vanished(i, r)
    BY <1>4 DEF Vanished
  <2> HIDE DEF r, entry
  <2> QED
    BY <2>1, <2>2, <1>1, <1>2, <1>3, <1>4, <1>5, SettleWrites DEF Outcomes
<1>6. CASE /\ state[r] = run[i].base.state /\ ~PutAllowed(state, r, "published", r)
           /\ Settle(i, r, "failed", None)
           /\ UNCHANGED <<port, watch>>
  BY <1>1, <1>2, <1>6, SettleReads DEF Outcomes
<1>7. CASE /\ state[r] # run[i].base.state
           /\ IF run[i].rebased THEN Settle(i, r, "failed", None)
              ELSE Go(i, "reread", [run[i] EXCEPT !.rebased = TRUE])
           /\ UNCHANGED <<port, watch>>
  <2>1. CASE run[i].rebased
    BY <2>1, <1>1, <1>2, <1>7, SettleReads DEF Outcomes
  <2>2. CASE ~run[i].rebased
    <3> DEFINE what == [run[i] EXCEPT !.rebased = TRUE]
    <3>1. Go(i, "reread", what)
      BY <2>2, <1>7
    <3>2. /\ what \in Run
          /\ what.sel = run[i].sel /\ what.scope = run[i].scope /\ what.life = run[i].life
          /\ what.missing = run[i].missing /\ what.todo = run[i].todo
          /\ what.outcomes = run[i].outcomes /\ what.status = run[i].status
          /\ what.file = r /\ what.base = run[i].base /\ what.bytes = run[i].bytes
      BY <1>2 DEF Run
    <3> HIDE DEF what
    <3>3. LocalsFor("reread", what) /\ "reread" \in AtFile
      BY <3>2, <1>2 DEF LocalsFor, PCs, AtFile
    <3> QED
      BY <3>1, <3>2, <3>3, <1>1, <1>2, <1>4, <1>7, AtFileKeeps
  <2> QED
    BY <2>1, <2>2
<1> QED
  BY <1>5, <1>6, <1>7 DEF PublishFile

LEMMA RebaseKeeps ==
    ASSUME FolderInv, NEW i \in Importers, Rebase(i)
    PROVE  FolderInv'
<1> DEFINE r == run[i].file
           new == read_snapshot(r)
           entry == [available |-> TRUE, hash |-> run[i].bytes]
<1>1. /\ pc[i] = "reread" /\ pc[i] \in AtFile
      /\ UNCHANGED <<port, disk, records, watch, edits, stops>>
      /\ \/ Go(i, "guard", [run[i] EXCEPT !.base = new])
         \/ Settle(i, r, "unchanged", entry)
         \/ Settle(i, r, "failed", None)
  BY DEF Rebase, AtFile
<1>2. /\ run[i] \in Run /\ run[i].bytes # None
      /\ r \in Resources /\ r \in run[i].missing \cup run[i].todo
      /\ TypeOK /\ run[i].bytes \in Contents
      /\ ~watch[i].quiet
  BY <1>1, FileType DEF TypeOK, QuietInv
<1>3. CASE Go(i, "guard", [run[i] EXCEPT !.base = new])
  <2> DEFINE what == [run[i] EXCEPT !.base = new]
  <2>1. new \in Snapshot /\ new # None
    BY <1>2, SnapshotType
  <2>2. /\ what \in Run
        /\ what.sel = run[i].sel /\ what.scope = run[i].scope /\ what.life = run[i].life
        /\ what.missing = run[i].missing /\ what.todo = run[i].todo
        /\ what.outcomes = run[i].outcomes /\ what.status = run[i].status
        /\ what.file = r /\ what.base = new /\ what.bytes = run[i].bytes
    BY <2>1, <1>2 DEF Run
  <2>3. Go(i, "guard", what)
    BY <1>3
  <2> HIDE DEF what
  <2>4. LocalsFor("guard", what) /\ "guard" \in AtFile
    BY <2>1, <2>2, <1>2 DEF LocalsFor, PCs, AtFile
  <2> QED
    BY <2>2, <2>3, <2>4, <1>1, <1>2, AtFileKeeps
<1>4. CASE Settle(i, r, "unchanged", entry)
  <2>1. entry \in LifecycleFile /\ entry.available
    BY <1>2, RecordedType
  <2> QED
    BY <2>1, <1>1, <1>2, <1>4, SettleReads DEF Outcomes
<1>5. CASE Settle(i, r, "failed", None)
  BY <1>1, <1>2, <1>5, SettleReads DEF Outcomes
<1> QED
  BY <1>1, <1>3, <1>4, <1>5

\* A run that reports success has nothing left on its lists and nothing failed.
LEMMA FinishKeeps ==
    ASSUME FolderInv, NEW i \in Importers, Finish(i)
    PROVE  FolderInv'
<1> DEFINE status == OverallStatus(run[i].outcomes)
           what == [run[i] EXCEPT !.status = status]
<1>1. /\ pc[i] = "files" /\ run[i] \in Run
      /\ run[i].missing = {} /\ run[i].todo = {}
      /\ RunInv(i) /\ RecordsInv(i)
  BY RunType DEF Finish, FolderInv
<1>2. /\ status \in {"success", "partial_success", "failed"}
      /\ status = "success" => run[i].outcomes \cap {"failed", "unprocessed"} = {}
  BY DEF OverallStatus
<1>3. Go(i, "done", what) /\ UNCHANGED <<port, disk, records, watch, edits, stops>>
  BY DEF Finish
<1> HIDE DEF status
<1>4. LocalsFor("done", what)
  BY <1>1, <1>2 DEF LocalsFor, PCs, Run
<1>5. /\ pc'[i] = "done" /\ run'[i] = what
      /\ state' = state /\ graph' = graph /\ disk' = disk /\ lifecycle' = lifecycle
      /\ watch' = watch /\ stops' = stops
      /\ RunInv(i)' /\ RecordsInv(i)' => FolderInv'
  BY <1>3, <1>4, GoReads
<1>6. /\ run'[i].sel = run[i].sel /\ run'[i].scope = run[i].scope /\ run'[i].life = run[i].life
      /\ run'[i].missing = {} /\ run'[i].todo = {} /\ run'[i].status = status
  BY <1>1, <1>5 DEF Run
<1>7. watch[i].quiet /\ status = "success" =>
         /\ \A r \in Resources : Present(i, r) => UpToDate(i, r)
         /\ \A r \in Resources :
                Vanished(i, r) /\ (RecordsComplete(i) \/ r \in watch[i].known) => Unpublished(r)
  BY <1>1, <1>2 DEF RunInv, QuietInv, Scanned, Reconciled, PresentDone, VanishedDone
<1>8. \A r \in Resources : /\ Present(i, r)' <=> Present(i, r)
                           /\ Vanished(i, r)' <=> Vanished(i, r)
                           /\ UpToDate(i, r)' <=> UpToDate(i, r)
                           /\ Unpublished(r)' <=> Unpublished(r)
                           /\ RecordsComplete(i)' <=> RecordsComplete(i)
  BY <1>5, <1>6
     DEF Present, Vanished, UpToDate, Unpublished, RecordsComplete, Selected, InScope, Path
<1>9. watch[i].quiet => QuietInv(i)'
  BY <1>5, <1>6, <1>7, <1>8 DEF QuietInv, RecordCurrent, FileCurrent, AtFile, Scanned
<1>10. RunInv(i)'
  BY <1>1, <1>5, <1>6, <1>9 DEF RunInv, AtFile, Absent
<1>11. RecordsInv(i)'
  BY <1>1, <1>5 DEF RecordsInv, RecordsComplete, AtFile, Available
<1> QED
  BY <1>5, <1>10, <1>11

-----------------------------------------------------------------------------
(***************************************************************************)
(* A run begins, or is cut short.                                          *)
(***************************************************************************)
LEMMA StartKeeps ==
    ASSUME FolderInv, NEW i \in Importers, NEW sel \in Selections, NEW scope \in Scopes,
           Start(i, sel, scope)
    PROVE  FolderInv'
<1> DEFINE what == [sel |-> sel, scope |-> scope, seen |-> registry, life |-> lifecycle,
                    missing |-> {}, todo |-> {}, file |-> None, base |-> None, bytes |-> None,
                    rebased |-> FALSE, outcomes |-> {}, status |-> "running"]
           fresh == [quiet |-> TRUE, checked |-> FALSE, gone |-> Absent,
                     known |-> {r \in Resources : Available(lifecycle, r)}]
<1>1. /\ pc[i] \in {"idle", "done"} /\ Go(i, "registry", what)
      /\ watch' = [watch EXCEPT ![i] = fresh]
      /\ state' = state /\ graph' = graph /\ issued' = issued /\ disk' = disk
      /\ registry' = registry /\ lifecycle' = lifecycle /\ edits' = edits /\ stops' = stops
  BY DEF Start, port, records
<1>2. TypeOK /\ WorldTypes /\ RecordsInv(i)
  BY TypesTogether DEF FolderInv
<1>3. sel \in [Namespaces -> Roots \cup {None}] /\ scope \in Scope
  BY SelectionsAssumption, ScopesAssumption
<1>4. what \in Run
  BY <1>2, <1>3 DEF Run, TypeOK
<1>5. /\ what.sel = sel /\ what.life = lifecycle /\ what.missing = {} /\ what.todo = {}
      /\ what.status = "running"
  OBVIOUS
<1>6. /\ fresh \in Watch
      /\ fresh.gone = Absent /\ fresh.known = {r \in Resources : Available(lifecycle, r)}
  BY DEF Watch, Absent
<1> HIDE DEF what, fresh
<1>7. LocalsFor("registry", what)
  BY <1>4 DEF LocalsFor, PCs
<1>8. /\ LocalTypes'
      /\ pc'[i] = "registry" /\ run'[i] = what
      /\ OthersStay(i)
  BY <1>1, <1>2, <1>7, GoType
<1>9. /\ watch' \in [Importers -> Watch]
      /\ watch'[i] = fresh
      /\ \A j \in Importers : j # i => watch'[j] = watch[j]
  BY <1>1, <1>2, <1>6 DEF WorldTypes
<1>10. Elsewhere(i)
  BY <1>1, <1>8, <1>9 DEF Elsewhere
<1>11. WorldTypes'
  BY <1>1, <1>2, <1>9 DEF WorldTypes
<1>12. PublishedOnly'
  BY <1>1 DEF FolderInv, PublishedOnly
<1>13. QuietInv(i)'
  BY <1>1, <1>5, <1>6, <1>8, <1>9
     DEF QuietInv, RecordCurrent, FileCurrent, AtFile, Scanned, Available
<1>14. RunInv(i)'
  BY <1>1, <1>5, <1>6, <1>8, <1>9, <1>13 DEF RunInv, AtFile, Absent
<1>15. RecordsInv(i)'
  BY <1>1, <1>2, <1>5, <1>8 DEF RecordsInv, RecordsComplete, AtFile, Available
<1> QED
  BY <1>8, <1>10, <1>11, <1>12, <1>14, <1>15, StepFrame, TypesTogether

LEMMA StopKeeps ==
    ASSUME FolderInv, NEW i \in Importers, Stop(i)
    PROVE  FolderInv'
<1>1. /\ pc' = [pc EXCEPT ![i] = "idle"] /\ run' = [run EXCEPT ![i] = None]
      /\ state' = state /\ graph' = graph /\ issued' = issued /\ disk' = disk
      /\ registry' = registry /\ lifecycle' = lifecycle /\ edits' = edits /\ watch' = watch
      /\ stops < MaxStops /\ stops' = stops + 1
  BY DEF Stop, Go, port, records
<1>2. LocalTypes /\ WorldTypes
  BY TypesTogether DEF FolderInv
<1>3. pc'[i] = "idle" /\ run'[i] = None /\ OthersStay(i)
  BY <1>1, <1>2 DEF LocalTypes, OthersStay
<1>4. LocalTypes'
  <2>1. pc' \in [Importers -> PCs] /\ run' \in [Importers -> Run \cup {None}]
    BY <1>1, <1>2 DEF LocalTypes, PCs
  <2> QED
    BY <2>1, <1>2, <1>3 DEF LocalTypes, OthersStay
<1>5. stops' \in 0..MaxStops /\ stops' # 0
  BY <1>1, <1>2, FolderBoundsAssumption DEF WorldTypes
<1>6. WorldTypes'
  BY <1>1, <1>2, <1>5 DEF WorldTypes
<1>7. Elsewhere(i)
  BY <1>1, <1>3 DEF Elsewhere
<1>8. PublishedOnly'
  BY <1>1 DEF FolderInv, PublishedOnly
<1>9. RecordsInv(i)'
  BY <1>5 DEF RecordsInv, RecordsComplete
<1> QED
  BY <1>3, <1>4, <1>6, <1>7, <1>8, <1>9, StepFrame, TypesTogether

-----------------------------------------------------------------------------
(***************************************************************************)
(* The world around: whatever it does, no run is quiet any longer.         *)
(***************************************************************************)
LEMMA WorldFrame ==
    ASSUME FolderInv, pc' = pc, run' = run, WorldTypes', PublishedOnly',
           lifecycle' = lifecycle, stops' = stops,
           \A j \in Importers : /\ ~watch'[j].quiet
                                /\ watch[j].gone \subseteq watch'[j].gone
                                /\ pc[j] # "idle" => Absent' \subseteq watch'[j].gone
                                /\ watch'[j].checked => watch[j].checked /\ disk' = disk,
           \A r \in Resources : graph'[r] # None /\ state'[r].src = r =>
                                   graph[r] # None /\ state[r].src = r
    PROVE  FolderInv'
<1>1. LocalTypes'
  BY TypesTogether DEF FolderInv, LocalTypes
<1>2. ASSUME NEW j \in Importers, pc'[j] # "idle" PROVE RunInv(j)'
  <2>1. RunInv(j)
    BY <1>2 DEF FolderInv
  <2> QED
    BY <1>2, <2>1 DEF RunInv, InScope, Selected, Path
<1>3. ASSUME NEW j \in Importers PROVE RecordsInv(j)'
  <2>1. RecordsInv(j)
    BY DEF FolderInv
  <2> QED
    BY <2>1 DEF RecordsInv, RecordsComplete, Available
<1> QED
  BY <1>1, <1>2, <1>3, TypesTogether DEF FolderInv

LEMMA EditKeeps ==
    ASSUME FolderInv, NEW f \in Files, NEW c \in Contents \cup {None}, Edit(f, c)
    PROVE  FolderInv'
<1>1. /\ pc' = pc /\ run' = run
      /\ state' = state /\ graph' = graph /\ issued' = issued
      /\ registry' = registry /\ lifecycle' = lifecycle /\ stops' = stops
      /\ edits < MaxEdits /\ edits' = edits + 1
      /\ disk' = [disk EXCEPT ![f] = c]
      /\ watch' = [i \in Importers |->
                      [watch[i] EXCEPT !.quiet = FALSE, !.checked = FALSE,
                                       !.gone = IF c = None THEN @ \cup {f} ELSE @]]
  BY DEF Edit, port, records
<1>2. WorldTypes
  BY TypesTogether DEF FolderInv
<1>3. \A j \in Importers :
         /\ watch[j] \in Watch /\ watch'[j] \in Watch
         /\ ~watch'[j].quiet /\ ~watch'[j].checked
         /\ watch'[j].gone = IF c = None THEN watch[j].gone \cup {f} ELSE watch[j].gone
  BY <1>1, <1>2 DEF WorldTypes, Watch
<1>4. watch' \in [Importers -> Watch]
  BY <1>1, <1>3
<1>5. edits' \in 0..MaxEdits
  <2>1. edits < MaxEdits /\ edits' = edits + 1 /\ edits \in 0..MaxEdits
    BY <1>1, <1>2 DEF WorldTypes
  <2> QED
    BY <2>1, FolderBoundsAssumption
<1>6. disk' \in [Files -> Contents \cup {None}]
  BY <1>1, <1>2 DEF WorldTypes
<1>7. WorldTypes'
  BY <1>1, <1>2, <1>4, <1>5, <1>6 DEF WorldTypes
<1>8. PublishedOnly'
  BY <1>1 DEF FolderInv, PublishedOnly
<1>9. ASSUME NEW j \in Importers
      PROVE  /\ watch[j].gone \subseteq watch'[j].gone
             /\ pc[j] # "idle" => Absent' \subseteq watch'[j].gone
  <2>1. pc[j] # "idle" => Absent \subseteq watch[j].gone
    BY DEF FolderInv, RunInv
  <2>2. Absent' \subseteq Absent \cup (IF c = None THEN {f} ELSE {})
    BY <1>1, <1>2 DEF Absent, WorldTypes
  <2> QED
    BY <2>1, <2>2, <1>3
<1> QED
  BY <1>1, <1>3, <1>7, <1>8, <1>9, WorldFrame

LEMMA OutsiderKeeps ==
    ASSUME FolderInv, NEW r \in Resources, Outsider(r)
    PROVE  FolderInv'
<1>1. /\ Disturb(Importers)
      /\ pc' = pc /\ run' = run /\ disk' = disk /\ registry' = registry
      /\ lifecycle' = lifecycle /\ edits' = edits /\ stops' = stops
  BY DEF Outsider, records
<1>2. WorldTypes /\ TypeOK /\ PublishedOnly
  BY TypesTogether DEF FolderInv
<1>3. state[r].src \in Sources \cup {None} /\ graph[r] \in Contents \cup {None}
  BY <1>2 DEF WorldTypes, StateType
<1>4. PICK status \in Statuses, src \in Sources \cup {None}, g \in Contents \cup {None} :
         /\ Port!Move(r, status, src, g)
         /\ g # None => status = "published" /\ src \in Sources
         /\ g # None /\ src = r => graph[r] # None /\ state[r].src = r
  <2>1. CASE graph[r] # None /\ Port!Move(r, "published", state[r].src, graph[r])
    BY <2>1, <1>2, <1>3 DEF Statuses, PublishedOnly
  <2>2. CASE Port!Withdraw(r)
    <3>1. Port!Move(r, "live_without_projections", state[r].src, None)
      BY <2>2 DEF Port!Withdraw
    <3> QED
      BY <3>1, <1>3 DEF Statuses
  <2>3. CASE Port!Delete(r)
    <3>1. Port!Move(r, "deleted", state[r].src, None)
      BY <2>3 DEF Port!Delete
    <3> QED
      BY <3>1, <1>3 DEF Statuses
  <2>4. CASE \E c \in Contents : Port!Move(r, "published", Foreign, c)
    <3>1. Foreign \in Sources /\ Foreign # r
      BY FolderIdentityAssumption
    <3> QED
      BY <2>4, <3>1 DEF Statuses
  <2> QED
    BY <2>1, <2>2, <2>3, <2>4 DEF Outsider
<1>5. /\ state' \in [Resources -> StateType]
      /\ graph' \in [Resources -> Contents \cup {None}]
      /\ issued' \in Nat
      /\ PublishedOnly'
      /\ graph'[r] = g /\ state'[r].src = src
      /\ \A q \in Resources : q # r => state'[q] = state[q] /\ graph'[q] = graph[q]
  BY <1>2, <1>4, MoveEffect
<1>6. watch' = [j \in Importers |-> [watch[j] EXCEPT !.quiet = FALSE]]
  BY <1>1 DEF Disturb
<1>7. \A j \in Importers : /\ watch'[j] \in Watch
                           /\ ~watch'[j].quiet /\ watch'[j].gone = watch[j].gone
                           /\ watch'[j].checked = watch[j].checked
  BY <1>2, <1>6 DEF WorldTypes, Watch
<1>8. watch' \in [Importers -> Watch]
  BY <1>6, <1>7
<1>9. WorldTypes'
  BY <1>1, <1>2, <1>5, <1>8 DEF WorldTypes
<1>10. \A j \in Importers : pc[j] # "idle" => Absent' \subseteq watch'[j].gone
  BY <1>1, <1>7 DEF FolderInv, RunInv, Absent
<1>11. \A q \in Resources : graph'[q] # None /\ state'[q].src = q => graph[q] # None /\ state[q].src = q
  BY <1>4, <1>5
<1> QED
  BY <1>1, <1>5, <1>7, <1>9, <1>10, <1>11, WorldFrame

LEMMA FolderStutter == FolderInv /\ UNCHANGED vars => FolderInv'
<1> SUFFICES ASSUME FolderInv, UNCHANGED vars PROVE FolderInv'
  OBVIOUS
<1>1. /\ state' = state /\ graph' = graph /\ issued' = issued /\ disk' = disk
      /\ registry' = registry /\ lifecycle' = lifecycle /\ pc' = pc /\ run' = run
      /\ watch' = watch /\ edits' = edits /\ stops' = stops
  BY DEF vars
<1>2. TypeOK' /\ PublishedOnly'
  BY <1>1 DEF FolderInv, TypeOK, PublishedOnly
<1>3. ASSUME NEW i \in Importers PROVE RecordsInv(i)'
  BY <1>1 DEF FolderInv, RecordsInv, RecordsComplete, Available
<1>4. ASSUME NEW i \in Importers, pc'[i] # "idle" PROVE RunInv(i)'
  <2>1. RunInv(i)
    BY <1>1, <1>4 DEF FolderInv
  <2>2. watch[i].quiet => QuietInv(i)'
    BY <1>1, <2>1
       DEF RunInv, QuietInv, RecordCurrent, FileCurrent, Reconciled, PresentDone, VanishedDone, Present,
           Vanished, UpToDate, Unpublished, RecordsComplete, Selected, InScope, Path, Available,
           read_snapshot
  <2> QED
    BY <1>1, <2>1, <2>2 DEF RunInv, Absent, Selected, InScope, Path
<1> QED
  BY <1>2, <1>3, <1>4 DEF FolderInv

LEMMA FolderInit == Init => FolderInv
<1> SUFFICES ASSUME Init PROVE FolderInv
  OBVIOUS
<1>1. /\ state = [r \in Resources |-> NeverCreated]
      /\ graph = [r \in Resources |-> None]
      /\ issued = 0
  BY DEF Init, Port!Init, Port!NeverCreated, NeverCreated
<1>2. NeverCreated \in StateType
  BY DEF NeverCreated, StateType, Statuses
<1>3. /\ disk \in [Files -> Contents \cup {None}]
      /\ registry \in [Namespaces -> Roots \cup {None}]
      /\ lifecycle \in Lifecycle
      /\ edits \in 0..MaxEdits /\ stops \in 0..MaxStops
  BY FolderBoundsAssumption DEF Init, Lifecycle
<1>4. /\ pc = [i \in Importers |-> "idle"]
      /\ run = [i \in Importers |-> None]
      /\ watch = [i \in Importers |-> [quiet |-> TRUE, checked |-> FALSE, gone |-> {}, known |-> {}]]
  BY DEF Init
<1>5. watch \in [Importers -> Watch]
  <2>1. \A a, b \in BOOLEAN : [quiet |-> a, checked |-> b, gone |-> {}, known |-> {}] \in Watch
    BY DEF Watch
  <2>2. [quiet |-> TRUE, checked |-> FALSE, gone |-> {}, known |-> {}] \in Watch
    <3>1. TRUE \in BOOLEAN /\ FALSE \in BOOLEAN
      OBVIOUS
    <3> QED
      BY <2>1, <3>1, Zenon
  <2> QED
    BY <2>2, <1>4
<1>6. TypeOK
  BY <1>1, <1>2, <1>3, <1>4, <1>5 DEF TypeOK, PCs
<1>7. PublishedOnly /\ \A i \in Importers : RecordsInv(i)
  BY <1>1, <1>4 DEF PublishedOnly, RecordsInv, AtFile
<1> QED
  BY <1>4, <1>6, <1>7 DEF FolderInv

LEMMA FolderNext == FolderInv /\ [Next]_vars => FolderInv'
<1> SUFFICES ASSUME FolderInv, [Next]_vars PROVE FolderInv'
  OBVIOUS
<1>1. ASSUME NEW i \in Importers, NEW sel \in Selections, NEW scope \in Scopes, Start(i, sel, scope)
      PROVE  FolderInv'
  BY <1>1, StartKeeps
<1>2. ASSUME NEW i \in Importers, Step(i) PROVE FolderInv'
  BY <1>2, ReadRegistryKeeps, WriteRegistryKeeps, ScanKeeps, SaveKeeps, ReconcileMissingKeeps,
     ProcessCandidateKeeps, WithdrawMissingKeeps, CaptureSourceKeeps, GuardSourceKeeps, ConfirmKeeps,
     PublishFileKeeps, RebaseKeeps, FinishKeeps
     DEF Step
<1>3. ASSUME NEW i \in Importers, Stop(i) PROVE FolderInv'
  BY <1>3, StopKeeps
<1>4. ASSUME NEW f \in Files, NEW c \in Contents \cup {None}, Edit(f, c) PROVE FolderInv'
  BY <1>4, EditKeeps
<1>5. ASSUME NEW r \in Resources, Outsider(r) PROVE FolderInv'
  BY <1>5, OutsiderKeeps
<1>6. CASE UNCHANGED vars
  BY <1>6, FolderStutter
<1> QED
  BY <1>1, <1>2, <1>3, <1>4, <1>5, <1>6 DEF Next

LEMMA FolderCorrect == Spec => []FolderInv
BY FolderInit, FolderNext, PTL DEF Spec

-----------------------------------------------------------------------------
(***************************************************************************)
(* FolderReconciles: a run that reports success and had the catalog and    *)
(* the files to itself leaves every selected file published with its       *)
(* present content and nothing published of a file that is gone, whatever  *)
(* earlier runs and crashes left behind (FolderImportService.run).         *)
(***************************************************************************)
LEMMA FolderEnds == FolderInv => FoldersReconciled
<1> SUFFICES ASSUME FolderInv PROVE FoldersReconciled
  OBVIOUS
<1>1. ASSUME NEW i \in Importers, UndisturbedSuccess(i)
      PROVE  /\ \A r \in Resources : Present(i, r) => UpToDate(i, r)
             /\ \A r \in Resources :
                   Vanished(i, r) /\ (RecordsComplete(i) \/ r \in watch[i].known) => Unpublished(r)
  <2>1. pc[i] = "done" /\ run[i].status = "success" /\ watch[i].quiet
    BY <1>1 DEF UndisturbedSuccess
  <2>2. QuietInv(i)
    BY <2>1 DEF FolderInv, RunInv
  <2> QED
    BY <2>1, <2>2 DEF QuietInv
<1>2. PresentFilesPublished
  BY <1>1 DEF PresentFilesPublished, Present, UpToDate
<1>3. MissingFilesWithdrawn
  BY <1>1 DEF MissingFilesWithdrawn, Vanished, Unpublished
<1> QED
  BY <1>2, <1>3 DEF FoldersReconciled, FolderInv

THEOREM FolderReconciles == Spec => []FoldersReconciled
BY FolderCorrect, FolderEnds, PTL

(***************************************************************************)
(* FolderRespectsLifecycles: an importer withdraws a file's resource only  *)
(* if the file was absent at some moment of the run and its scope was      *)
(* seen whole, and brings no deleted resource back unless it was raced     *)
(* (_reconcile_missing, _process_candidate).                               *)
(***************************************************************************)

LEMMA WithdrawsMissing ==
    ASSUME FolderInv, NEW i \in Importers
    PROVE  WithdrawnOnlyMissing(i)
<1> SUFFICES ASSUME pc[i] = "withdraw"
             PROVE  /\ Path(i, run[i].file) \in watch[i].gone
                    /\ InScope(i, run[i].file[2]) /\ run[i].scope.unreadable = {}
  BY DEF WithdrawnOnlyMissing, Withdrew
<1>1. RunInv(i) /\ run[i].file \in run[i].missing
  BY DEF FolderInv, RunInv
<1> QED
  BY <1>1 DEF RunInv

LEMMA RevivesNothing ==
    ASSUME FolderInv, NEW i \in Importers
    PROVE  DeletedStays(i)
<1> SUFFICES ASSUME pc[i] = "decide", watch[i].quiet
             PROVE  state[run[i].file].status # "deleted"
  BY DEF DeletedStays, Published
<1>1. QuietInv(i)
  BY DEF FolderInv, RunInv
<1> QED
  BY <1>1 DEF QuietInv, FileCurrent

THEOREM FolderRespectsLifecycles == Spec => LifecyclesRespected
<1>1. FolderInv => \A i \in Importers : WithdrawnOnlyMissing(i) /\ DeletedStays(i)
  BY WithdrawsMissing, RevivesNothing
<1> QED
  BY <1>1, FolderCorrect, PTL DEF LifecyclesRespected

(***************************************************************************)
(* FolderPublishesPresent: what an importer publishes is what the file     *)
(* holds, unless the file was edited after the last check of the source    *)
(* (_SourceGuardedPublication).                                            *)
(***************************************************************************)
PublishesPresent(i) ==
    Published(i) /\ watch[i].checked => graph'[run[i].file] = disk[Path(i, run[i].file)]

LEMMA PublishWrites ==
    ASSUME FolderInv, NEW i \in Importers, PublishFile(i), watch[i].checked, issued' # issued
    PROVE  graph'[run[i].file] = disk[Path(i, run[i].file)]
<1> DEFINE r == run[i].file
<1>1. pc[i] = "decide" /\ pc[i] \in AtFile
  BY DEF PublishFile, AtFile
<1>2. r \in Resources /\ RunInv(i) /\ TypeOK
  BY <1>1, FileType
<1>3. Port!Move(r, "published", r, run[i].bytes)
  BY DEF PublishFile, port
<1>4. graph' = [graph EXCEPT ![r] = run[i].bytes]
  BY <1>3 DEF Port!Move
<1>5. graph'[r] = run[i].bytes
  BY <1>2, <1>4 DEF TypeOK
<1> QED
  BY <1>1, <1>2, <1>5 DEF RunInv

LEMMA StepPublishesPresent ==
    ASSUME FolderInv, [Next]_vars, NEW i \in Importers
    PROVE  PublishesPresent(i)
<1> SUFFICES ASSUME pc[i] = "decide", pc'[i] # "decide", issued' # issued, watch[i].checked
             PROVE  graph'[run[i].file] = disk[Path(i, run[i].file)]
  BY DEF PublishesPresent, Published
<1>1. TypeOK
  BY DEF FolderInv
<1>2. ASSUME NEW j \in Importers, j # i, NEW where, NEW what, Go(j, where, what)
      PROVE  FALSE
  BY <1>1, <1>2 DEF Go, TypeOK
<1>3. CASE Step(i)
  <2>1. PublishFile(i)
    BY <1>3
       DEF Step, ReadRegistry, WriteRegistry, Scan, Save, ReconcileMissing, ProcessCandidate,
           WithdrawMissing, CaptureSource, GuardSource, Confirm, Rebase, Finish, port
  <2> QED
    BY <2>1, PublishWrites
<1>4. ASSUME NEW j \in Importers, j # i, Step(j) PROVE FALSE
  BY <1>2, <1>4
     DEF Step, ReadRegistry, WriteRegistry, Scan, Save, ReconcileMissing, ProcessCandidate,
         WithdrawMissing, CaptureSource, GuardSource, Confirm, PublishFile, Rebase, Finish, Settle
<1>5. /\ \A j \in Importers, sel \in Selections, scope \in Scopes : ~Start(j, sel, scope)
      /\ \A j \in Importers : ~Stop(j)
  BY DEF Start, Stop, port
<1>6. ASSUME NEW f \in Files, NEW c \in Contents \cup {None}, Edit(f, c) PROVE FALSE
  BY <1>6 DEF Edit
<1>7. ASSUME NEW r \in Resources, Outsider(r) PROVE FALSE
  BY <1>7 DEF Outsider
<1>8. CASE UNCHANGED vars
  BY <1>8 DEF vars
<1> QED
  BY <1>3, <1>4, <1>5, <1>6, <1>7, <1>8 DEF Next

THEOREM FolderPublishesPresent == Spec => NothingStalePublished
<1>1. FolderInv /\ [Next]_vars => \A i \in Importers : PublishesPresent(i)
  BY StepPublishesPresent
<1>2. FolderInv /\ [Next]_vars =>
        [\A i \in Importers : Published(i) /\ watch[i].checked =>
             graph'[run[i].file] = disk[Path(i, run[i].file)]]_vars
  BY <1>1 DEF PublishesPresent
<1> QED
  BY <1>2, FolderCorrect, PTL DEF Spec, NothingStalePublished

(***************************************************************************)
(* FolderUsesPort: importers, and those around them, change the catalog    *)
(* only by operations of the publication port (ports/publication.py).      *)
(***************************************************************************)
LEMMA PublishUsesPort ==
    ASSUME FolderInv, NEW i \in Importers, PublishFile(i)
    PROVE  [Port!Next]_port
<1>1. pc[i] = "decide" /\ pc[i] \in AtFile
  BY DEF PublishFile, AtFile
<1>2. run[i].file \in Resources /\ run[i].bytes \in Contents
  BY <1>1, FileType
<1>3. run[i].file \in Sources
  BY <1>2, FolderIdentityAssumption
<1>4. CASE Port!Move(run[i].file, "published", run[i].file, run[i].bytes)
  BY <1>2, <1>3, <1>4 DEF Port!Next, Port!Publish
<1> QED
  BY <1>4 DEF PublishFile

LEMMA StepUsesPort ==
    ASSUME FolderInv, NEW i \in Importers, Step(i)
    PROVE  [Port!Next]_port
<1>1. CASE PublishFile(i)
  BY <1>1, PublishUsesPort
<1>2. CASE WithdrawMissing(i)
  <2>1. run[i].file \in Resources
    BY <1>2, FileType DEF WithdrawMissing, AtFile
  <2> QED
    BY <1>2, <2>1 DEF WithdrawMissing, Port!Next
<1>3. CASE ~PublishFile(i) /\ ~WithdrawMissing(i)
  BY <1>3 DEF Step, ReadRegistry, WriteRegistry, Scan, Save, ReconcileMissing, ProcessCandidate,
              CaptureSource, GuardSource, Confirm, Rebase, Finish
<1> QED
  BY <1>1, <1>2, <1>3

LEMMA OutsiderUsesPort ==
    ASSUME FolderInv, NEW r \in Resources, Outsider(r)
    PROVE  Port!Next
<1>1. /\ PublishedOnly /\ graph[r] \in Contents \cup {None}
      /\ Foreign \in Sources
  BY FolderIdentityAssumption DEF FolderInv, TypeOK
<1>2. CASE graph[r] # None /\ Port!Move(r, "published", state[r].src, graph[r])
  <2>1. state[r].src \in Sources /\ graph[r] \in Contents
    BY <1>1, <1>2 DEF PublishedOnly
  <2> QED
    BY <1>2, <2>1 DEF Port!Next, Port!Publish
<1>3. CASE Port!Withdraw(r) \/ Port!Delete(r)
  BY <1>3 DEF Port!Next
<1>4. CASE \E c \in Contents : Port!Move(r, "published", Foreign, c)
  BY <1>1, <1>4 DEF Port!Next, Port!Publish
<1> QED
  BY <1>2, <1>3, <1>4 DEF Outsider

THEOREM FolderUsesPort == Spec => Port!Spec
<1>1. Init => Port!Init
  BY DEF Init
<1>2. FolderInv /\ [Next]_vars => [Port!Next]_(Port!pubVars)
  <2> SUFFICES ASSUME FolderInv, [Next]_vars PROVE [Port!Next]_port
    BY DEF port, Port!pubVars
  <2>1. ASSUME NEW i \in Importers, Step(i) PROVE [Port!Next]_port
    BY <2>1, StepUsesPort
  <2>2. ASSUME NEW r \in Resources, Outsider(r) PROVE [Port!Next]_port
    BY <2>2, OutsiderUsesPort
  <2>3. /\ \A i \in Importers, sel \in Selections, scope \in Scopes :
              Start(i, sel, scope) => UNCHANGED port
        /\ \A i \in Importers : Stop(i) => UNCHANGED port
        /\ \A f \in Files, c \in Contents \cup {None} : Edit(f, c) => UNCHANGED port
        /\ UNCHANGED vars => UNCHANGED port
    BY DEF Start, Stop, Edit, vars, port
  <2> QED
    BY <2>1, <2>2, <2>3 DEF Next
<1> QED
  BY <1>1, <1>2, FolderCorrect, PTL DEF Spec, Port!Spec
=============================================================================
