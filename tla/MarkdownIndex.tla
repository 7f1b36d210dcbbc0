---------------------------- MODULE MarkdownIndex ----------------------------
(***************************************************************************)
(* IndexingService.scan over CoreCompatibilityStorage: a scan lists the    *)
(* Markdown files below the root, compares them with the indexed documents,*)
(* recognizes renames, replaces the files that are new or changed one      *)
(* after another and deletes what is gone, while the files change.         *)
(*                                                                         *)
(* A file is absent, cannot be decoded, or has a content; a content stands *)
(* for its hash.  A document id derived from a path is the path.           *)
(***************************************************************************)
EXTENDS Naturals, FiniteSets, Sequences, SequencesExt, TLC

CONSTANTS
    Paths,          \* a set of numbers: the order of paths and of their ids
    Contents,
    MaxEdits,       \* bound on the changes of the files
    MaxFaults,      \* bound on failing steps, withdrawals, crashes, and
                    \* files that change during a scan
    Initially       \* the files at the start

VARIABLES
    disk,           \* path -> content, "absent" or "undecodable"
    index,          \* the documents: [id, path, hash, withdrawn]
    scan,           \* the running scan
    done,           \* the end of the last scan: its status and what it did
    edits, faults

vars == <<disk, index, scan, done, edits, faults>>

NoScan == [pc |-> "none"]
NotDone == [status |-> "none", quiet |-> 0]

Init ==
    /\ disk \in Initially
    /\ index = {}
    /\ scan = NoScan
    /\ done = NotDone
    /\ edits = 0 /\ faults = 0

Sorted(paths) == SetToSortSeq(paths, <)
Decodable(p) == disk[p] \in Contents

\* A fault that may happen at most MaxFaults times.
Fault == faults < MaxFaults /\ faults' = faults + 1

-----------------------------------------------------------------------------
(* The documents of the catalog. *)

Active == {d \in index : ~d.withdrawn}
\* _document_records and _withdrawn_documents: the last id of a path wins.
LastOf(documents, p) ==
    {d \in documents : d.path = p /\ \A e \in documents : e.path = p => e.id <= d.id}
FileByPath(p) == LastOf(Active, p)
IndexedAt(p) ==
    IF FileByPath(p) # {} THEN FileByPath(p)
    ELSE {[d EXCEPT !.hash = "none"] : d \in LastOf(index \ Active, p)}

\* replace_file and delete_file.
Publish(id, p, hash) ==
    index' = {d \in index : d.id # id} \cup {[id |-> id, path |-> p, hash |-> hash, withdrawn |-> FALSE]}
RemoveDocument(p) ==
    LET current == IndexedAt(p) IN index' = {d \in index : \A c \in current : d.id # c.id}

-----------------------------------------------------------------------------
(* The scan. *)

\* scan_markdown_files; the traversal fails as a whole.
StartScan ==
    /\ scan = NoScan
    /\ \E force \in BOOLEAN, listed \in BOOLEAN :
          IF listed
          THEN /\ scan' = [pc |-> "plan", force |-> force, seen |-> {p \in Paths : disk[p] # "absent"},
                           quiet |-> TRUE, before |-> index]
               /\ done' = [NotDone EXCEPT !.quiet = done.quiet]
               /\ UNCHANGED faults
          ELSE /\ Fault
               /\ scan' = NoScan
               /\ done' = [NotDone EXCEPT !.status = "failed"]
    /\ UNCHANGED <<disk, index, edits>>

\* plan_changes: a file that cannot be read has no hash.
HashOf(p) == IF Decodable(p) THEN disk[p] ELSE "none"
\* Faulty variant: a copy of another file counts as known.
IsNewUnlessCopy(p) == IndexedAt(p) = {} /\ \A q \in scan.seen : q < p => HashOf(q) # HashOf(p)

IsNew(p) == IndexedAt(p) = {}
IsChanged(p) == \E d \in IndexedAt(p) : d.hash # HashOf(p)
IndexedPaths == {p \in Paths : IndexedAt(p) # {}}

Plan ==
    /\ scan.pc = "plan"
    /\ LET s == scan
           new == {p \in s.seen : IsNew(p)}
           changed == {p \in s.seen : IsChanged(p)}
       IN  scan' = [s EXCEPT !.pc = "renames"]
                   @@ [todo |-> IF s.force THEN Sorted(s.seen) ELSE Sorted(new) \o Sorted(changed),
                       new |-> IF s.force THEN <<>> ELSE Sorted(new),
                       deleted |-> IndexedPaths \ s.seen, sources |-> {}]
    /\ UNCHANGED <<disk, index, done, edits, faults>>

\* find_rename_source: exactly one deleted document has the content of the
\* new file; it is not deleted, and no other file can claim it.
ClaimRename(s, p) ==
    LET matches == {d \in Active : d \in FileByPath(d.path) /\ d.path \in s.deleted /\ d.hash = disk[p]}
    IN  IF Decodable(p) /\ Cardinality(matches) = 1
        THEN [s EXCEPT !.sources = @ \cup {[to |-> p, id |-> d.id, from |-> d.path] : d \in matches},
                       !.deleted = @ \ {d.path : d \in matches}]
        ELSE s

FindRenames ==
    /\ scan.pc = "renames"
    /\ scan' = [FoldLeft(ClaimRename, scan, scan.new) EXCEPT !.pc = "files"]
               @@ [read |-> {}, failed |-> {}, published |-> {}, removed |-> {}]
    /\ UNCHANGED <<disk, index, done, edits, faults>>

\* _prepare_file reads the file again and looks for its document again; a
\* withdrawn document does not count.  Parsing, chunking or embedding may
\* fail.
PrepareFile ==
    /\ scan.pc = "files" /\ scan.todo # <<>> /\ scan.read = {}
    /\ LET p == Head(scan.todo)
           existing == {d.id : d \in FileByPath(p)}
           source == {r.id : r \in {x \in scan.sources : x.to = p}}
           id == IF existing # {} THEN CHOOSE i \in existing : TRUE
                 ELSE IF source # {} THEN CHOOSE i \in source : TRUE ELSE p
           fails == [scan EXCEPT !.failed = @ \cup {p}, !.todo = Tail(@)]
       IN  \/ /\ Decodable(p)
              /\ scan' = [scan EXCEPT !.read = {[id |-> id, path |-> p, hash |-> disk[p]]}]
              /\ UNCHANGED faults
           \/ ~Decodable(p) /\ scan' = fails /\ UNCHANGED faults
           \/ Decodable(p) /\ Fault /\ scan' = fails
    /\ UNCHANGED <<disk, index, done, edits>>

\* replace_file: the whole graph of the document, or nothing.
ReplaceFile ==
    /\ scan.pc = "files" /\ scan.read # {}
    /\ \E file \in scan.read :
          \/ /\ Publish(file.id, file.path, file.hash)
             /\ scan' = [scan EXCEPT !.read = {}, !.todo = Tail(@), !.published = @ \cup {file}]
             /\ UNCHANGED faults
          \/ /\ Fault
             /\ scan' = [scan EXCEPT !.read = {}, !.todo = Tail(@), !.failed = @ \cup {file.path}]
             /\ UNCHANGED index
    /\ UNCHANGED <<disk, done, edits>>

DeleteFile ==
    /\ scan.pc = "files" /\ scan.todo = <<>> /\ scan.read = {}
    /\ \E p \in scan.deleted :
          /\ p = Head(Sorted(scan.deleted))
          /\ \/ /\ RemoveDocument(p)
                /\ scan' = [scan EXCEPT !.deleted = @ \ {p}, !.removed = @ \cup {p}]
                /\ UNCHANGED faults
             \/ /\ Fault
                /\ scan' = [scan EXCEPT !.deleted = @ \ {p}, !.failed = @ \cup {p}]
                /\ UNCHANGED index
    /\ UNCHANGED <<disk, done, edits>>

\* _status.
StatusOf(s) ==
    IF s.failed = {} THEN "success"
    ELSE IF s.published # {} \/ s.removed # {} THEN "partial_success" ELSE "failed"

FinishScan ==
    /\ scan.pc = "files" /\ scan.todo = <<>> /\ scan.read = {} /\ scan.deleted = {}
    /\ LET s == scan
           counted == IF done.quiet < Cardinality(Paths) THEN done.quiet + 1 ELSE done.quiet
       IN  done' = [status |-> StatusOf(s),
                    quiet |-> IF s.quiet /\ s.failed = {} THEN counted ELSE 0,
                    calm |-> s.quiet, failed |-> s.failed, before |-> s.before,
                    sources |-> s.sources, published |-> s.published]
    /\ scan' = NoScan
    /\ UNCHANGED <<disk, index, edits, faults>>

\* The process dies: what was published stays.
Crash ==
    /\ scan # NoScan
    /\ Fault
    /\ scan' = NoScan
    /\ done' = NotDone
    /\ UNCHANGED <<disk, index, edits>>

-----------------------------------------------------------------------------
(* The surroundings. *)

Unsettled == /\ done' = NotDone
             /\ scan' = IF scan = NoScan THEN NoScan ELSE [scan EXCEPT !.quiet = FALSE]

Edit ==
    /\ edits < MaxEdits /\ edits' = edits + 1
    /\ \/ \E p \in Paths, c \in Contents \cup {"absent", "undecodable"} :
             disk[p] # c /\ disk' = [disk EXCEPT ![p] = c]
       \/ \E p, q \in Paths : /\ p # q /\ Decodable(p)
                              /\ disk' = [disk EXCEPT ![q] = disk[p], ![p] = "absent"]
    /\ Unsettled
    /\ IF scan = NoScan THEN UNCHANGED faults ELSE Fault
    /\ UNCHANGED index

\* withdraw_resource of the public API.
Withdraw ==
    /\ Fault
    /\ \E d \in Active : index' = (index \ {d}) \cup {[d EXCEPT !.withdrawn = TRUE]}
    /\ Unsettled
    /\ UNCHANGED <<disk, edits>>

Next ==
    \/ StartScan \/ Plan \/ FindRenames \/ PrepareFile \/ ReplaceFile \/ DeleteFile \/ FinishScan \/ Crash
    \/ Edit \/ Withdraw

Spec == Init /\ [][Next]_vars

-----------------------------------------------------------------------------
\* Path p is indexed with the content of its file, and only if there is one.
Reflects(p) ==
    IF disk[p] = "absent" THEN \A d \in Active : d.path # p
    ELSE Decodable(p) => \E d \in FileByPath(p) : d.hash = disk[p]

\* A file was newly given the identity its path stands for, which belongs to
\* a document that was renamed before: one of the two is overwritten.
Overwritten(p) ==
    LET known == done.before \cup done.published
        ids == {d.id : d \in {x \in known : x.path = p}}
    IN  \E f \in done.published :
          /\ f.id = f.path /\ f.id \in ids
          /\ \A d \in done.before : d.path # f.path \/ d.id # f.id \/ d.withdrawn
          /\ \E g \in known : g.id = f.id /\ g.path # f.path

\* When no file changed during a scan: the files that did not fail are
\* indexed with their content and deleted ones are gone; a file that failed
\* keeps the document it had; a renamed file keeps the identity of the
\* document; and a document another file took the identity of comes back in
\* one of the next scans, at the latest when there were as many as files.
IndexFaithful ==
    /\ "before" \in DOMAIN done /\ done.calm =>
          \A p \in Paths :
              LET lost == {r.from : r \in {x \in done.sources : x.to \in done.failed}}
              IN  /\ p \notin done.failed \cup lost => Reflects(p) \/ Overwritten(p)
                  /\ p \in done.failed /\ disk[p] # "absent" /\ ~Overwritten(p) =>
                        {d \in Active : d.path = p} = {d \in done.before : ~d.withdrawn /\ d.path = p}
                  /\ \A r \in done.sources : r.to \notin done.failed =>
                        Overwritten(r.to) \/ \E d \in Active : d.id = r.id /\ d.path = r.to
    /\ done.quiet = Cardinality(Paths) /\ scan = NoScan => \A p \in Paths : Reflects(p)

\* A scan that reports success has indexed every file
\* (docs/current-architecture/indexing-and-chunking.md).
ScanComplete ==
    done.status = "success" /\ done.calm => \A p \in Paths : Reflects(p)

=============================================================================
