---------------------------- MODULE IndexStorage ----------------------------
(***************************************************************************)
(* SQLiteIndexStorage, the tables of the first schema: files, sections,    *)
(* chunks, their full-text rows, embedding profiles and vectors.  A writer *)
(* looks a file up, prepares its rows from what it read and replaces the   *)
(* file in one savepoint; deleting looks up first, too.  Writers share the *)
(* database, whose write lock a transaction holds from its first change.   *)
(*                                                                         *)
(* A source is what a file was chunked to.  The text of a chunk is how     *)
(* well it matches the query.  Record ids are fresh, so they carry the     *)
(* number of the preparation.                                              *)
(***************************************************************************)
EXTENDS Naturals, FiniteSets, Sequences, SequencesExt

CONSTANTS
    Writers,
    FilePaths,      \* of the indexed files; a document id is derived from one
    Sources,        \* [sections: parents by ordinal, chunks: [section, text]]
    Profiles,       \* [name, fingerprint, dimensions] a provider stands for
    NoProfile,      \* there is no provider
    Dimensions,     \* fingerprint -> dimensions of the vectors the model returns
    MaxPrepared     \* bound on preparations

VARIABLES
    tables,         \* the committed database
    writing,        \* writer -> the call in progress
    prepared        \* number of preparations

storageVars == <<tables, writing, prepared>>

Resting == [pc |-> "idle"]
Empty == [files |-> {}, sections |-> {}, chunks |-> {}, fts |-> <<>>, profiles |-> {}, embeddings |-> {}]

Init == tables = Empty /\ writing = [w \in Writers |-> Resting] /\ prepared = 0

Unlocked == \A w \in Writers : writing[w].pc # "commit"
Go(w, call) == writing' = [writing EXCEPT ![w] = call]

-----------------------------------------------------------------------------
(* Reads. *)

FileByPath(t, p) == {f \in t.files : f.path = p}

\* find_rename_source: the only deleted file with the same content.
RenameSource(t, deleted, source) ==
    LET same == {f \in t.files : f.path \in deleted /\ f.source = source}
    IN  IF Cardinality(same) = 1 THEN same ELSE {}

Ordered(S, Before(_, _)) == [i \in 1 .. Cardinality(S) |-> CHOOSE x \in S : Cardinality({y \in S : Before(y, x)}) = i - 1]

\* text_search over search_fts: better ranks first, then rows; a page is cut
\* out of limit + offset rows and joined with the chunk and its file.
TextRows(t) ==
    Ordered({i \in DOMAIN t.fts : t.fts[i].text > 0},
            LAMBDA i, j : t.fts[i].text > t.fts[j].text \/ (t.fts[i].text = t.fts[j].text /\ i < j))
TextSearch(t, limit, offset) ==
    LET rows == TextRows(t)
        least(a, b) == IF a < b THEN a ELSE b
        page == SubSeq(SubSeq(rows, 1, least(Len(rows), limit + offset)), offset + 1, least(Len(rows), limit + offset))
    IN  [i \in DOMAIN page |->
            [chunk |-> t.fts[page[i]].chunk,
             paths |-> {f.path : f \in {x \in t.files : \E c \in t.chunks : c.id = t.fts[page[i]].chunk /\ c.file = x.id}}]]

\* VectorIndex.search: the vectors of the active fingerprint of a profile.
Scored(t, name) ==
    {e \in t.embeddings : e.profile = name /\ \E p \in t.profiles : p.name = name /\ p.fingerprint = e.fingerprint}

\* get_neighbors: walk the links at most count times in each direction.
Neighbors(t, chunk, count) ==
    LET row(id) == {c \in t.chunks : c.id = id}
        back[k \in 0 .. count] == IF k = 0 THEN {chunk} ELSE UNION {row(c.previous) : c \in back[k - 1]}
        ahead[k \in 0 .. count] == IF k = 0 THEN {chunk} ELSE UNION {row(c.next) : c \in ahead[k - 1]}
    IN  UNION {back[k] \cup ahead[k] : k \in 1 .. count}

-----------------------------------------------------------------------------
(* Preparing and replacing a file. *)

\* The rows of _prepare_structural_file; links run along the chunks.
Rows(n, id, source) ==
    [sections |-> {[id |-> <<n, k>>, file |-> id, parent |-> IF source.sections[k] = 0 THEN <<>> ELSE <<n, source.sections[k]>>] :
                       k \in DOMAIN source.sections},
     chunks |-> [k \in DOMAIN source.chunks |->
        [id |-> <<n, k>>, file |-> id, section |-> <<n, source.chunks[k].section>>, index |-> k,
         text |-> source.chunks[k].text,
         previous |-> IF k = 1 THEN <<>> ELSE <<n, k - 1>>,
         next |-> IF k = Len(source.chunks) THEN <<>> ELSE <<n, k + 1>>]]]

Prepare(w) ==
    /\ writing[w] = Resting /\ prepared < MaxPrepared
    /\ prepared' = prepared + 1
    /\ \E p \in FilePaths, source \in Sources, profile \in Profiles \cup {NoProfile}, deleted \in {{}, FilePaths} :
          LET found == FileByPath(tables, p)
              existing == IF found # {} THEN found ELSE RenameSource(tables, deleted \ {p}, source)
              id == IF existing = {} THEN prepared ELSE (CHOOSE f \in existing : TRUE).id
              logical == IF existing = {} THEN p ELSE (CHOOSE f \in existing : TRUE).logical
          IN  Go(w, [pc |-> "replace", id |-> id, logical |-> logical, path |-> p, source |-> source,
                     profile |-> profile, number |-> prepared, db |-> Empty])
    /\ UNCHANGED tables

ChunkIds(t, id) == {c.id : c \in {x \in t.chunks : x.file = id}}

\* Faulty variant: the chunks are deleted by the ids read before.
DeleteDerivedRowsRead(t, id, gone) ==
    [t EXCEPT !.fts = SelectSeq(@, LAMBDA r : r.chunk \notin gone),
              !.chunks = {c \in @ : c.id \notin gone},
              !.embeddings = {e \in @ : e.chunk \notin gone},
              !.sections = {s \in @ : s.file # id}]

\* _delete_derived_rows once it has read the ids; vectors cascade with chunks.
DeleteDerivedRows(t, id, gone) ==
    [t EXCEPT !.fts = SelectSeq(@, LAMBDA r : r.chunk \notin gone),
              !.chunks = {c \in @ : c.file # id},
              !.embeddings = {e \in @ : e.chunk \notin ChunkIds(t, id)},
              !.sections = {s \in @ : s.file # id}]

\* _write_file: no other file has the path or the document's id.
WriteFile(t, c) ==
    [t EXCEPT !.files = {f \in @ : f.id # c.id} \cup {[id |-> c.id, logical |-> c.logical, path |-> c.path, source |-> c.source]}]
FileFree(t, c) == \A f \in t.files : f.id # c.id => f.path # c.path /\ f.logical # c.logical

\* _ensure_embedding_profile: a name stays bound to its fingerprint.
Embeds(c) == c.profile # NoProfile /\ c.source.chunks # <<>>
ProfileFree(t, c) == Embeds(c) => \A p \in t.profiles : p.name = c.profile.name => p.fingerprint = c.profile.fingerprint
EnsureProfile(t, c) ==
    IF Embeds(c) /\ \A p \in t.profiles : p.name # c.profile.name THEN [t EXCEPT !.profiles = @ \cup {c.profile}] ELSE t

\* _write_chunk and _write_vector, one chunk after another.
WriteChunks(t, c, chunks) ==
    LET vector(chunk) == [chunk |-> chunk.id, profile |-> c.profile.name, fingerprint |-> c.profile.fingerprint,
                          dimensions |-> Dimensions[c.profile.fingerprint]]
        row(chunk) == [chunk |-> chunk.id, text |-> chunk.text]
    IN  [t EXCEPT !.chunks = @ \cup Range(chunks), !.fts = @ \o [k \in DOMAIN chunks |-> row(chunks[k])],
                  !.embeddings = @ \cup {vector(chunk) : chunk \in IF Embeds(c) THEN Range(chunks) ELSE {}}]
VectorsFit(c) == Embeds(c) => Dimensions[c.profile.fingerprint] = c.profile.dimensions

\* _validate_file_counts.
CountsRight(t, c) ==
    /\ Cardinality({s \in t.sections : s.file = c.id}) = Len(c.source.sections)
    /\ Cardinality({x \in t.chunks : x.file = c.id}) = Len(c.source.chunks)

\* replace_file within its savepoint, up to the commit.
Replace(w) ==
    /\ writing[w].pc = "replace" /\ Unlocked
    /\ LET c == writing[w]
           rows == Rows(c.number, c.id, c.source)
           cleared == DeleteDerivedRows(tables, c.id, ChunkIds(tables, c.id))
           filed == [WriteFile(cleared, c) EXCEPT !.sections = @ \cup rows.sections]
           written == WriteChunks(EnsureProfile(filed, c), c, rows.chunks)
       IN  /\ FileFree(cleared, c) /\ ProfileFree(filed, c) /\ VectorsFit(c) /\ CountsRight(written, c)
           /\ Go(w, [c EXCEPT !.pc = "commit", !.db = written])
    /\ UNCHANGED <<tables, prepared>>

Commit(w) ==
    /\ writing[w].pc = "commit"
    /\ tables' = writing[w].db
    /\ Go(w, Resting)
    /\ UNCHANGED prepared

\* ROLLBACK TO SAVEPOINT: a constraint, a busy database or another error, or
\* the death of the process.
Abort(w) ==
    /\ writing[w].pc # "idle"
    /\ Go(w, Resting)
    /\ UNCHANGED <<tables, prepared>>

\* delete_file: the id of the path, the ids of its chunks, and only with the
\* first DELETE the transaction that removes what they name.
FindDeleted(w) ==
    /\ writing[w] = Resting
    /\ \E p \in FilePaths, f \in tables.files : f.path = p /\ Go(w, [pc |-> "find", id |-> f.id])
    /\ UNCHANGED <<tables, prepared>>
FindDerived(w) ==
    /\ writing[w].pc = "find"
    /\ Go(w, [pc |-> "delete", id |-> writing[w].id, gone |-> ChunkIds(tables, writing[w].id)])
    /\ UNCHANGED <<tables, prepared>>
DeleteFile(w) ==
    /\ writing[w].pc = "delete" /\ Unlocked
    /\ LET t == DeleteDerivedRows(tables, writing[w].id, writing[w].gone) IN
       tables' = [t EXCEPT !.files = {f \in @ : f.id # writing[w].id}]
    /\ Go(w, Resting)
    /\ UNCHANGED prepared

\* rebuild_fts: one row for every chunk.
RebuildFts ==
    /\ Unlocked
    /\ LET rows == Ordered(tables.chunks, LAMBDA a, b : a.id[1] < b.id[1] \/ (a.id[1] = b.id[1] /\ a.id[2] < b.id[2]))
       IN  tables' = [tables EXCEPT !.fts = [i \in DOMAIN rows |-> [chunk |-> rows[i].id, text |-> rows[i].text]]]
    /\ UNCHANGED <<writing, prepared>>

Next ==
    \/ \E w \in Writers :
          Prepare(w) \/ Replace(w) \/ Commit(w) \/ Abort(w) \/ FindDeleted(w) \/ FindDerived(w) \/ DeleteFile(w)
    \/ RebuildFts

Spec == Init /\ [][Next]_storageVars

-----------------------------------------------------------------------------
(***************************************************************************)
(* Whatever writers did and however they failed (replace_file,             *)
(* delete_file): no two files share a path or a document, the sections and *)
(* chunks of a file are those one preparation made of its source, and      *)
(* nothing is there without its file; a vector belongs to a chunk, and to  *)
(* the one model its profile is bound to.                                  *)
(***************************************************************************)
TablesLinked ==
    LET t == tables IN
    /\ \A f, g \in t.files : f.id = g.id \/ f.path = g.path \/ f.logical = g.logical => f = g
    /\ \A f \in t.files : \E n \in 0 .. prepared - 1 :
          LET rows == Rows(n, f.id, f.source) IN
          /\ {s \in t.sections : s.file = f.id} = rows.sections
          /\ {c \in t.chunks : c.file = f.id} = Range(rows.chunks)
    /\ \A x \in t.chunks \cup t.sections : \E f \in t.files : f.id = x.file
    /\ \A c, d \in t.chunks : c.id = d.id => c = d
    /\ \A e \in t.embeddings :
          /\ \E c \in t.chunks : c.id = e.chunk
          /\ {[fingerprint |-> p.fingerprint, dimensions |-> p.dimensions] : p \in {q \in t.profiles : q.name = e.profile}}
             = {[fingerprint |-> e.fingerprint, dimensions |-> e.dimensions]}

\* The chunks of a file are walked in their order.
Walked(f) ==
    LET chunks == {c \in tables.chunks : c.file = f.id}
    IN  \A c \in chunks, n \in 1 .. 2 :
            Neighbors(tables, c, n) = {d \in chunks : d # c /\ d.index <= c.index + n /\ c.index <= d.index + n}

\* Every chunk has one row in the text index; what else a row may name is a
\* chunk that is gone.
Indexed(t, c) == Cardinality({i \in DOMAIN t.fts : t.fts[i] = [chunk |-> c.id, text |-> c.text]}) = 1
Known(rows) == SelectSeq(rows, LAMBDA r : r.paths # {})

(***************************************************************************)
(* Whatever writers did and however they failed: every chunk is in the     *)
(* text index once, walking from it finds its neighbours, no vector of a   *)
(* profile is left out, and a search (text_search) shows every matching    *)
(* chunk once over all pages, with its path.                               *)
(***************************************************************************)
TablesSound ==
    LET t == tables
        owner(c) == {f.path : f \in {x \in t.files : x.id = c.file}}
        matching == {c \in t.chunks : c.text > 0}
        pages(limit) == FoldLeft(LAMBDA all, k : all \o TextSearch(t, limit, (k - 1) * limit), <<>>, [k \in 1 .. Len(t.fts) |-> k])
    IN  /\ \A f \in t.files : Walked(f)
        /\ \A c \in t.chunks : Indexed(t, c)
        /\ \A p \in t.profiles : Scored(t, p.name) = {e \in t.embeddings : e.profile = p.name}
        /\ \A limit \in 1 .. 2 :
              LET all == Known(pages(limit))
              IN  /\ Range(all) = {[chunk |-> c.id, paths |-> owner(c)] : c \in matching}
                  /\ Len(all) = Cardinality(matching)

\* No row of the text index outlives its chunk (_delete_derived_rows).  This
\* needs a single writer: delete_file reads the ids of the chunks before its
\* transaction begins, so a replacement in between leaves its rows behind.
TextExact == Len(tables.fts) = Cardinality(tables.chunks)

=============================================================================
