--------------------------- MODULE CatalogTables ---------------------------
(***************************************************************************)
(* The relational content of an mdrack-sqlite v2 catalog, and the pure     *)
(* statements its writers execute on it (resource_store.py, graph_reader.py*)
(* and the v2 schema).                                                     *)
(*                                                                         *)
(* A database is a record of tables.  A table whose primary key is an      *)
(* opaque identity is a function from identities to rows, None standing    *)
(* for "no row"; a table whose key is its whole row is a set.  The FTS     *)
(* table has no key at all, so it counts its rows.  Payload columns that   *)
(* no constraint and no property reads (titles, locators of evidence,      *)
(* vector bytes, timestamps) are left out.                                 *)
(***************************************************************************)
EXTENDS PublicationState

CONSTANTS
    Reps,        \* representation ids, unique in the whole catalog
    Units,       \* search unit ids, unique in the whole catalog
    Texts,       \* unit texts; NoText is the absent or blank one
    Spaces,      \* embedding space ids
    Idents,      \* what a space id stands for (dimensions, metric, fingerprint)
    Facets,      \* (namespace, value) pairs
    Batches,     \* the batches callers prepare
    NoText

ASSUME NoneAssumption ==
    /\ None \notin Resources
    /\ None \notin Sources
    /\ None \notin Idents
    /\ None \notin [rep : Reps, text : Texts]
    /\ None \notin [res : Resources, rep : Reps, text : Texts]

(***************************************************************************)
(* PreparedResourceBatch: one resource, its source and its whole graph.    *)
(***************************************************************************)
BatchType ==
    [res    : Resources,
     src    : Sources,
     reps   : SUBSET Reps,
     unit   : [Units -> [rep : Reps, text : Texts] \cup {None}],
     space  : [Spaces -> Idents \cup {None}],
     vec    : SUBSET (Units \X Spaces),
     facets : SUBSET Facets]

ASSUME BatchAssumption == Batches \subseteq BatchType /\ NoText \in Texts

UnitsOf(b) == {u \in Units : b.unit[u] # None}

HasText(row) == row # None /\ row.text # NoText

(***************************************************************************)
(* The tables.                                                             *)
(***************************************************************************)
UnitRow == [res : Resources, rep : Reps, text : Texts]

DatabaseType ==
    [resource : [Resources -> Sources \cup {None}],   \* core_resources
     rep      : [Reps -> Resources \cup {None}],      \* core_representations
     unit     : [Units -> UnitRow \cup {None}],       \* core_search_units
     space    : [Spaces -> Idents \cup {None}],       \* core_embedding_spaces
     vec      : SUBSET (Units \X Spaces),             \* core_unit_embeddings
     facet    : SUBSET Facets,                        \* core_facets
     tag      : SUBSET (Resources \X Facets),         \* core_resource_facets
     fts      : [Units \X Texts -> Nat],              \* core_search_units_fts
     state    : [Resources -> StateType]]             \* core_publication_states

EmptyDatabase ==
    [resource |-> [r \in Resources |-> None],
     rep      |-> [p \in Reps |-> None],
     unit     |-> [u \in Units |-> None],
     space    |-> [s \in Spaces |-> None],
     vec      |-> {},
     facet    |-> {},
     tag      |-> {},
     fts      |-> [k \in Units \X Texts |-> 0],
     state    |-> [r \in Resources |-> NeverCreated]]

OwnedUnits(d, r) == {u \in Units : d.unit[u] # None /\ d.unit[u].res = r}

(***************************************************************************)
(* validate_prepared_batch, repeated by _preflight: what a batch must      *)
(* satisfy before any transaction is opened.                               *)
(***************************************************************************)
ValidBatch(b) ==
    /\ b.reps # {}
    /\ UnitsOf(b) # {}
    /\ \A u \in UnitsOf(b) :
          /\ b.unit[u].rep \in b.reps
          /\ HasText(b.unit[u]) \/ \E s \in Spaces : <<u, s>> \in b.vec
    /\ \A p \in b.reps : \E u \in UnitsOf(b) : b.unit[u].rep = p
    /\ \A v \in b.vec : v[1] \in UnitsOf(b) /\ b.space[v[2]] # None

(***************************************************************************)
(* _delete_fts: the index rows of the units the resource owns NOW, so it   *)
(* has to run before the cascade removes those units.                      *)
(***************************************************************************)
DeleteFts(d, r) ==
    [d EXCEPT !.fts = [k \in Units \X Texts |->
                          IF k[1] \in OwnedUnits(d, r) THEN 0 ELSE d.fts[k]]]

(***************************************************************************)
(* DELETE FROM core_resources, with its ON DELETE CASCADE foreign keys.    *)
(***************************************************************************)
DeleteResourceRow(d, r) ==
    [d EXCEPT
        !.resource = [d.resource EXCEPT ![r] = None],
        !.rep  = [p \in Reps |-> IF d.rep[p] = r THEN None ELSE d.rep[p]],
        !.unit = [u \in Units |-> IF u \in OwnedUnits(d, r) THEN None ELSE d.unit[u]],
        !.vec  = {v \in d.vec : v[1] \notin OwnedUnits(d, r)},
        !.tag  = {t \in d.tag : t[1] # r}]

\* Faulty variant: the index is cleaned after the cascade has taken the units.
RemoveGraphCascadeFirst(d, r) == DeleteFts(DeleteResourceRow(d, r), r)

RemoveGraph(d, r) == DeleteResourceRow(DeleteFts(d, r), r)

(***************************************************************************)
(* _prune_facets: a facet lives as long as some resource carries it.       *)
(***************************************************************************)
PruneFacets(d) ==
    [d EXCEPT !.facet = {f \in d.facet : \E r \in Resources : <<r, f>> \in d.tag}]

(***************************************************************************)
(* _check_source_identity and _check_spaces, on the tables as they are     *)
(* before the old graph goes.                                              *)
(***************************************************************************)
CheckSourceIdentity(d, b) ==
    /\ d.resource[b.res] \in {None, b.src}
    /\ \A r \in Resources : d.resource[r] = b.src => r = b.res

CheckSpaces(d, b) ==
    \A s \in Spaces : b.space[s] # None => d.space[s] \in {None, b.space[s]}

(***************************************************************************)
(* The primary keys the INSERTs run into once the old graph is gone.       *)
(***************************************************************************)
KeysFree(d, b) ==
    /\ \A p \in b.reps : d.rep[p] = None
    /\ \A u \in UnitsOf(b) : d.unit[u] = None

InsertGraph(d, b) ==
    [resource |-> [d.resource EXCEPT ![b.res] = b.src],
     space    |-> [s \in Spaces |-> IF d.space[s] = None THEN b.space[s] ELSE d.space[s]],
     rep      |-> [p \in Reps |-> IF p \in b.reps THEN b.res ELSE d.rep[p]],
     unit     |-> [u \in Units |->
                      IF u \in UnitsOf(b)
                      THEN [res |-> b.res, rep |-> b.unit[u].rep, text |-> b.unit[u].text]
                      ELSE d.unit[u]],
     vec      |-> d.vec \cup b.vec,
     facet    |-> d.facet \cup b.facets,
     tag      |-> d.tag \cup ({b.res} \X b.facets),
     fts      |-> [k \in Units \X Texts |->
                      IF HasText(b.unit[k[1]]) /\ b.unit[k[1]].text = k[2]
                      THEN d.fts[k] + 1 ELSE d.fts[k]],
     state    |-> d.state]

(***************************************************************************)
(* _write_graph: replace the resource's whole graph.  _verify re-reads     *)
(* what was just written; on the tables its checks come to VerifyWritten.  *)
(***************************************************************************)
WriteAllowed(d, b) ==
    /\ CheckSourceIdentity(d, b)
    /\ CheckSpaces(d, b)
    /\ KeysFree(RemoveGraph(d, b.res), b)

WriteGraph(d, b) == PruneFacets(InsertGraph(RemoveGraph(d, b.res), b))

VerifyWritten(d, b) ==
    /\ {p \in Reps : d.rep[p] = b.res} = b.reps
    /\ OwnedUnits(d, b.res) = UnitsOf(b)
    /\ {v \in d.vec : v[1] \in OwnedUnits(d, b.res)} = b.vec
    /\ {t \in d.tag : t[1] = b.res} = {b.res} \X b.facets
    /\ \A p \in b.reps : \E u \in OwnedUnits(d, b.res) : d.unit[u].rep = p
    /\ {u \in OwnedUnits(d, b.res) : \E t \in Texts : d.fts[<<u, t>>] > 0}
          = {u \in UnitsOf(b) : HasText(b.unit[u])}

(***************************************************************************)
(* rebuild_fts_index: the whole index from the text units.                 *)
(***************************************************************************)
RebuildFts(d) ==
    [d EXCEPT !.fts = [k \in Units \X Texts |->
                          IF HasText(d.unit[k[1]]) /\ d.unit[k[1]].text = k[2] THEN 1 ELSE 0]]

(***************************************************************************)
(* read_graph: the stored graph of one resource.  Spaces come back through *)
(* the vectors, so a declared space that no vector uses is not read back.  *)
(***************************************************************************)
ReadGraph(d, r) ==
    IF d.resource[r] = None THEN None
    ELSE LET owned   == OwnedUnits(d, r)
             vectors == {v \in d.vec : v[1] \in owned}
         IN  [res    |-> r,
              src    |-> d.resource[r],
              reps   |-> {p \in Reps : d.rep[p] = r},
              unit   |-> [u \in Units |->
                             IF u \in owned
                             THEN [rep |-> d.unit[u].rep, text |-> d.unit[u].text]
                             ELSE None],
              space  |-> [s \in Spaces |->
                             IF \E v \in vectors : v[2] = s THEN d.space[s] ELSE None],
              vec    |-> vectors,
              facets |-> {f \in Facets : <<r, f>> \in d.tag}]

(***************************************************************************)
(* What a batch is once it is stored: itself without the unused spaces.    *)
(***************************************************************************)
StoredForm(b) ==
    [b EXCEPT !.space = [s \in Spaces |->
                            IF \E v \in b.vec : v[2] = s THEN b.space[s] ELSE None]]

(***************************************************************************)
(* SQLiteCatalog.verify: _verify_snapshot with _verify_graph_snapshot.     *)
(* Foreign keys hold, every stored graph is a valid batch, the index holds *)
(* exactly the published texts, once each, and a resource row exists       *)
(* exactly for the published states and carries their binding.             *)
(***************************************************************************)
ForeignKeysHold(d) ==
    /\ \A p \in Reps : d.rep[p] # None => d.resource[d.rep[p]] # None
    /\ \A u \in Units : d.unit[u] # None => d.rep[d.unit[u].rep] = d.unit[u].res
    /\ \A v \in d.vec : d.unit[v[1]] # None /\ d.space[v[2]] # None
    /\ \A t \in d.tag : d.resource[t[1]] # None /\ t[2] \in d.facet

IndexExact(d) ==
    \A u \in Units, t \in Texts :
        d.fts[<<u, t>>] = IF HasText(d.unit[u]) /\ d.unit[u].text = t THEN 1 ELSE 0

GraphIffPublished(d) ==
    \A r \in Resources :
        /\ d.resource[r] # None <=> d.state[r].status = "published"
        /\ d.resource[r] # None => d.resource[r] = d.state[r].src

CatalogVerify(d) ==
    /\ ForeignKeysHold(d)
    /\ \A r \in Resources : d.resource[r] # None => ValidBatch(ReadGraph(d, r))
    /\ IndexExact(d)
    /\ GraphIffPublished(d)
=============================================================================
