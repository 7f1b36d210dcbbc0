------------------------ MODULE ResourceStoreProofs ------------------------
(***************************************************************************)
(* Proofs about ResourceStore, for any set of clients, resources, batches. *)
(*                                                                         *)
(* The inductive invariant follows the open transaction: the client that   *)
(* holds the lock is the only one inside a transaction, and at each of its *)
(* points the uncommitted tables are a known function of the committed     *)
(* ones and of its call.  A commit therefore replaces db by one of four    *)
(* outcomes, and the first part says what each of them preserves.          *)
(***************************************************************************)
EXTENDS ResourceStore, TLAPS

-----------------------------------------------------------------------------
(***************************************************************************)
(* The tables: what the statements of CatalogTables preserve, for every    *)
(* database and every batch.                                               *)
(***************************************************************************)
(***************************************************************************)
(* Each statement maps tables to tables (the column types of the v2        *)
(* schema).                                                                *)
(***************************************************************************)
LEMMA DeleteFtsType ==
    ASSUME NEW d \in DatabaseType, NEW r \in Resources
    PROVE  DeleteFts(d, r) \in DatabaseType
BY DEF DeleteFts, DatabaseType

LEMMA DeleteResourceRowType ==
    ASSUME NEW d \in DatabaseType, NEW r \in Resources
    PROVE  DeleteResourceRow(d, r) \in DatabaseType
BY DEF DeleteResourceRow, DatabaseType

LEMMA RemoveGraphType ==
    ASSUME NEW d \in DatabaseType, NEW r \in Resources
    PROVE  RemoveGraph(d, r) \in DatabaseType
BY DeleteFtsType, DeleteResourceRowType DEF RemoveGraph

LEMMA PruneFacetsType ==
    ASSUME NEW d \in DatabaseType
    PROVE  PruneFacets(d) \in DatabaseType
BY DEF PruneFacets, DatabaseType

LEMMA InsertGraphType ==
    ASSUME NEW d \in DatabaseType, NEW b \in BatchType
    PROVE  InsertGraph(d, b) \in DatabaseType
<1> DEFINE e == InsertGraph(d, b)
<1>1. /\ e.resource \in [Resources -> Sources \cup {None}]
      /\ e.rep \in [Reps -> Resources \cup {None}]
      /\ e.space \in [Spaces -> Idents \cup {None}]
  BY DEF InsertGraph, DatabaseType, BatchType
<1>2. \A u \in UnitsOf(b) : b.unit[u] \in [rep : Reps, text : Texts]
  BY DEF UnitsOf, BatchType
<1>3. e.unit \in [Units -> UnitRow \cup {None}]
  BY <1>2 DEF InsertGraph, DatabaseType, BatchType, UnitRow
<1>4. /\ e.vec \in SUBSET (Units \X Spaces)
      /\ e.facet \in SUBSET Facets
      /\ e.tag \in SUBSET (Resources \X Facets)
  BY DEF InsertGraph, DatabaseType, BatchType
<1>5. e.fts \in [Units \X Texts -> Nat]
  BY DEF InsertGraph, DatabaseType
<1>6. e.state = d.state
  BY DEF InsertGraph, DatabaseType
<1> QED
  BY <1>1, <1>3, <1>4, <1>5, <1>6 DEF InsertGraph, DatabaseType

LEMMA WriteGraphType ==
    ASSUME NEW d \in DatabaseType, NEW b \in BatchType
    PROVE  WriteGraph(d, b) \in DatabaseType
<1>1. b.res \in Resources
  BY DEF BatchType
<1> QED
  BY <1>1, RemoveGraphType, InsertGraphType, PruneFacetsType DEF WriteGraph

LEMMA RebuildFtsType ==
    ASSUME NEW d \in DatabaseType
    PROVE  RebuildFts(d) \in DatabaseType
BY DEF RebuildFts, DatabaseType

LEMMA PutStateType ==
    ASSUME NEW d \in DatabaseType, NEW r \in Resources, NEW status \in Statuses,
           NEW src \in Sources \cup {None}, NEW n \in Nat
    PROVE  [d EXCEPT !.state = PutState(d.state, r, status, src, n)] \in DatabaseType
<1>1. d.state \in [Resources -> StateType]
  BY DEF DatabaseType
<1>2. NextState(d.state[r], status, src, n) \in StateType
  BY <1>1 DEF NextState, StateType
<1>3. PutState(d.state, r, status, src, n) \in [Resources -> StateType]
  BY <1>1, <1>2 DEF PutState
<1> QED
  BY <1>3 DEF DatabaseType

LEMMA ReadGraphType ==
    ASSUME NEW d \in DatabaseType, NEW r \in Resources
    PROVE  ReadGraph(d, r) \in BatchType \cup {None}
<1> SUFFICES ASSUME d.resource[r] # None
             PROVE  ReadGraph(d, r) \in BatchType
  BY DEF ReadGraph
<1>1. d.resource[r] \in Sources
  BY DEF DatabaseType
<1>2. \A u \in OwnedUnits(d, r) : d.unit[u] \in UnitRow
  BY DEF OwnedUnits, DatabaseType
<1> QED
  BY <1>1, <1>2 DEF ReadGraph, BatchType, DatabaseType, UnitRow, OwnedUnits

-----------------------------------------------------------------------------
(***************************************************************************)
(* The composed statements, table by table.                                *)
(***************************************************************************)
RemovedTables(d, r, e) ==
    LET o == OwnedUnits(d, r)
    IN  /\ e.resource = [d.resource EXCEPT ![r] = None]
        /\ e.rep = [p \in Reps |-> IF d.rep[p] = r THEN None ELSE d.rep[p]]
        /\ e.unit = [u \in Units |-> IF u \in o THEN None ELSE d.unit[u]]
        /\ e.space = d.space
        /\ e.vec = {v \in d.vec : v[1] \notin o}
        /\ e.facet = d.facet
        /\ e.tag = {t \in d.tag : t[1] # r}
        /\ e.fts = [k \in Units \X Texts |-> IF k[1] \in o THEN 0 ELSE d.fts[k]]
        /\ e.state = d.state

WrittenTables(d, b, e) ==
    LET o == OwnedUnits(d, b.res)
    IN  /\ e.resource = [d.resource EXCEPT ![b.res] = b.src]
        /\ e.rep = [p \in Reps |-> IF p \in b.reps THEN b.res
                                   ELSE IF d.rep[p] = b.res THEN None ELSE d.rep[p]]
        /\ e.unit = [u \in Units |->
                       IF u \in UnitsOf(b)
                       THEN [res |-> b.res, rep |-> b.unit[u].rep, text |-> b.unit[u].text]
                       ELSE IF u \in o THEN None ELSE d.unit[u]]
        /\ e.space = [s \in Spaces |-> IF d.space[s] = None THEN b.space[s] ELSE d.space[s]]
        /\ e.vec = {v \in d.vec : v[1] \notin o} \cup b.vec
        /\ e.tag = {t \in d.tag : t[1] # b.res} \cup ({b.res} \X b.facets)
        /\ e.facet = {f \in d.facet \cup b.facets : \E r \in Resources : <<r, f>> \in e.tag}
        /\ e.fts = [k \in Units \X Texts |->
                       (IF k[1] \in o THEN 0 ELSE d.fts[k])
                       + (IF HasText(b.unit[k[1]]) /\ b.unit[k[1]].text = k[2] THEN 1 ELSE 0)]
        /\ e.state = d.state

LEMMA RemoveGraphTables ==
    ASSUME NEW d \in DatabaseType, NEW r \in Resources
    PROVE  RemovedTables(d, r, RemoveGraph(d, r))
<1> DEFINE f == DeleteFts(d, r)
<1>1. /\ f.resource = d.resource /\ f.rep = d.rep /\ f.unit = d.unit
      /\ f.space = d.space /\ f.vec = d.vec /\ f.facet = d.facet
      /\ f.tag = d.tag /\ f.state = d.state
      /\ f.fts = [k \in Units \X Texts |-> IF k[1] \in OwnedUnits(d, r) THEN 0 ELSE d.fts[k]]
  BY DEF DeleteFts, DatabaseType
<1>2. OwnedUnits(f, r) = OwnedUnits(d, r)
  BY <1>1 DEF OwnedUnits
<1>3. f \in DatabaseType
  BY DeleteFtsType
<1> HIDE DEF f
<1> DEFINE e == DeleteResourceRow(f, r)
<1>4. /\ e.resource = [f.resource EXCEPT ![r] = None]
      /\ e.rep = [p \in Reps |-> IF f.rep[p] = r THEN None ELSE f.rep[p]]
      /\ e.unit = [u \in Units |-> IF u \in OwnedUnits(f, r) THEN None ELSE f.unit[u]]
      /\ e.vec = {v \in f.vec : v[1] \notin OwnedUnits(f, r)}
      /\ e.tag = {t \in f.tag : t[1] # r}
      /\ e.space = f.space /\ e.facet = f.facet /\ e.fts = f.fts /\ e.state = f.state
  BY <1>3 DEF DeleteResourceRow, DatabaseType
<1>5. e = RemoveGraph(d, r)
  BY DEF RemoveGraph, f
<1> HIDE DEF e
<1> QED
  BY <1>1, <1>2, <1>4, <1>5 DEF RemovedTables

LEMMA PruneFacetsTables ==
    ASSUME NEW d \in DatabaseType
    PROVE  LET e == PruneFacets(d)
           IN  /\ e.resource = d.resource /\ e.rep = d.rep /\ e.unit = d.unit
               /\ e.space = d.space /\ e.vec = d.vec /\ e.tag = d.tag
               /\ e.fts = d.fts /\ e.state = d.state
               /\ e.facet = {f \in d.facet : \E r \in Resources : <<r, f>> \in d.tag}
BY DEF PruneFacets, DatabaseType

LEMMA InsertGraphTables ==
    ASSUME NEW d, NEW b
    PROVE  LET e == InsertGraph(d, b)
           IN  /\ e.resource = [d.resource EXCEPT ![b.res] = b.src]
               /\ e.rep = [p \in Reps |-> IF p \in b.reps THEN b.res ELSE d.rep[p]]
               /\ e.unit = [u \in Units |->
                              IF u \in UnitsOf(b)
                              THEN [res |-> b.res, rep |-> b.unit[u].rep, text |-> b.unit[u].text]
                              ELSE d.unit[u]]
               /\ e.space = [s \in Spaces |-> IF d.space[s] = None THEN b.space[s] ELSE d.space[s]]
               /\ e.vec = d.vec \cup b.vec
               /\ e.facet = d.facet \cup b.facets
               /\ e.tag = d.tag \cup ({b.res} \X b.facets)
               /\ e.fts = [k \in Units \X Texts |->
                              IF HasText(b.unit[k[1]]) /\ b.unit[k[1]].text = k[2]
                              THEN d.fts[k] + 1 ELSE d.fts[k]]
               /\ e.state = d.state
BY DEF InsertGraph

LEMMA WriteGraphTables ==
    ASSUME NEW d \in DatabaseType, NEW b \in BatchType
    PROVE  WrittenTables(d, b, WriteGraph(d, b))
<1>1. b.res \in Resources
  BY DEF BatchType
<1> DEFINE m == RemoveGraph(d, b.res)
           i == InsertGraph(m, b)
           e == PruneFacets(i)
<1>2. m \in DatabaseType /\ i \in DatabaseType
  BY <1>1, RemoveGraphType, InsertGraphType
<1>3. e = WriteGraph(d, b)
  BY DEF WriteGraph
<1>4. /\ m.resource = [d.resource EXCEPT ![b.res] = None]
      /\ m.rep = [p \in Reps |-> IF d.rep[p] = b.res THEN None ELSE d.rep[p]]
      /\ m.unit = [u \in Units |-> IF u \in OwnedUnits(d, b.res) THEN None ELSE d.unit[u]]
      /\ m.space = d.space
      /\ m.vec = {v \in d.vec : v[1] \notin OwnedUnits(d, b.res)}
      /\ m.facet = d.facet
      /\ m.tag = {t \in d.tag : t[1] # b.res}
      /\ m.fts = [k \in Units \X Texts |-> IF k[1] \in OwnedUnits(d, b.res) THEN 0 ELSE d.fts[k]]
      /\ m.state = d.state
  BY <1>1, RemoveGraphTables DEF RemovedTables
<1> HIDE DEF m
<1>5. /\ i.resource = [m.resource EXCEPT ![b.res] = b.src]
      /\ i.rep = [p \in Reps |-> IF p \in b.reps THEN b.res ELSE m.rep[p]]
      /\ i.unit = [u \in Units |->
                     IF u \in UnitsOf(b)
                     THEN [res |-> b.res, rep |-> b.unit[u].rep, text |-> b.unit[u].text]
                     ELSE m.unit[u]]
      /\ i.space = [s \in Spaces |-> IF m.space[s] = None THEN b.space[s] ELSE m.space[s]]
      /\ i.vec = m.vec \cup b.vec
      /\ i.facet = m.facet \cup b.facets
      /\ i.tag = m.tag \cup ({b.res} \X b.facets)
      /\ i.fts = [k \in Units \X Texts |->
                     IF HasText(b.unit[k[1]]) /\ b.unit[k[1]].text = k[2]
                     THEN m.fts[k] + 1 ELSE m.fts[k]]
      /\ i.state = m.state
  BY InsertGraphTables
<1> HIDE DEF i
<1>6. /\ e.resource = i.resource /\ e.rep = i.rep /\ e.unit = i.unit
      /\ e.space = i.space /\ e.vec = i.vec /\ e.tag = i.tag
      /\ e.fts = i.fts /\ e.state = i.state
      /\ e.facet = {f \in i.facet : \E r \in Resources : <<r, f>> \in i.tag}
  BY <1>2, PruneFacetsTables
<1> HIDE DEF e
<1>7. e.resource = [d.resource EXCEPT ![b.res] = b.src]
  BY <1>4, <1>5, <1>6 DEF DatabaseType
<1>8. e.rep = [p \in Reps |-> IF p \in b.reps THEN b.res
                              ELSE IF d.rep[p] = b.res THEN None ELSE d.rep[p]]
  BY <1>4, <1>5, <1>6
<1>9. e.unit = [u \in Units |->
                  IF u \in UnitsOf(b)
                  THEN [res |-> b.res, rep |-> b.unit[u].rep, text |-> b.unit[u].text]
                  ELSE IF u \in OwnedUnits(d, b.res) THEN None ELSE d.unit[u]]
  BY <1>4, <1>5, <1>6
<1>10. e.fts = [k \in Units \X Texts |->
                  (IF k[1] \in OwnedUnits(d, b.res) THEN 0 ELSE d.fts[k])
                  + (IF HasText(b.unit[k[1]]) /\ b.unit[k[1]].text = k[2] THEN 1 ELSE 0)]
  <2>1. \A k \in Units \X Texts : d.fts[k] \in Nat
    BY DEF DatabaseType
  <2> QED
    BY <1>4, <1>5, <1>6, <2>1
<1> QED
  BY <1>3, <1>4, <1>5, <1>6, <1>7, <1>8, <1>9, <1>10 DEF WrittenTables

-----------------------------------------------------------------------------
(***************************************************************************)
(* Who owns which unit after a graph has been removed or replaced.  Unit   *)
(* ids are unique in the whole catalog, so writing one resource takes no   *)
(* unit from another.                                                      *)
(***************************************************************************)
LEMMA RemoveOwned ==
    ASSUME NEW d \in DatabaseType, NEW r \in Resources, NEW q \in Resources
    PROVE  OwnedUnits(RemoveGraph(d, r), q) = IF q = r THEN {} ELSE OwnedUnits(d, q)
<1>1. RemoveGraph(d, r).unit
        = [u \in Units |-> IF u \in OwnedUnits(d, r) THEN None ELSE d.unit[u]]
  BY RemoveGraphTables DEF RemovedTables
<1> QED
  BY <1>1 DEF OwnedUnits

LEMMA WriteOwned ==
    ASSUME NEW d \in DatabaseType, NEW b \in BatchType, KeysFree(RemoveGraph(d, b.res), b),
           NEW q \in Resources
    PROVE  OwnedUnits(WriteGraph(d, b), q) = IF q = b.res THEN UnitsOf(b) ELSE OwnedUnits(d, q)
<1>1. b.res \in Resources
  BY DEF BatchType
<1>2. RemoveGraph(d, b.res).unit
        = [u \in Units |-> IF u \in OwnedUnits(d, b.res) THEN None ELSE d.unit[u]]
  BY <1>1, RemoveGraphTables DEF RemovedTables
<1>3. \A u \in UnitsOf(b) : u \in OwnedUnits(d, b.res) \/ d.unit[u] = None
  BY <1>2 DEF KeysFree, UnitsOf
<1>4. WriteGraph(d, b).unit
        = [u \in Units |->
             IF u \in UnitsOf(b)
             THEN [res |-> b.res, rep |-> b.unit[u].rep, text |-> b.unit[u].text]
             ELSE IF u \in OwnedUnits(d, b.res) THEN None ELSE d.unit[u]]
  BY WriteGraphTables DEF WrittenTables
<1>5. \A u \in UnitsOf(b) : [res |-> b.res, rep |-> b.unit[u].rep, text |-> b.unit[u].text] # None
  <2>1. \A u \in UnitsOf(b) : b.unit[u] \in [rep : Reps, text : Texts]
    BY DEF UnitsOf, BatchType
  <2> QED
    BY <1>1, <2>1, NoneAssumption
<1> QED
  BY <1>3, <1>4, <1>5 DEF OwnedUnits, UnitsOf

-----------------------------------------------------------------------------
(***************************************************************************)
(* Two databases that agree on the rows of one resource store the same     *)
(* graph of it.                                                            *)
(***************************************************************************)
SameRows(d, e, q) ==
    /\ e.resource[q] = d.resource[q]
    /\ OwnedUnits(e, q) = OwnedUnits(d, q)
    /\ \A u \in OwnedUnits(d, q) : e.unit[u] = d.unit[u]
    /\ {v \in e.vec : v[1] \in OwnedUnits(d, q)} = {v \in d.vec : v[1] \in OwnedUnits(d, q)}
    /\ {p \in Reps : e.rep[p] = q} = {p \in Reps : d.rep[p] = q}
    /\ {f \in Facets : <<q, f>> \in e.tag} = {f \in Facets : <<q, f>> \in d.tag}
    /\ \A v \in d.vec : e.space[v[2]] = d.space[v[2]]

LEMMA SameGraph ==
    ASSUME NEW d, NEW e, NEW q, SameRows(d, e, q)
    PROVE  ReadGraph(e, q) = ReadGraph(d, q)
<1> USE DEF SameRows
<1> DEFINE o == OwnedUnits(d, q)
           w == {v \in d.vec : v[1] \in o}
<1>1. [u \in Units |-> IF u \in o THEN [rep |-> e.unit[u].rep, text |-> e.unit[u].text] ELSE None]
      = [u \in Units |-> IF u \in o THEN [rep |-> d.unit[u].rep, text |-> d.unit[u].text] ELSE None]
  <2> HIDE DEF o
  <2>1. \A u \in o : e.unit[u] = d.unit[u]
    BY DEF o
  <2> QED
    BY <2>1
<1>2. [s \in Spaces |-> IF \E v \in w : v[2] = s THEN e.space[s] ELSE None]
      = [s \in Spaces |-> IF \E v \in w : v[2] = s THEN d.space[s] ELSE None]
  <2>1. \A v \in w : e.space[v[2]] = d.space[v[2]]
    OBVIOUS
  <2> HIDE DEF w
  <2> QED
    BY <2>1
<1>3. {v \in e.vec : v[1] \in o} = w
  OBVIOUS
<1>4. CASE d.resource[q] = None
  BY <1>4 DEF ReadGraph
<1>5. CASE d.resource[q] # None
  <2> DEFINE g(units, spaces) == [res |-> q, src |-> d.resource[q], reps |-> {p \in Reps : d.rep[p] = q},
                                  unit |-> units, space |-> spaces, vec |-> w,
                                  facets |-> {f \in Facets : <<q, f>> \in d.tag}]
  <2>1. ReadGraph(e, q)
          = g([u \in Units |-> IF u \in o THEN [rep |-> e.unit[u].rep, text |-> e.unit[u].text] ELSE None],
              [s \in Spaces |-> IF \E v \in w : v[2] = s THEN e.space[s] ELSE None])
    BY <1>3, <1>5 DEF ReadGraph
  <2>2. ReadGraph(d, q)
          = g([u \in Units |-> IF u \in o THEN [rep |-> d.unit[u].rep, text |-> d.unit[u].text] ELSE None],
              [s \in Spaces |-> IF \E v \in w : v[2] = s THEN d.space[s] ELSE None])
    BY <1>5 DEF ReadGraph
  <2> QED
    BY <1>1, <1>2, <2>1, <2>2
<1> QED
  BY <1>4, <1>5

-----------------------------------------------------------------------------
(***************************************************************************)
(* The frame of a write: the stored graphs of the other resources are read *)
(* back unchanged.                                                         *)
(***************************************************************************)
LEMMA RemoveFrame ==
    ASSUME NEW d \in DatabaseType, NEW r \in Resources, NEW q \in Resources, q # r
    PROVE  ReadGraph(RemoveGraph(d, r), q) = ReadGraph(d, q)
<1> DEFINE e == RemoveGraph(d, r)
<1>0. RemovedTables(d, r, e)
  BY RemoveGraphTables
<1>2. OwnedUnits(e, q) = OwnedUnits(d, q)
  BY RemoveOwned
<1> HIDE DEF e
<1>1. e.resource[q] = d.resource[q]
  BY <1>0 DEF RemovedTables, DatabaseType
<1>3. \A u \in OwnedUnits(d, q) : u \in Units /\ u \notin OwnedUnits(d, r)
  BY DEF OwnedUnits
<1>4. \A u \in OwnedUnits(d, q) : e.unit[u] = d.unit[u]
  BY <1>0, <1>3 DEF RemovedTables
<1>5. {v \in e.vec : v[1] \in OwnedUnits(d, q)} = {v \in d.vec : v[1] \in OwnedUnits(d, q)}
  BY <1>0, <1>3 DEF RemovedTables
<1>6. {p \in Reps : e.rep[p] = q} = {p \in Reps : d.rep[p] = q}
  BY <1>0, NoneAssumption DEF RemovedTables, DatabaseType
<1>7. {f \in Facets : <<q, f>> \in e.tag} = {f \in Facets : <<q, f>> \in d.tag}
  BY <1>0 DEF RemovedTables
<1>8. e.space = d.space
  BY <1>0 DEF RemovedTables
<1>9. SameRows(d, e, q)
  BY <1>1, <1>2, <1>4, <1>5, <1>6, <1>7, <1>8 DEF SameRows
<1> QED
  BY <1>9, SameGraph DEF e

LEMMA RemoveOwn ==
    ASSUME NEW d \in DatabaseType, NEW r \in Resources
    PROVE  ReadGraph(RemoveGraph(d, r), r) = None
<1>1. RemoveGraph(d, r).resource = [d.resource EXCEPT ![r] = None]
  BY RemoveGraphTables DEF RemovedTables
<1>2. RemoveGraph(d, r).resource[r] = None
  BY <1>1 DEF DatabaseType
<1> QED
  BY <1>2 DEF ReadGraph

LEMMA WriteFrame ==
    ASSUME NEW d \in DatabaseType, NEW b \in BatchType, ValidBatch(b), WriteAllowed(d, b),
           ForeignKeysHold(d), NEW q \in Resources, q # b.res
    PROVE  ReadGraph(WriteGraph(d, b), q) = ReadGraph(d, q)
<1> DEFINE e == WriteGraph(d, b)
           m == RemoveGraph(d, b.res)
           o == OwnedUnits(d, q)
<1>0. b.res \in Resources /\ KeysFree(m, b)
  BY DEF BatchType, WriteAllowed
<1>a. WrittenTables(d, b, e)
  BY WriteGraphTables
<1>m. RemovedTables(d, b.res, m)
  BY <1>0, RemoveGraphTables
<1>2. OwnedUnits(e, q) = o
  BY <1>0, WriteOwned
<1>3. OwnedUnits(e, b.res) = UnitsOf(b)
  BY <1>0, WriteOwned
<1> HIDE DEF e, m
<1>1. e.resource[q] = d.resource[q]
  BY <1>0, <1>a DEF WrittenTables, DatabaseType
<1>4. \A u \in o : u \in Units /\ u \notin OwnedUnits(d, b.res) /\ u \notin UnitsOf(b)
  BY <1>2, <1>3 DEF OwnedUnits
<1>5. \A u \in o : e.unit[u] = d.unit[u]
  BY <1>4, <1>a DEF WrittenTables
<1>6. {v \in e.vec : v[1] \in o} = {v \in d.vec : v[1] \in o}
  <2>1. \A v \in b.vec : v[1] \in UnitsOf(b)
    BY DEF ValidBatch
  <2> HIDE DEF o
  <2> QED
    BY <1>4, <2>1, <1>a DEF WrittenTables
<1>7. {p \in Reps : e.rep[p] = q} = {p \in Reps : d.rep[p] = q}
  <2>1. \A p \in b.reps : p \in Reps /\ (d.rep[p] = None \/ d.rep[p] = b.res)
    <3>1. \A p \in b.reps : p \in Reps /\ m.rep[p] = None
      BY <1>0 DEF KeysFree, BatchType
    <3> QED
      BY <1>0, <3>1, <1>m DEF RemovedTables
  <2>2. None # q
    BY NoneAssumption
  <2>3. e.rep = [p \in Reps |-> IF p \in b.reps THEN b.res
                                ELSE IF d.rep[p] = b.res THEN None ELSE d.rep[p]]
    BY <1>a DEF WrittenTables
  <2> QED
    BY <2>1, <2>2, <2>3
<1>8. {f \in Facets : <<q, f>> \in e.tag} = {f \in Facets : <<q, f>> \in d.tag}
  BY <1>a DEF WrittenTables
<1>9. \A v \in d.vec : v[2] \in Spaces /\ e.space[v[2]] = d.space[v[2]]
  <2>1. \A v \in d.vec : v[2] \in Spaces /\ d.space[v[2]] # None
    BY DEF ForeignKeysHold, DatabaseType
  <2> QED
    BY <2>1, <1>a DEF WrittenTables
<1>10. SameRows(d, e, q)
  BY <1>1, <1>2, <1>5, <1>6, <1>7, <1>8, <1>9 DEF SameRows
<1> QED
  BY <1>10, SameGraph DEF e

(***************************************************************************)
(* What is written is what is read back: the batch, without the spaces no  *)
(* vector of it uses.                                                      *)
(***************************************************************************)
LEMMA WriteOwn ==
    ASSUME NEW d \in DatabaseType, NEW b \in BatchType, ValidBatch(b), WriteAllowed(d, b),
           ForeignKeysHold(d)
    PROVE  ReadGraph(WriteGraph(d, b), b.res) = StoredForm(b)
<1> DEFINE e == WriteGraph(d, b)
           m == RemoveGraph(d, b.res)
           r == b.res
<1>0. r \in Resources /\ b.src \in Sources /\ KeysFree(m, b) /\ CheckSpaces(d, b)
  BY DEF BatchType, WriteAllowed
<1>a. WrittenTables(d, b, e)
  BY WriteGraphTables
<1>m. RemovedTables(d, b.res, m)
  BY <1>0, RemoveGraphTables
<1>2. OwnedUnits(e, r) = UnitsOf(b)
  BY <1>0, WriteOwned
<1> HIDE DEF e, m
<1>1. e.resource[r] = b.src /\ b.src # None
  BY <1>0, <1>a, NoneAssumption DEF WrittenTables, DatabaseType
<1>3. [u \in Units |-> IF u \in UnitsOf(b) THEN [rep |-> e.unit[u].rep, text |-> e.unit[u].text] ELSE None]
      = b.unit
  <2>1. \A u \in Units : u \in UnitsOf(b) =>
             [rep |-> e.unit[u].rep, text |-> e.unit[u].text] = [rep |-> b.unit[u].rep, text |-> b.unit[u].text]
    BY <1>a DEF WrittenTables
  <2>2. \A u \in Units : u \in UnitsOf(b) => b.unit[u] = [rep |-> b.unit[u].rep, text |-> b.unit[u].text]
    BY DEF UnitsOf, BatchType
  <2>3. \A u \in Units : u \notin UnitsOf(b) => b.unit[u] = None
    BY DEF UnitsOf
  <2>4. b.unit = [u \in Units |-> b.unit[u]]
    BY DEF BatchType
  <2> QED
    BY <2>1, <2>2, <2>3, <2>4
<1>4. {v \in e.vec : v[1] \in UnitsOf(b)} = b.vec
  <2>1. \A v \in b.vec : v[1] \in UnitsOf(b)
    BY DEF ValidBatch
  <2>2. \A v \in d.vec : v[1] \in UnitsOf(b) => v[1] \in OwnedUnits(d, r)
    <3>1. \A v \in d.vec : v[1] \in Units /\ d.unit[v[1]] # None
      BY DEF ForeignKeysHold, DatabaseType
    <3>2. \A u \in UnitsOf(b) : u \in Units /\ m.unit[u] = None
      BY <1>0 DEF KeysFree, UnitsOf
    <3>3. \A u \in Units : u \notin OwnedUnits(d, r) => m.unit[u] = d.unit[u]
      BY <1>m DEF RemovedTables
    <3> QED
      BY <3>1, <3>2, <3>3
  <2> QED
    BY <2>1, <2>2, <1>a DEF WrittenTables
<1>5. {p \in Reps : e.rep[p] = r} = b.reps
  <2>1. b.reps \subseteq Reps /\ r # None
    BY <1>0, NoneAssumption DEF BatchType
  <2>2. e.rep = [p \in Reps |-> IF p \in b.reps THEN r
                                ELSE IF d.rep[p] = r THEN None ELSE d.rep[p]]
    BY <1>a DEF WrittenTables
  <2> HIDE DEF e, r
  <2> QED
    BY <2>1, <2>2
<1>6. {f \in Facets : <<r, f>> \in e.tag} = b.facets
  <2>1. b.facets \subseteq Facets
    BY DEF BatchType
  <2> QED
    BY <2>1, <1>a DEF WrittenTables
<1>7. \A v \in b.vec : v[2] \in Spaces /\ e.space[v[2]] = b.space[v[2]]
  <2>1. \A v \in b.vec : v[2] \in Spaces /\ b.space[v[2]] # None
    BY DEF ValidBatch, BatchType
  <2>2. \A s \in Spaces : b.space[s] # None => e.space[s] = b.space[s]
    BY <1>0, <1>a DEF WrittenTables, CheckSpaces
  <2> QED
    BY <2>1, <2>2
<1>8. [s \in Spaces |-> IF \E v \in b.vec : v[2] = s THEN e.space[s] ELSE None]
      = [s \in Spaces |-> IF \E v \in b.vec : v[2] = s THEN b.space[s] ELSE None]
  BY <1>7
<1>9. StoredForm(b) = [res |-> r, src |-> b.src, reps |-> b.reps, unit |-> b.unit,
                       space |-> [s \in Spaces |-> IF \E v \in b.vec : v[2] = s THEN b.space[s] ELSE None],
                       vec |-> b.vec, facets |-> b.facets]
  BY DEF StoredForm, BatchType
<1>10. ReadGraph(e, r)
         = [res |-> r, src |-> e.resource[r], reps |-> {p \in Reps : e.rep[p] = r},
            unit |-> [u \in Units |-> IF u \in UnitsOf(b)
                                      THEN [rep |-> e.unit[u].rep, text |-> e.unit[u].text] ELSE None],
            space |-> [s \in Spaces |-> IF \E v \in {v \in e.vec : v[1] \in UnitsOf(b)} : v[2] = s
                                        THEN e.space[s] ELSE None],
            vec |-> {v \in e.vec : v[1] \in UnitsOf(b)},
            facets |-> {f \in Facets : <<r, f>> \in e.tag}]
  BY <1>1, <1>2 DEF ReadGraph
<1>11. ReadGraph(e, r)
         = [res |-> r, src |-> b.src, reps |-> b.reps, unit |-> b.unit,
            space |-> [s \in Spaces |-> IF \E v \in b.vec : v[2] = s THEN e.space[s] ELSE None],
            vec |-> b.vec, facets |-> b.facets]
  BY <1>1, <1>3, <1>4, <1>5, <1>6, <1>10, Zenon
<1> QED
  BY <1>8, <1>9, <1>11 DEF e

-----------------------------------------------------------------------------
(***************************************************************************)
(* Foreign keys survive the removal and the replacement of a graph.        *)
(***************************************************************************)
LEMMA RemoveKeys ==
    ASSUME NEW d \in DatabaseType, NEW r \in Resources, ForeignKeysHold(d)
    PROVE  ForeignKeysHold(RemoveGraph(d, r))
<1> DEFINE e == RemoveGraph(d, r)
<1>0. RemovedTables(d, r, e)
  BY RemoveGraphTables
<1> HIDE DEF e
<1>1. \A q \in Resources : q # r => e.resource[q] = d.resource[q]
  BY <1>0 DEF RemovedTables, DatabaseType
<1>2. ASSUME NEW p \in Reps, e.rep[p] # None
      PROVE  e.resource[e.rep[p]] # None
  <2>1. d.rep[p] # r /\ e.rep[p] = d.rep[p]
    BY <1>0, <1>2 DEF RemovedTables
  <2>2. d.rep[p] \in Resources /\ d.resource[d.rep[p]] # None
    BY <1>2, <2>1 DEF ForeignKeysHold, DatabaseType
  <2> QED
    BY <1>1, <2>1, <2>2
<1>3. ASSUME NEW u \in Units, e.unit[u] # None
      PROVE  e.rep[e.unit[u].rep] = e.unit[u].res
  <2>1. u \notin OwnedUnits(d, r) /\ e.unit[u] = d.unit[u]
    BY <1>0, <1>3 DEF RemovedTables
  <2>2. d.unit[u] \in UnitRow /\ d.unit[u].res # r
    BY <1>3, <2>1 DEF OwnedUnits, DatabaseType
  <2>3. d.rep[d.unit[u].rep] = d.unit[u].res /\ d.unit[u].rep \in Reps
    BY <1>3, <2>1, <2>2 DEF ForeignKeysHold, UnitRow
  <2> QED
    BY <1>0, <2>1, <2>2, <2>3 DEF RemovedTables
<1>4. ASSUME NEW v \in e.vec
      PROVE  e.unit[v[1]] # None /\ e.space[v[2]] # None
  <2>1. v \in d.vec /\ v[1] \notin OwnedUnits(d, r)
    BY <1>0 DEF RemovedTables
  <2>2. v[1] \in Units /\ v[2] \in Spaces /\ d.unit[v[1]] # None /\ d.space[v[2]] # None
    BY <2>1 DEF ForeignKeysHold, DatabaseType
  <2> QED
    BY <1>0, <2>1, <2>2 DEF RemovedTables
<1>5. ASSUME NEW t \in e.tag
      PROVE  e.resource[t[1]] # None /\ t[2] \in e.facet
  <2>1. t \in d.tag /\ t[1] # r
    BY <1>0 DEF RemovedTables
  <2>2. t[1] \in Resources /\ d.resource[t[1]] # None /\ t[2] \in d.facet
    BY <2>1 DEF ForeignKeysHold, DatabaseType
  <2> QED
    BY <1>0, <1>1, <2>1, <2>2 DEF RemovedTables
<1>6. ForeignKeysHold(e)
  BY <1>2, <1>3, <1>4, <1>5 DEF ForeignKeysHold
<1> QED
  BY <1>6 DEF e

LEMMA PruneKeys ==
    ASSUME NEW d \in DatabaseType, ForeignKeysHold(d)
    PROVE  ForeignKeysHold(PruneFacets(d))
<1> DEFINE e == PruneFacets(d)
<1>0. /\ e.resource = d.resource /\ e.rep = d.rep /\ e.unit = d.unit
      /\ e.space = d.space /\ e.vec = d.vec /\ e.tag = d.tag
      /\ e.facet = {f \in d.facet : \E r \in Resources : <<r, f>> \in d.tag}
  BY PruneFacetsTables
<1> HIDE DEF e
<1>1. \A t \in d.tag : t[1] \in Resources /\ t = <<t[1], t[2]>>
  BY DEF DatabaseType
<1>2. \A t \in d.tag : t[2] \in d.facet
  BY DEF ForeignKeysHold
<1>3. \A t \in d.tag : t[2] \in e.facet
  BY <1>0, <1>1, <1>2
<1>4. ForeignKeysHold(e)
  BY <1>0, <1>3 DEF ForeignKeysHold
<1> QED
  BY <1>4 DEF e

LEMMA InsertKeys ==
    ASSUME NEW d \in DatabaseType, NEW b \in BatchType, ValidBatch(b), KeysFree(d, b),
           ForeignKeysHold(d)
    PROVE  ForeignKeysHold(InsertGraph(d, b))
<1> DEFINE e == InsertGraph(d, b)
<1>0. /\ e.resource = [d.resource EXCEPT ![b.res] = b.src]
      /\ e.rep = [p \in Reps |-> IF p \in b.reps THEN b.res ELSE d.rep[p]]
      /\ e.unit = [u \in Units |->
                     IF u \in UnitsOf(b)
                     THEN [res |-> b.res, rep |-> b.unit[u].rep, text |-> b.unit[u].text]
                     ELSE d.unit[u]]
      /\ e.space = [s \in Spaces |-> IF d.space[s] = None THEN b.space[s] ELSE d.space[s]]
      /\ e.vec = d.vec \cup b.vec
      /\ e.facet = d.facet \cup b.facets
      /\ e.tag = d.tag \cup ({b.res} \X b.facets)
  BY DEF InsertGraph
<1> HIDE DEF e
<1>b. /\ b.res \in Resources /\ b.src \in Sources /\ b.reps \subseteq Reps
      /\ b.vec \subseteq Units \X Spaces /\ b.src # None
  BY NoneAssumption DEF BatchType
<1>1. \A q \in Resources : d.resource[q] # None \/ q = b.res => e.resource[q] # None
  BY <1>0, <1>b DEF DatabaseType
<1>2. ASSUME NEW p \in Reps, e.rep[p] # None
      PROVE  e.resource[e.rep[p]] # None
  <2>1. CASE p \in b.reps
    BY <1>0, <1>1, <1>b, <2>1
  <2>2. CASE p \notin b.reps
    <3>1. e.rep[p] = d.rep[p] /\ d.rep[p] \in Resources
      BY <1>0, <1>2, <2>2 DEF DatabaseType
    <3> QED
      BY <1>1, <1>2, <3>1 DEF ForeignKeysHold
  <2> QED
    BY <2>1, <2>2
<1>3. ASSUME NEW u \in Units, e.unit[u] # None
      PROVE  e.rep[e.unit[u].rep] = e.unit[u].res
  <2>1. CASE u \in UnitsOf(b)
    <3>1. b.unit[u].rep \in b.reps
      BY <2>1 DEF ValidBatch
    <3>2. e.unit[u] = [res |-> b.res, rep |-> b.unit[u].rep, text |-> b.unit[u].text]
      BY <1>0, <2>1
    <3> QED
      BY <1>0, <1>b, <3>1, <3>2
  <2>2. CASE u \notin UnitsOf(b)
    <3>1. e.unit[u] = d.unit[u]
      BY <1>0, <2>2
    <3>2. d.unit[u].rep \in Reps /\ d.unit[u].res \in Resources
      BY <1>3, <3>1 DEF DatabaseType, UnitRow
    <3>3. d.rep[d.unit[u].rep] = d.unit[u].res
      BY <1>3, <3>1 DEF ForeignKeysHold
    <3>4. d.unit[u].rep \notin b.reps
      BY <3>2, <3>3, NoneAssumption DEF KeysFree
    <3> QED
      BY <1>0, <3>1, <3>2, <3>3, <3>4
  <2> QED
    BY <2>1, <2>2
<1>4. ASSUME NEW v \in e.vec
      PROVE  e.unit[v[1]] # None /\ e.space[v[2]] # None
  <2>1. CASE v \in b.vec
    <3>1. v[1] \in UnitsOf(b) /\ v[1] \in Units /\ v[2] \in Spaces /\ b.space[v[2]] # None
      BY <1>b, <2>1 DEF ValidBatch
    <3>2. b.unit[v[1]] \in [rep : Reps, text : Texts]
      BY <3>1 DEF UnitsOf, BatchType
    <3>3. e.unit[v[1]] \in UnitRow
      BY <1>0, <1>b, <3>1, <3>2 DEF UnitRow
    <3> QED
      BY <1>0, <3>1, <3>3, NoneAssumption DEF UnitRow
  <2>2. CASE v \in d.vec
    <3>1. v[1] \in Units /\ v[2] \in Spaces /\ d.unit[v[1]] # None /\ d.space[v[2]] # None
      BY <2>2 DEF ForeignKeysHold, DatabaseType
    <3>2. v[1] \notin UnitsOf(b)
      BY <3>1 DEF KeysFree
    <3> QED
      BY <1>0, <3>1, <3>2
  <2> QED
    BY <1>0, <2>1, <2>2
<1>5. ASSUME NEW t \in e.tag
      PROVE  e.resource[t[1]] # None /\ t[2] \in e.facet
  <2>1. CASE t \in d.tag
    <3>1. t[1] \in Resources /\ d.resource[t[1]] # None /\ t[2] \in d.facet
      BY <2>1 DEF ForeignKeysHold, DatabaseType
    <3> QED
      BY <1>0, <1>1, <3>1
  <2>2. CASE t \in {b.res} \X b.facets
    BY <1>0, <1>1, <1>b, <2>2
  <2> QED
    BY <1>0, <2>1, <2>2
<1>6. ForeignKeysHold(e)
  BY <1>2, <1>3, <1>4, <1>5 DEF ForeignKeysHold
<1> QED
  BY <1>6 DEF e

LEMMA WriteKeys ==
    ASSUME NEW d \in DatabaseType, NEW b \in BatchType, ValidBatch(b), WriteAllowed(d, b),
           ForeignKeysHold(d)
    PROVE  ForeignKeysHold(WriteGraph(d, b))
<1>1. b.res \in Resources /\ KeysFree(RemoveGraph(d, b.res), b)
  BY DEF BatchType, WriteAllowed
<1>2. RemoveGraph(d, b.res) \in DatabaseType /\ ForeignKeysHold(RemoveGraph(d, b.res))
  BY <1>1, RemoveGraphType, RemoveKeys
<1>3. /\ InsertGraph(RemoveGraph(d, b.res), b) \in DatabaseType
      /\ ForeignKeysHold(InsertGraph(RemoveGraph(d, b.res), b))
  BY <1>1, <1>2, InsertGraphType, InsertKeys
<1> QED
  BY <1>3, PruneKeys DEF WriteGraph

-----------------------------------------------------------------------------
(***************************************************************************)
(* The text index follows the units: every text once, nothing else.        *)
(***************************************************************************)
LEMMA RemoveIndex ==
    ASSUME NEW d \in DatabaseType, NEW r \in Resources, IndexExact(d)
    PROVE  IndexExact(RemoveGraph(d, r))
<1> DEFINE e == RemoveGraph(d, r)
<1>0. RemovedTables(d, r, e)
  BY RemoveGraphTables
<1> HIDE DEF e
<1>1. ASSUME NEW u \in Units, NEW t \in Texts
      PROVE  e.fts[<<u, t>>] = IF HasText(e.unit[u]) /\ e.unit[u].text = t THEN 1 ELSE 0
  <2>1. d.fts[<<u, t>>] = IF HasText(d.unit[u]) /\ d.unit[u].text = t THEN 1 ELSE 0
    BY DEF IndexExact
  <2>2. e.fts[<<u, t>>] = IF u \in OwnedUnits(d, r) THEN 0 ELSE d.fts[<<u, t>>]
    BY <1>0 DEF RemovedTables
  <2>3. e.unit[u] = IF u \in OwnedUnits(d, r) THEN None ELSE d.unit[u]
    BY <1>0 DEF RemovedTables
  <2> QED
    BY <2>1, <2>2, <2>3 DEF HasText
<1>2. IndexExact(e)
  BY <1>1 DEF IndexExact
<1> QED
  BY <1>2 DEF e

LEMMA WriteIndex ==
    ASSUME NEW d \in DatabaseType, NEW b \in BatchType, KeysFree(RemoveGraph(d, b.res), b),
           IndexExact(d)
    PROVE  IndexExact(WriteGraph(d, b))
<1> DEFINE e == WriteGraph(d, b)
           m == RemoveGraph(d, b.res)
<1>0. WrittenTables(d, b, e)
  BY WriteGraphTables
<1>m. b.res \in Resources /\ RemovedTables(d, b.res, m)
  BY RemoveGraphTables DEF BatchType
<1>k. KeysFree(m, b)
  OBVIOUS
<1> HIDE DEF e, m
<1>1. ASSUME NEW u \in Units, NEW t \in Texts
      PROVE  e.fts[<<u, t>>] = IF HasText(e.unit[u]) /\ e.unit[u].text = t THEN 1 ELSE 0
  <2>1. d.fts[<<u, t>>] = IF HasText(d.unit[u]) /\ d.unit[u].text = t THEN 1 ELSE 0
    BY DEF IndexExact
  <2>2. e.fts[<<u, t>>]
          = (IF u \in OwnedUnits(d, b.res) THEN 0 ELSE d.fts[<<u, t>>])
            + (IF HasText(b.unit[u]) /\ b.unit[u].text = t THEN 1 ELSE 0)
    BY <1>0 DEF WrittenTables
  <2>3. CASE u \in UnitsOf(b)
    <3>1. u \in OwnedUnits(d, b.res) \/ d.unit[u] = None
      BY <1>m, <1>k, <2>3 DEF KeysFree, RemovedTables
    <3>2. (IF u \in OwnedUnits(d, b.res) THEN 0 ELSE d.fts[<<u, t>>]) = 0
      BY <2>1, <3>1 DEF HasText
    <3>3. e.unit[u] = [res |-> b.res, rep |-> b.unit[u].rep, text |-> b.unit[u].text]
      BY <1>0, <2>3 DEF WrittenTables
    <3>4. e.unit[u] # None /\ b.unit[u] # None /\ e.unit[u].text = b.unit[u].text
      <4>1. b.unit[u] \in [rep : Reps, text : Texts]
        BY <2>3 DEF UnitsOf, BatchType
      <4> QED
        BY <1>m, <2>3, <3>3, <4>1, NoneAssumption DEF UnitsOf
    <3> QED
      BY <2>2, <3>2, <3>4 DEF HasText
  <2>4. CASE u \notin UnitsOf(b)
    <3>1. b.unit[u] = None
      BY <2>4 DEF UnitsOf
    <3>2. e.unit[u] = IF u \in OwnedUnits(d, b.res) THEN None ELSE d.unit[u]
      BY <1>0, <2>4 DEF WrittenTables
    <3> QED
      BY <2>1, <2>2, <3>1, <3>2 DEF HasText
  <2> QED
    BY <2>3, <2>4
<1>2. IndexExact(e)
  BY <1>1 DEF IndexExact
<1> QED
  BY <1>2 DEF e

-----------------------------------------------------------------------------
(***************************************************************************)
(* SQLiteCatalog.verify accepts the tables after each of the four kinds of *)
(* write, given that it accepted them before.  GraphIffPublished is the    *)
(* part that the state written last has to restore.                        *)
(***************************************************************************)
LEMMA StoredFormValid ==
    ASSUME NEW b \in BatchType, ValidBatch(b)
    PROVE  ValidBatch(StoredForm(b))
<1> DEFINE g == StoredForm(b)
<1>1. /\ g.reps = b.reps /\ g.unit = b.unit /\ g.vec = b.vec
      /\ g.space = [s \in Spaces |-> IF \E v \in b.vec : v[2] = s THEN b.space[s] ELSE None]
  BY DEF StoredForm, BatchType
<1> HIDE DEF g
<1>2. UnitsOf(g) = UnitsOf(b)
  BY <1>1 DEF UnitsOf
<1>3. \A v \in b.vec : v[2] \in Spaces /\ g.space[v[2]] = b.space[v[2]]
  BY <1>1 DEF BatchType
<1>4. ValidBatch(g)
  BY <1>1, <1>2, <1>3 DEF ValidBatch
<1> QED
  BY <1>4 DEF g

\* A change of facets, of the index or of the states does not touch a graph.
LEMMA GraphOfTables ==
    ASSUME NEW d, NEW e, NEW q,
           e.resource = d.resource, e.rep = d.rep, e.unit = d.unit, e.space = d.space,
           e.vec = d.vec, e.tag = d.tag
    PROVE  ReadGraph(e, q) = ReadGraph(d, q)
<1>1. OwnedUnits(e, q) = OwnedUnits(d, q)
  BY DEF OwnedUnits
<1>2. SameRows(d, e, q)
  BY <1>1 DEF SameRows
<1> QED
  BY <1>2, SameGraph

LEMMA IndexOfTables ==
    ASSUME NEW d, NEW e, e.unit = d.unit, e.fts = d.fts, IndexExact(d)
    PROVE  IndexExact(e)
BY DEF IndexExact

LEMMA KeysOfTables ==
    ASSUME NEW d, NEW e, e.resource = d.resource, e.rep = d.rep, e.unit = d.unit,
           e.space = d.space, e.vec = d.vec, e.tag = d.tag, e.facet = d.facet,
           ForeignKeysHold(d)
    PROVE  ForeignKeysHold(e)
BY DEF ForeignKeysHold

LEMMA PublishVerifies ==
    ASSUME NEW d \in DatabaseType, NEW b \in BatchType, ValidBatch(b), WriteAllowed(d, b),
           CatalogVerify(d), NEW n \in Nat
    PROVE  CatalogVerify([WriteGraph(d, b) EXCEPT
                            !.state = PutState(WriteGraph(d, b).state, b.res, "published", b.src, n)])
<1> DEFINE w == WriteGraph(d, b)
           st == PutState(w.state, b.res, "published", b.src, n)
           e == [w EXCEPT !.state = st]
<1>1. w \in DatabaseType /\ b.res \in Resources /\ KeysFree(RemoveGraph(d, b.res), b)
  BY WriteGraphType DEF BatchType, WriteAllowed
<1>2. ForeignKeysHold(w) /\ IndexExact(w)
  BY <1>1, WriteKeys, WriteIndex DEF CatalogVerify
<1>3. \A q \in Resources : q # b.res => ReadGraph(w, q) = ReadGraph(d, q)
  BY WriteFrame DEF CatalogVerify
<1>4. ReadGraph(w, b.res) = StoredForm(b)
  BY WriteOwn DEF CatalogVerify
<1>5. w.resource = [d.resource EXCEPT ![b.res] = b.src] /\ w.state = d.state
  BY WriteGraphTables DEF WrittenTables
<1> HIDE DEF w
<1>6. /\ e.resource = w.resource /\ e.rep = w.rep /\ e.unit = w.unit /\ e.space = w.space
      /\ e.vec = w.vec /\ e.tag = w.tag /\ e.facet = w.facet /\ e.fts = w.fts /\ e.state = st
  BY <1>1 DEF DatabaseType
<1> HIDE DEF e
<1>7. ForeignKeysHold(e) /\ IndexExact(e)
  BY <1>2, <1>6 DEF ForeignKeysHold, IndexExact
<1>8. \A q \in Resources : ReadGraph(e, q) = ReadGraph(w, q)
  BY <1>6, GraphOfTables
<1>9. ASSUME NEW q \in Resources, e.resource[q] # None
      PROVE  ValidBatch(ReadGraph(e, q))
  <2>1. CASE q = b.res
    BY <1>4, <1>8, <2>1, StoredFormValid
  <2>2. CASE q # b.res
    <3>1. d.resource[q] # None
      BY <1>5, <1>6, <1>9, <2>2 DEF DatabaseType
    <3> QED
      BY <1>3, <1>8, <2>2, <3>1 DEF CatalogVerify
  <2> QED
    BY <2>1, <2>2
<1>10. GraphIffPublished(e)
  <2>1. /\ st[b.res].status = "published" /\ st[b.res].src = b.src
        /\ \A q \in Resources : q # b.res => st[q] = d.state[q]
    BY <1>1, <1>5 DEF PutState, NextState, DatabaseType
  <2>2. /\ e.resource[b.res] = b.src /\ b.src # None
        /\ \A q \in Resources : q # b.res => e.resource[q] = d.resource[q]
    BY <1>1, <1>5, <1>6, NoneAssumption DEF DatabaseType, BatchType
  <2> HIDE DEF st
  <2> QED
    BY <1>6, <2>1, <2>2 DEF CatalogVerify, GraphIffPublished
<1>11. CatalogVerify(e)
  BY <1>7, <1>9, <1>10 DEF CatalogVerify
<1> QED
  BY <1>11 DEF e, w

LEMMA RemoveVerifies ==
    ASSUME NEW d \in DatabaseType, NEW r \in Resources, CatalogVerify(d),
           NEW st \in [Resources -> StateType], st[r].status # "published",
           \A q \in Resources : q # r => st[q] = d.state[q]
    PROVE  CatalogVerify(PruneFacets([RemoveGraph(d, r) EXCEPT !.state = st]))
<1> DEFINE w == RemoveGraph(d, r)
           x == [w EXCEPT !.state = st]
           y == PruneFacets(w)
           e == PruneFacets(x)
<1>1. w \in DatabaseType
  BY RemoveGraphType
<1>2. ForeignKeysHold(w) /\ IndexExact(w)
  BY RemoveKeys, RemoveIndex DEF CatalogVerify
<1>3. \A q \in Resources : q # r => ReadGraph(w, q) = ReadGraph(d, q)
  BY RemoveFrame
<1>4. w.resource = [d.resource EXCEPT ![r] = None] /\ w.state = d.state
  BY RemoveGraphTables DEF RemovedTables
<1> HIDE DEF w
<1>5. /\ e.resource = w.resource /\ e.rep = w.rep /\ e.unit = w.unit /\ e.space = w.space
      /\ e.vec = w.vec /\ e.tag = w.tag
  BY <1>1 DEF DatabaseType, PruneFacets
<1>b. e.fts = w.fts /\ e.state = st
  BY <1>1 DEF DatabaseType, PruneFacets
<1>c. e.facet = {f \in w.facet : \E q \in Resources : <<q, f>> \in w.tag}
  BY <1>1 DEF DatabaseType, PruneFacets
<1>a. ForeignKeysHold(y)
  BY <1>1, <1>2, PruneKeys
<1>6. /\ y.facet = {f \in w.facet : \E q \in Resources : <<q, f>> \in w.tag}
      /\ y.resource = w.resource /\ y.rep = w.rep /\ y.unit = w.unit /\ y.space = w.space
      /\ y.vec = w.vec /\ y.tag = w.tag
  BY <1>1 DEF PruneFacets, DatabaseType
<1> HIDE DEF e, y
<1>7. ForeignKeysHold(e)
  BY <1>5, <1>6, <1>a, <1>c, KeysOfTables
<1>8. IndexExact(e)
  BY <1>2, <1>5, <1>b, IndexOfTables
<1>9. \A q \in Resources : ReadGraph(e, q) = ReadGraph(w, q)
  BY <1>5, GraphOfTables
<1>10. ASSUME NEW q \in Resources, e.resource[q] # None
       PROVE  ValidBatch(ReadGraph(e, q))
  <2>1. q # r /\ d.resource[q] # None
    BY <1>4, <1>5, <1>10 DEF DatabaseType
  <2> QED
    BY <1>3, <1>9, <2>1 DEF CatalogVerify
<1>11. GraphIffPublished(e)
  <2>2. /\ e.resource[r] = None
        /\ \A q \in Resources : q # r => e.resource[q] = d.resource[q]
    BY <1>4, <1>5 DEF DatabaseType
  <2> QED
    BY <1>b, <2>2 DEF CatalogVerify, GraphIffPublished
<1>12. CatalogVerify(e)
  BY <1>7, <1>8, <1>10, <1>11 DEF CatalogVerify
<1> QED
  BY <1>12 DEF e, w

LEMMA RebuildVerifies ==
    ASSUME NEW d \in DatabaseType, CatalogVerify(d)
    PROVE  CatalogVerify(RebuildFts(d))
<1> DEFINE e == RebuildFts(d)
<1>1. /\ e.resource = d.resource /\ e.rep = d.rep /\ e.unit = d.unit /\ e.space = d.space
      /\ e.vec = d.vec /\ e.tag = d.tag /\ e.facet = d.facet /\ e.state = d.state
  BY DEF RebuildFts, DatabaseType
<1>2. e.fts = [k \in Units \X Texts |->
                 IF HasText(d.unit[k[1]]) /\ d.unit[k[1]].text = k[2] THEN 1 ELSE 0]
  BY DEF RebuildFts, DatabaseType
<1> HIDE DEF e
<1>3. ForeignKeysHold(e)
  BY <1>1 DEF CatalogVerify, ForeignKeysHold
<1>4. \A q \in Resources : ReadGraph(e, q) = ReadGraph(d, q)
  BY <1>1, GraphOfTables
<1>5. IndexExact(e)
  BY <1>1, <1>2 DEF IndexExact
<1>6. GraphIffPublished(e)
  BY <1>1 DEF CatalogVerify, GraphIffPublished
<1>7. CatalogVerify(e)
  BY <1>1, <1>3, <1>4, <1>5, <1>6 DEF CatalogVerify
<1> QED
  BY <1>7 DEF e

LEMMA EmptyVerifies == EmptyDatabase \in DatabaseType /\ CatalogVerify(EmptyDatabase)
<1>1. EmptyDatabase \in DatabaseType
  BY DEF EmptyDatabase, DatabaseType, NeverCreated, StateType, Statuses
<1>2. ForeignKeysHold(EmptyDatabase)
  BY DEF EmptyDatabase, ForeignKeysHold
<1>3. IndexExact(EmptyDatabase)
  BY DEF EmptyDatabase, IndexExact, HasText
<1>4. GraphIffPublished(EmptyDatabase)
  BY DEF EmptyDatabase, GraphIffPublished, NeverCreated
<1>5. \A r \in Resources : EmptyDatabase.resource[r] = None
  BY DEF EmptyDatabase
<1> QED
  BY <1>1, <1>2, <1>3, <1>4, <1>5 DEF CatalogVerify

-----------------------------------------------------------------------------
(***************************************************************************)
(* The transactions.                                                       *)
(***************************************************************************)

InTransaction == {"begun", "wrote", "ready"}

Calling == {"queued"} \cup InTransaction

CallOK(q) ==
    /\ q \in Request
    /\ q.op \in PublishOps =>
          q.batch \in Batches /\ ValidBatch(q.batch) /\ q.res = q.batch.res
    /\ q.op \in RemoveOps => q.res \in Resources
    /\ q.op \in ConditionalOps => q.base \in Snapshot /\ q.base.res = q.res

(***************************************************************************)
(* The four outcomes of a write call on tables d, n being the next token.  *)
(***************************************************************************)
Published(d, b, n) ==
    [WriteGraph(d, b) EXCEPT
        !.state = PutState(WriteGraph(d, b).state, b.res, "published", b.src, n)]

Removed(d, r, states) == PruneFacets([RemoveGraph(d, r) EXCEPT !.state = states])

RemovedStates(d, r, op, n) ==
    PutState(d.state, r, RemovedStatus(op), d.state[r].src, n)

Outcome(d, q, n, e) ==
    \/ /\ q.op \in PublishOps
       /\ WriteAllowed(d, q.batch)
       /\ PutAllowed(d.state, q.res, "published", q.batch.src)
       /\ e = Published(d, q.batch, n)
    \/ /\ q.op \in RemoveOps
       /\ IsLive(d.state[q.res])
       /\ PutAllowed(d.state, q.res, RemovedStatus(q.op), d.state[q.res].src)
       /\ e = Removed(d, q.res, RemovedStates(d, q.res, q.op, n))
    \/ /\ q.op \in RemoveOps
       /\ ~IsLive(d.state[q.res])
       /\ e = Removed(d, q.res, d.state)
    \/ /\ q.op = "rebuild_fts_index"
       /\ e = RebuildFts(d)

HalfWay(d, q, e) ==
    \/ /\ q.op \in PublishOps
       /\ WriteAllowed(d, q.batch)
       /\ e = WriteGraph(d, q.batch)
    \/ /\ q.op \in RemoveOps
       /\ e = RemoveGraph(d, q.res)

Stage(c) ==
    /\ pc[c] = "begun" => wdb = db
    /\ pc[c] = "wrote" => HalfWay(db, req[c], wdb)
    /\ pc[c] = "ready" => Outcome(db, req[c], minted + 1, wdb)
    /\ pc[c] \in {"wrote", "ready"} /\ req[c].op \in ConditionalOps =>
          db.state[req[c].res] = req[c].base.state

ClientInv(c) ==
    /\ pc[c] = "reading" => view[c] \in View
    /\ pc[c] \in Calling => CallOK(req[c])
    /\ lock = c <=> pc[c] \in InTransaction
    /\ Stage(c)

ControlInv == TypeOK /\ \A c \in Clients : ClientInv(c)

-----------------------------------------------------------------------------
LEMMA OutcomeType ==
    ASSUME NEW d \in DatabaseType, NEW q, CallOK(q), NEW n \in Nat, NEW e, Outcome(d, q, n, e)
    PROVE  e \in DatabaseType
<1>1. CASE q.op \in PublishOps /\ e = Published(d, q.batch, n)
  <2>1. q.batch \in BatchType
    BY <1>1, BatchAssumption DEF CallOK
  <2>2. q.batch.res \in Resources /\ q.batch.src \in Sources
    BY <2>1 DEF BatchType
  <2>3. WriteGraph(d, q.batch) \in DatabaseType
    BY <2>1, WriteGraphType
  <2> QED
    BY <1>1, <2>2, <2>3, PutStateType DEF Published, Statuses
<1>2. ASSUME NEW st \in [Resources -> StateType], NEW r \in Resources
      PROVE  Removed(d, r, st) \in DatabaseType
  <2>1. RemoveGraph(d, r) \in DatabaseType
    BY RemoveGraphType
  <2>2. [RemoveGraph(d, r) EXCEPT !.state = st] \in DatabaseType
    BY <2>1 DEF DatabaseType
  <2> QED
    BY <2>2, PruneFacetsType DEF Removed
<1>3. d.state \in [Resources -> StateType]
  BY DEF DatabaseType
<1>4. CASE q.op \in RemoveOps /\ e = Removed(d, q.res, d.state)
  BY <1>2, <1>3, <1>4 DEF CallOK
<1>5. CASE q.op \in RemoveOps /\ e = Removed(d, q.res, RemovedStates(d, q.res, q.op, n))
  <2>1. q.res \in Resources
    BY <1>5 DEF CallOK
  <2>2. RemovedStates(d, q.res, q.op, n) \in [Resources -> StateType]
    BY <1>3, <2>1 DEF RemovedStates, PutState, NextState, RemovedStatus, StateType, Statuses
  <2> QED
    BY <1>2, <1>5, <2>1, <2>2
<1>6. CASE e = RebuildFts(d)
  BY <1>6, RebuildFtsType
<1> QED
  BY <1>1, <1>4, <1>5, <1>6 DEF Outcome

LEMMA HalfWayType ==
    ASSUME NEW d \in DatabaseType, NEW q, CallOK(q), NEW e, HalfWay(d, q, e)
    PROVE  e \in DatabaseType
<1>1. CASE q.op \in PublishOps /\ e = WriteGraph(d, q.batch)
  <2>1. q.batch \in BatchType
    BY <1>1, BatchAssumption DEF CallOK
  <2> QED
    BY <1>1, <2>1, WriteGraphType
<1>2. CASE q.op \in RemoveOps /\ e = RemoveGraph(d, q.res)
  BY <1>2, RemoveGraphType DEF CallOK
<1> QED
  BY <1>1, <1>2 DEF HalfWay

\* The states are not touched before the state itself is written.
LEMMA HalfWayState ==
    ASSUME NEW d \in DatabaseType, NEW q, CallOK(q), NEW e, HalfWay(d, q, e)
    PROVE  e.state = d.state
<1>1. CASE q.op \in PublishOps /\ e = WriteGraph(d, q.batch)
  <2>1. q.batch \in BatchType
    BY <1>1, BatchAssumption DEF CallOK
  <2>2. WrittenTables(d, q.batch, e)
    BY <1>1, <2>1, WriteGraphTables
  <2> QED
    BY <2>2 DEF WrittenTables
<1>2. CASE q.op \in RemoveOps /\ e = RemoveGraph(d, q.res)
  <2>1. RemovedTables(d, q.res, e)
    BY <1>2, RemoveGraphTables DEF CallOK
  <2> QED
    BY <2>1 DEF RemovedTables
<1> QED
  BY <1>1, <1>2 DEF HalfWay

(***************************************************************************)
(* A step of one client leaves what the invariant says of the others.      *)
(***************************************************************************)
LEMMA OtherClient ==
    ASSUME ControlInv, NEW c \in Clients, NEW x \in Clients, x # c,
           pc'[x] = pc[x], view'[x] = view[x], req'[x] = req[x],
           \/ UNCHANGED <<db, wdb, minted, lock>>
           \/ lock \in {c, None} /\ lock' \in {c, None}
    PROVE  ClientInv(x)'
<1>1. ClientInv(x)
  BY DEF ControlInv
<1>2. CASE UNCHANGED <<db, wdb, minted, lock>>
  BY <1>1, <1>2 DEF ClientInv, Stage
<1>3. CASE lock \in {c, None} /\ lock' \in {c, None}
  <2>1. lock # x /\ lock' # x
    BY <1>3, ClientsAssumption
  <2>2. pc[x] \notin InTransaction
    BY <1>1, <2>1 DEF ClientInv
  <2> QED
    BY <1>1, <2>1, <2>2 DEF ClientInv, Stage, InTransaction
<1> QED
  BY <1>2, <1>3

-----------------------------------------------------------------------------
LEMMA ControlInit == Init => ControlInv
<1> SUFFICES ASSUME Init PROVE ControlInv
  OBVIOUS
<1>1. TypeOK
  BY EmptyVerifies DEF Init, TypeOK
<1>2. ASSUME NEW c \in Clients PROVE ClientInv(c)
  BY ClientsAssumption DEF Init, ClientInv, Stage, Calling, InTransaction
<1> QED
  BY <1>1, <1>2 DEF ControlInv

LEMMA ControlNext == ControlInv /\ [Next]_vars => ControlInv'
<1> SUFFICES ASSUME ControlInv, [Next]_vars PROVE ControlInv'
  OBVIOUS
<1>t. TypeOK
  BY DEF ControlInv
<1>u. CASE UNCHANGED vars
  BY <1>t, <1>u DEF vars, ControlInv, TypeOK, ClientInv, Stage
<1>s. ASSUME NEW c \in Clients, Start(c) \/ Step(c) \/ Crash(c)
      PROVE  ControlInv'
  <2>c. ClientInv(c)
    BY DEF ControlInv
  <2>d. db \in DatabaseType /\ wdb \in DatabaseType /\ minted \in Nat
    BY <1>t DEF TypeOK
  <2>p. pc \in [Clients -> {"idle", "reading", "queued", "begun", "wrote", "ready"}]
    BY <1>t DEF TypeOK
  <2>o. ASSUME TypeOK', ClientInv(c)',
               \A x \in Clients : x # c => pc'[x] = pc[x] /\ view'[x] = view[x] /\ req'[x] = req[x],
               UNCHANGED <<db, wdb, minted, lock>> \/ (lock \in {c, None} /\ lock' \in {c, None})
        PROVE  ControlInv'
    <3>1. \A x \in Clients : x # c => ClientInv(x)'
      BY <2>o, OtherClient
    <3> QED
      BY <2>o, <3>1 DEF ControlInv
  <2>1. ASSUME NEW r \in Resources, ReadSnapshotState(c, r) PROVE ControlInv'
    <3>1. [res |-> r, state |-> db.state[r], tables |-> db] \in View
      BY <2>d DEF View, DatabaseType
    <3>2. TypeOK'
      BY <1>t, <2>1, <3>1 DEF TypeOK, ReadSnapshotState
    <3>3. ClientInv(c)'
      BY <2>c, <2>p, <2>1, <3>1, <1>t DEF TypeOK, ClientInv, Stage, ReadSnapshotState, Calling, InTransaction
    <3> QED
      BY <1>t, <2>1, <2>o, <3>2, <3>3 DEF TypeOK, ReadSnapshotState
  <2>2. CASE ReadSnapshotGraph(c)
    <3>1. view[c] \in View
      BY <2>c, <2>2 DEF ClientInv, ReadSnapshotGraph
    <3>2. ReadGraph(view[c].tables, view[c].res) \in BatchType \cup {None}
      BY <3>1, ReadGraphType DEF View
    <3>3. [res |-> view[c].res, state |-> view[c].state,
           graph |-> ReadGraph(view[c].tables, view[c].res)] \in Snapshot
      BY <3>1, <3>2 DEF View, Snapshot
    <3>4. TypeOK'
      BY <1>t, <2>2, <3>3 DEF TypeOK, ReadSnapshotGraph
    <3>5. ClientInv(c)'
      BY <2>c, <2>p, <2>2, <1>t DEF TypeOK, ClientInv, Stage, ReadSnapshotGraph, Calling, InTransaction
    <3> QED
      BY <1>t, <2>2, <2>o, <3>4, <3>5 DEF TypeOK, ReadSnapshotGraph
  <2>3. ASSUME NEW op, NEW r, NEW b, NEW base, Call(c, op, r, b, base),
               CallOK([op |-> op, res |-> r, batch |-> b, base |-> base])
        PROVE  ControlInv'
    <3>1. req'[c] = [op |-> op, res |-> r, batch |-> b, base |-> base]
      BY <1>t, <2>3 DEF Call, TypeOK
    <3>2. TypeOK'
      BY <1>t, <2>3 DEF TypeOK, Call, CallOK
    <3>3. ClientInv(c)'
      BY <2>c, <2>p, <2>3, <3>1 DEF ClientInv, Stage, Call, Calling, InTransaction
    <3> QED
      BY <1>t, <2>3, <2>o, <3>2, <3>3 DEF TypeOK, Call
  <2>4. CASE CallReplace(c)
    <3>1. PICK b \in Batches : ValidBatch(b) /\ Call(c, "replace_resource", b.res, b, None)
      BY <2>4 DEF CallReplace
    <3>2. b.res \in Resources
      BY BatchAssumption DEF BatchType
    <3>3. CallOK([op |-> "replace_resource", res |-> b.res, batch |-> b, base |-> None])
      BY <3>1, <3>2 DEF CallOK, Request, PublishOps, RemoveOps, ConditionalOps
    <3> QED
      BY <2>3, <3>1, <3>3
  <2>5. CASE CallCompareAndPublish(c)
    <3>1. PICK b \in Batches : ValidBatch(b) /\ snap[c].res = b.res
                              /\ Call(c, "compare_and_publish", b.res, b, snap[c])
      BY <2>5 DEF CallCompareAndPublish
    <3>2. b.res \in Resources
      BY BatchAssumption DEF BatchType
    <3>3. snap[c] \in Snapshot
      BY <1>t, <2>5 DEF CallCompareAndPublish, TypeOK
    <3>4. CallOK([op |-> "compare_and_publish", res |-> b.res, batch |-> b, base |-> snap[c]])
      BY <3>1, <3>2, <3>3 DEF CallOK, Request, PublishOps, RemoveOps, ConditionalOps
    <3> QED
      BY <2>3, <3>1, <3>4
  <2>6. CASE CallRemoveIfCurrent(c)
    <3>1. PICK op \in {"withdraw_if_current", "delete_if_current"} :
                 Call(c, op, snap[c].res, None, snap[c])
      BY <2>6 DEF CallRemoveIfCurrent
    <3>2. snap[c] \in Snapshot /\ snap[c].res \in Resources
      BY <1>t, <2>6 DEF CallRemoveIfCurrent, TypeOK, Snapshot
    <3>3. CallOK([op |-> op, res |-> snap[c].res, batch |-> None, base |-> snap[c]])
      BY <3>1, <3>2 DEF CallOK, Request, PublishOps, RemoveOps, ConditionalOps
    <3> QED
      BY <2>3, <3>1, <3>3
  <2>7. CASE CallDelete(c)
    <3>1. PICK r \in Resources : Call(c, "delete_resource", r, None, None)
      BY <2>7 DEF CallDelete
    <3>2. CallOK([op |-> "delete_resource", res |-> r, batch |-> None, base |-> None])
      BY DEF CallOK, Request, PublishOps, RemoveOps, ConditionalOps
    <3> QED
      BY <2>3, <3>1, <3>2
  <2>8. CASE CallRebuild(c)
    <3>1. CallOK([op |-> "rebuild_fts_index", res |-> None, batch |-> None, base |-> None])
      BY DEF CallOK, Request, PublishOps, RemoveOps, ConditionalOps
    <3> QED
      BY <2>3, <2>8, <3>1 DEF CallRebuild
  <2>9. CASE Begin(c)
    <3>1. TypeOK'
      BY <1>t, <2>9 DEF TypeOK, Begin
    <3>2. ClientInv(c)'
      BY <2>c, <2>p, <2>9 DEF ClientInv, Stage, Begin, Calling, InTransaction
    <3> QED
      BY <1>t, <2>9, <2>o, <3>1, <3>2 DEF TypeOK, Begin
  <2>10. CASE Busy(c)
    <3>1. TypeOK'
      BY <1>t, <2>10 DEF TypeOK, Busy, Finish
    <3>2. ClientInv(c)'
      BY <2>c, <2>p, <2>10 DEF ClientInv, Stage, Busy, Finish, Calling, InTransaction
    <3> QED
      BY <1>t, <2>10, <2>o, <3>1, <3>2 DEF TypeOK, Busy, Finish
  <2>11. CASE Conflict(c) \/ Rollback(c)
    <3>1. lock = c
      BY <2>c, <2>11 DEF ClientInv, Conflict, Rollback, InTransaction
    <3>2. TypeOK'
      BY <1>t, <2>11 DEF TypeOK, Conflict, Rollback, Finish
    <3>3. ClientInv(c)'
      BY <2>c, <2>p, <2>11, ClientsAssumption
         DEF ClientInv, Stage, Conflict, Rollback, Finish, Calling, InTransaction
    <3> QED
      BY <1>t, <2>11, <2>o, <3>1, <3>2, <3>3 DEF TypeOK, Conflict, Rollback, Finish
  <2>12. CASE Crash(c)
    <3>1. TypeOK'
      BY <1>t, <2>12 DEF TypeOK, Crash, Finish
    <3>2. ClientInv(c)'
      BY <2>c, <2>p, <2>12, ClientsAssumption
         DEF ClientInv, Stage, Crash, Finish, Calling, InTransaction
    <3>3. UNCHANGED <<db, wdb, minted, lock>> \/ (lock \in {c, None} /\ lock' \in {c, None})
      BY <2>12 DEF Crash
    <3> QED
      BY <1>t, <2>12, <2>o, <3>1, <3>2, <3>3 DEF TypeOK, Crash, Finish
  <2>13. ASSUME NEW d \in DatabaseType, NEW to \in {"wrote", "ready"},
                pc[c] = "begun" \/ pc[c] = "wrote",
                Work(c, pc[c], to, d),
                to = "wrote" => HalfWay(db, req[c], d),
                to = "ready" => Outcome(db, req[c], minted + 1, d),
                req[c].op \in ConditionalOps => db.state[req[c].res] = req[c].base.state
         PROVE  ControlInv'
    <3>1. lock = c
      BY <2>c, <2>13 DEF ClientInv, InTransaction
    <3>2. TypeOK'
      BY <1>t, <2>13 DEF TypeOK, Work
    <3>3. ClientInv(c)'
      BY <2>c, <2>p, <2>13, <3>1 DEF ClientInv, Stage, Work, Calling, InTransaction
    <3> QED
      BY <1>t, <2>13, <2>o, <3>1, <3>2, <3>3 DEF TypeOK, Work
  <2>14. CASE DoWriteGraph(c)
    <3>1. wdb = db /\ CallOK(req[c]) /\ pc[c] = "begun"
      BY <2>c, <2>14 DEF ClientInv, Stage, DoWriteGraph, Calling, InTransaction
    <3>2. HalfWay(db, req[c], WriteGraph(db, req[c].batch))
      BY <2>14, <3>1 DEF HalfWay, DoWriteGraph
    <3>3. WriteGraph(db, req[c].batch) \in DatabaseType
      BY <2>d, <3>1, <3>2, HalfWayType
    <3> QED
      BY <2>13, <2>14, <3>1, <3>2, <3>3 DEF DoWriteGraph, Current
  <2>15. CASE DoRemoveGraph(c)
    <3>1. wdb = db /\ CallOK(req[c]) /\ pc[c] = "begun"
      BY <2>c, <2>15 DEF ClientInv, Stage, DoRemoveGraph, Calling, InTransaction
    <3>2. HalfWay(db, req[c], RemoveGraph(db, req[c].res))
      BY <2>15, <3>1 DEF HalfWay, DoRemoveGraph
    <3>3. RemoveGraph(db, req[c].res) \in DatabaseType
      BY <2>d, <3>1, <3>2, HalfWayType
    <3> QED
      BY <2>13, <2>15, <3>1, <3>2, <3>3 DEF DoRemoveGraph, Current
  <2>16. CASE DoRebuild(c)
    <3>1. wdb = db /\ CallOK(req[c]) /\ pc[c] = "begun"
      BY <2>c, <2>16 DEF ClientInv, Stage, DoRebuild, Calling, InTransaction
    <3>2. Outcome(db, req[c], minted + 1, RebuildFts(db))
      BY <2>16, <3>1 DEF Outcome, DoRebuild
    <3>3. RebuildFts(db) \in DatabaseType
      BY <2>d, RebuildFtsType
    <3>4. req[c].op \notin ConditionalOps
      BY <2>16 DEF DoRebuild, ConditionalOps
    <3> QED
      BY <2>13, <2>16, <3>1, <3>2, <3>3, <3>4 DEF DoRebuild
  <2>17. CASE DoPutPublished(c)
    <3>1. HalfWay(db, req[c], wdb) /\ CallOK(req[c]) /\ pc[c] = "wrote"
          /\ (req[c].op \in ConditionalOps => db.state[req[c].res] = req[c].base.state)
      BY <2>c, <2>17 DEF ClientInv, Stage, DoPutPublished, Calling, InTransaction
    <3>2. wdb.state = db.state
      BY <2>d, <3>1, HalfWayState
    <3>3. /\ req[c].op \in PublishOps /\ req[c].op \notin RemoveOps
          /\ req[c].res = req[c].batch.res
      BY <2>17, <3>1 DEF DoPutPublished, PublishOps, RemoveOps, CallOK
    <3>4. WriteAllowed(db, req[c].batch) /\ wdb = WriteGraph(db, req[c].batch)
      BY <3>1, <3>3 DEF HalfWay
    <3> DEFINE e == [wdb EXCEPT !.state = PutState(wdb.state, req[c].batch.res, "published",
                                                   req[c].batch.src, minted + 1)]
    <3>5. PutAllowed(db.state, req[c].res, "published", req[c].batch.src)
          /\ Work(c, "wrote", "ready", e)
      BY <2>17, <3>2, <3>3 DEF DoPutPublished
    <3>6. e = Published(db, req[c].batch, minted + 1)
      BY <3>4 DEF Published
    <3> HIDE DEF e
    <3>7. Outcome(db, req[c], minted + 1, e)
      BY <3>3, <3>4, <3>5, <3>6 DEF Outcome
    <3>8. e \in DatabaseType
      BY <2>d, <3>1, <3>7, OutcomeType
    <3> QED
      BY <2>13, <3>1, <3>5, <3>7, <3>8
  <2>18. CASE DoPutRemoved(c)
    <3>1. HalfWay(db, req[c], wdb) /\ CallOK(req[c]) /\ pc[c] = "wrote"
          /\ (req[c].op \in ConditionalOps => db.state[req[c].res] = req[c].base.state)
      BY <2>c, <2>18 DEF ClientInv, Stage, DoPutRemoved, Calling, InTransaction
    <3>2. wdb.state = db.state
      BY <2>d, <3>1, HalfWayState
    <3>3. req[c].op \in RemoveOps /\ req[c].op \notin PublishOps
      BY <2>18 DEF DoPutRemoved, PublishOps, RemoveOps
    <3>4. wdb = RemoveGraph(db, req[c].res)
      BY <3>1, <3>3 DEF HalfWay
    <3>5. ASSUME NEW e, Outcome(db, req[c], minted + 1, e), Work(c, "wrote", "ready", e)
          PROVE  ControlInv'
      <4>1. e \in DatabaseType
        BY <2>d, <3>1, <3>5, OutcomeType
      <4> QED
        BY <2>13, <3>1, <3>5, <4>1
    <3> DEFINE r == req[c].res
               to == RemovedStatus(req[c].op)
    <3>6. CASE IsLive(wdb.state[r])
      <4> DEFINE e == PruneFacets([wdb EXCEPT !.state = PutState(wdb.state, r, to, wdb.state[r].src, minted + 1)])
      <4>1. PutAllowed(wdb.state, r, to, wdb.state[r].src) /\ Work(c, "wrote", "ready", e)
        BY <2>18, <3>6 DEF DoPutRemoved
      <4>2. e = Removed(db, r, RemovedStates(db, r, req[c].op, minted + 1))
        BY <3>2, <3>4 DEF Removed, RemovedStates
      <4> HIDE DEF e
      <4>3. Outcome(db, req[c], minted + 1, e)
        BY <3>2, <3>3, <3>6, <4>1, <4>2 DEF Outcome
      <4> QED
        BY <3>5, <4>1, <4>3
    <3>7. CASE ~IsLive(wdb.state[r])
      <4>1. Work(c, "wrote", "ready", PruneFacets(wdb))
        BY <2>18, <3>7 DEF DoPutRemoved
      <4>2. [wdb EXCEPT !.state = db.state] = wdb
        BY <2>d, <3>2 DEF DatabaseType
      <4>3. PruneFacets(wdb) = Removed(db, r, db.state)
        BY <3>4, <4>2 DEF Removed
      <4>4. Outcome(db, req[c], minted + 1, PruneFacets(wdb))
        BY <3>2, <3>3, <3>7, <4>3 DEF Outcome
      <4> QED
        BY <3>5, <4>1, <4>4
    <3> QED
      BY <3>6, <3>7
  <2>19. CASE Commit(c)
    <3>1. lock = c
      BY <2>c, <2>19 DEF ClientInv, Commit, InTransaction
    <3>2. TypeOK'
      BY <1>t, <2>19 DEF TypeOK, Commit, Finish
    <3>3. ClientInv(c)'
      BY <2>c, <2>p, <2>19, ClientsAssumption
         DEF ClientInv, Stage, Commit, Finish, Calling, InTransaction
    <3> QED
      BY <1>t, <2>19, <2>o, <3>1, <3>2, <3>3 DEF TypeOK, Commit, Finish
  <2> QED
    BY <1>s, <2>1, <2>2, <2>4, <2>5, <2>6, <2>7, <2>8, <2>9, <2>10, <2>11, <2>12,
       <2>14, <2>15, <2>16, <2>17, <2>18, <2>19 DEF Start, Step
<1> QED
  BY <1>u, <1>s DEF Next

THEOREM ControlCorrect == Spec => []ControlInv
BY ControlInit, ControlNext, PTL DEF Spec

(***************************************************************************)
(* Type correctness of the store.                                          *)
(***************************************************************************)
THEOREM TypeCorrect == Spec => []TypeOK
<1>1. ControlInv => TypeOK
  BY DEF ControlInv
<1> QED
  BY <1>1, ControlCorrect, PTL

-----------------------------------------------------------------------------
(***************************************************************************)
(* What a commit does, seen from outside the tables: either no state and   *)
(* no graph changes, or one resource r is moved to a new state and graph.  *)
(***************************************************************************)
Moved(d, e, n, r, status, src) ==
    /\ PutAllowed(d.state, r, status, src)
    /\ e.state = PutState(d.state, r, status, src, n)
    /\ \A x \in Resources : x # r => ReadGraph(e, x) = ReadGraph(d, x)
    /\ \/ /\ status = "published"
          /\ src \in Sources
          /\ \E b \in Batches : ReadGraph(e, r) = StoredForm(b)
       \/ /\ status \in {"live_without_projections", "deleted"}
          /\ IsLive(d.state[r])
          /\ src = d.state[r].src
          /\ ReadGraph(e, r) = None

Unmoved(d, e) == e.state = d.state /\ \A x \in Resources : ReadGraph(e, x) = ReadGraph(d, x)

Effect(d, e, n) ==
    /\ CatalogVerify(e)
    /\ \A s \in Spaces : d.space[s] # None => e.space[s] = d.space[s]
    /\ Unmoved(d, e) \/ \E r \in Resources, status \in Statuses, src \in Sources \cup {None} :
                          Moved(d, e, n, r, status, src)

LEMMA PublishedEffect ==
    ASSUME NEW d \in DatabaseType, CatalogVerify(d), NEW n \in Nat, NEW b \in Batches,
           ValidBatch(b), WriteAllowed(d, b), PutAllowed(d.state, b.res, "published", b.src)
    PROVE  Effect(d, Published(d, b, n), n)
<1> DEFINE e == Published(d, b, n)
           w == WriteGraph(d, b)
<1>1. b \in BatchType
  BY BatchAssumption
<1>2. b.res \in Resources /\ b.src \in Sources
  BY <1>1 DEF BatchType
<1>3. CatalogVerify(e)
  BY <1>1, PublishVerifies DEF Published
<1>4. w \in DatabaseType /\ WrittenTables(d, b, w)
  BY <1>1, WriteGraphType, WriteGraphTables
<1>5. \A x \in Resources : x # b.res => ReadGraph(w, x) = ReadGraph(d, x)
  BY <1>1, WriteFrame DEF CatalogVerify
<1>6. ReadGraph(w, b.res) = StoredForm(b)
  BY <1>1, WriteOwn DEF CatalogVerify
<1>e. e = [w EXCEPT !.state = PutState(w.state, b.res, "published", b.src, n)]
  BY DEF Published
<1> HIDE DEF e, w
<1>7. w.state = d.state /\ \A s \in Spaces : d.space[s] # None => w.space[s] = d.space[s]
  BY <1>4 DEF WrittenTables
<1>8. /\ e.resource = w.resource /\ e.rep = w.rep /\ e.unit = w.unit /\ e.space = w.space
      /\ e.vec = w.vec /\ e.tag = w.tag
      /\ e.state = PutState(d.state, b.res, "published", b.src, n)
  BY <1>4, <1>7, <1>e DEF DatabaseType
<1>9. \A x \in Resources : ReadGraph(e, x) = ReadGraph(w, x)
  BY <1>8, GraphOfTables
<1>10. Moved(d, e, n, b.res, "published", b.src)
  BY <1>2, <1>5, <1>6, <1>8, <1>9 DEF Moved
<1>11. Effect(d, e, n)
  BY <1>2, <1>3, <1>7, <1>8, <1>10 DEF Effect, Statuses
<1> QED
  BY <1>11 DEF e

LEMMA RemovedEffect ==
    ASSUME NEW d \in DatabaseType, CatalogVerify(d), NEW r \in Resources,
           NEW st \in [Resources -> StateType], st[r].status # "published",
           \A q \in Resources : q # r => st[q] = d.state[q]
    PROVE  LET e == Removed(d, r, st)
           IN  /\ CatalogVerify(e)
               /\ e.space = d.space
               /\ e.state = st
               /\ \A x \in Resources : ReadGraph(e, x) = IF x = r THEN None ELSE ReadGraph(d, x)
<1> DEFINE e == Removed(d, r, st)
           w == RemoveGraph(d, r)
<1>1. CatalogVerify(e)
  BY RemoveVerifies DEF Removed
<1>2. w \in DatabaseType /\ RemovedTables(d, r, w)
  BY RemoveGraphType, RemoveGraphTables
<1>3. \A x \in Resources : ReadGraph(w, x) = IF x = r THEN None ELSE ReadGraph(d, x)
  BY RemoveFrame, RemoveOwn
<1>4. e = PruneFacets([w EXCEPT !.state = st])
  BY DEF Removed
<1> HIDE DEF e, w
<1>5. /\ e.resource = w.resource /\ e.rep = w.rep /\ e.unit = w.unit /\ e.space = w.space
      /\ e.vec = w.vec /\ e.tag = w.tag /\ e.state = st
  BY <1>2, <1>4 DEF PruneFacets, DatabaseType
<1>6. \A x \in Resources : ReadGraph(e, x) = ReadGraph(w, x)
  BY <1>5, GraphOfTables
<1>7. e.space = d.space
  BY <1>2, <1>5 DEF RemovedTables
<1>8. \A x \in Resources : ReadGraph(e, x) = IF x = r THEN None ELSE ReadGraph(d, x)
  BY <1>3, <1>6
<1> QED
  BY <1>1, <1>5, <1>7, <1>8 DEF e

LEMMA OutcomeEffect ==
    ASSUME NEW d \in DatabaseType, CatalogVerify(d), NEW q, CallOK(q), NEW n \in Nat, NEW e,
           Outcome(d, q, n, e)
    PROVE  Effect(d, e, n)
<1>1. CASE /\ q.op \in PublishOps
           /\ WriteAllowed(d, q.batch)
           /\ PutAllowed(d.state, q.res, "published", q.batch.src)
           /\ e = Published(d, q.batch, n)
  <2>1. q.batch \in Batches /\ ValidBatch(q.batch) /\ q.res = q.batch.res
    BY <1>1 DEF CallOK
  <2> QED
    BY <1>1, <2>1, PublishedEffect
<1>s. d.state \in [Resources -> StateType]
  BY DEF DatabaseType
<1>2. CASE /\ q.op \in RemoveOps
           /\ IsLive(d.state[q.res])
           /\ PutAllowed(d.state, q.res, RemovedStatus(q.op), d.state[q.res].src)
           /\ e = Removed(d, q.res, RemovedStates(d, q.res, q.op, n))
  <2> DEFINE r == q.res
             status == RemovedStatus(q.op)
             src == d.state[r].src
             st == RemovedStates(d, r, q.op, n)
  <2>1. r \in Resources /\ status \in {"live_without_projections", "deleted"}
    BY <1>2 DEF CallOK, RemovedStatus
  <2>2. src \in Sources \cup {None}
    BY <1>s, <2>1 DEF StateType
  <2>3. st = PutState(d.state, r, status, src, n)
    BY DEF RemovedStates
  <2> HIDE DEF status, src
  <2>4. /\ st \in [Resources -> StateType]
        /\ st[r].status # "published"
        /\ \A x \in Resources : x # r => st[x] = d.state[x]
    BY <1>s, <2>1, <2>2, <2>3 DEF PutState, NextState, StateType, Statuses
  <2>5. /\ CatalogVerify(e)
        /\ e.space = d.space
        /\ e.state = st
        /\ \A x \in Resources : ReadGraph(e, x) = IF x = r THEN None ELSE ReadGraph(d, x)
    BY <1>2, <2>1, <2>4, RemovedEffect
  <2>6. Moved(d, e, n, r, status, src)
    BY <1>2, <2>1, <2>3, <2>5 DEF Moved, status, src
  <2> QED
    BY <2>1, <2>2, <2>5, <2>6 DEF Effect, Statuses
<1>3. CASE /\ q.op \in RemoveOps
           /\ ~IsLive(d.state[q.res])
           /\ e = Removed(d, q.res, d.state)
  <2>1. q.res \in Resources /\ d.state[q.res].status # "published"
    BY <1>3 DEF CallOK, IsLive
  <2>2. /\ CatalogVerify(e)
        /\ e.space = d.space
        /\ e.state = d.state
        /\ \A x \in Resources : ReadGraph(e, x) = IF x = q.res THEN None ELSE ReadGraph(d, x)
    BY <1>3, <1>s, <2>1, RemovedEffect
  <2>3. ReadGraph(d, q.res) = None
    BY <2>1 DEF CatalogVerify, GraphIffPublished, ReadGraph
  <2> QED
    BY <2>2, <2>3 DEF Effect, Unmoved
<1>4. CASE e = RebuildFts(d)
  <2>1. CatalogVerify(e)
    BY <1>4, RebuildVerifies
  <2>2. /\ e.resource = d.resource /\ e.rep = d.rep /\ e.unit = d.unit /\ e.space = d.space
        /\ e.vec = d.vec /\ e.tag = d.tag /\ e.state = d.state
    BY <1>4 DEF RebuildFts, DatabaseType
  <2>3. \A x \in Resources : ReadGraph(e, x) = ReadGraph(d, x)
    BY <2>2, GraphOfTables
  <2> QED
    BY <2>1, <2>2, <2>3 DEF Effect, Unmoved
<1> QED
  BY <1>1, <1>2, <1>3, <1>4 DEF Outcome

-----------------------------------------------------------------------------
(***************************************************************************)
(* The invariant of the committed tables.  Tokens says that no state holds *)
(* a token or lifecycle that has not been issued, so the next one is new.  *)
(***************************************************************************)
Tokens ==
    \A r \in Resources : db.state[r].token \in 0 .. minted /\ db.state[r].life \in 0 .. minted

TablesInv == CatalogVerify(db) /\ Tokens /\ LiveSourceUnique

Committed(c) ==
    /\ pc[c] = "ready"
    /\ CallOK(req[c])
    /\ req[c].op \in ConditionalOps => db.state[req[c].res] = req[c].base.state
    /\ Effect(db, db', minted + 1)
    /\ minted' = IF db'.state = db.state THEN minted ELSE minted + 1
    /\ UNCHANGED <<view, snap>>
    /\ \A x \in Clients : x # c => pc'[x] = pc[x] /\ req'[x] = req[x]
    /\ pc'[c] = "idle"

\* Only a commit changes the tables, and it does what Effect says.
LEMMA OnlyCommits ==
    ASSUME ControlInv, CatalogVerify(db), [Next]_vars
    PROVE  UNCHANGED <<db, minted>> \/ \E c \in Clients : Committed(c)
<1>1. ASSUME NEW c \in Clients, Commit(c) PROVE Committed(c)
  <2>1. ClientInv(c) /\ TypeOK
    BY DEF ControlInv
  <2>2. /\ CallOK(req[c]) /\ Outcome(db, req[c], minted + 1, wdb)
        /\ req[c].op \in ConditionalOps => db.state[req[c].res] = req[c].base.state
    BY <1>1, <2>1 DEF ClientInv, Stage, Commit, Calling, InTransaction
  <2>3. db \in DatabaseType /\ minted + 1 \in Nat /\ db' = wdb
    BY <1>1, <2>1 DEF TypeOK, Commit
  <2>4. Effect(db, db', minted + 1)
    BY <2>2, <2>3, OutcomeEffect
  <2> QED
    BY <1>1, <2>1, <2>2, <2>3, <2>4 DEF Commit, Committed, Finish, TypeOK
<1>2. ASSUME NEW c \in Clients, Start(c) \/ Step(c) \/ Crash(c), ~Commit(c)
      PROVE  UNCHANGED <<db, minted>>
  BY <1>2 DEF Start, Step, Crash, ReadSnapshotState, ReadSnapshotGraph, CallReplace,
      CallCompareAndPublish, CallRemoveIfCurrent, CallDelete, CallRebuild, Call, Begin, Busy,
      Conflict, DoWriteGraph, DoPutPublished, DoRemoveGraph, DoPutRemoved, DoRebuild, Work,
      Rollback
<1> QED
  BY <1>1, <1>2 DEF Next, vars

LEMMA TablesInit == Init => TablesInv
BY EmptyVerifies DEF Init, TablesInv, Tokens, LiveSourceUnique, EmptyDatabase, NeverCreated, IsLive

LEMMA TablesNext == ControlInv /\ TablesInv /\ [Next]_vars => TablesInv'
<1> SUFFICES ASSUME ControlInv, TablesInv, [Next]_vars PROVE TablesInv'
  OBVIOUS
<1>1. CASE UNCHANGED <<db, minted>>
  BY <1>1 DEF TablesInv, Tokens, LiveSourceUnique
<1>2. ASSUME NEW c \in Clients, Committed(c) PROVE TablesInv'
  <2>1. /\ db.state \in [Resources -> StateType]
        /\ minted \in Nat
    BY DEF ControlInv, TypeOK, DatabaseType
  <2>2. CatalogVerify(db')
    BY <1>2 DEF Committed, Effect
  <2>3. CASE Unmoved(db, db')
    BY <1>2, <2>2, <2>3 DEF Committed, Unmoved, TablesInv, Tokens, LiveSourceUnique
  <2>4. ASSUME NEW r \in Resources, NEW status \in Statuses, NEW src \in Sources \cup {None},
               Moved(db, db', minted + 1, r, status, src)
        PROVE  TablesInv'
    <3>1. /\ db'.state[r].token = minted + 1 /\ db'.state[r].src = src
          /\ db'.state[r].status = status
          /\ db'.state[r].life = IF IsLive(db.state[r]) THEN db.state[r].life ELSE minted + 1
          /\ \A x \in Resources : x # r => db'.state[x] = db.state[x]
      BY <2>1, <2>4 DEF Moved, PutState, NextState
    <3>2. db'.state # db.state
      BY <2>1, <3>1 DEF TablesInv, Tokens
    <3>3. minted' = minted + 1
      BY <1>2, <3>2 DEF Committed
    <3>4. Tokens'
      BY <2>1, <3>1, <3>3 DEF TablesInv, Tokens
    <3>5. \A q \in Resources : q # r /\ IsLive(db'.state[q]) /\ IsLive(db'.state[r]) =>
                               db'.state[q].src # db'.state[r].src
      BY <2>4, <3>1 DEF Moved, PutAllowed, LiveSourceFree, IsLive
    <3>6. LiveSourceUnique'
      BY <3>1, <3>5 DEF TablesInv, LiveSourceUnique
    <3> QED
      BY <2>2, <3>4, <3>6 DEF TablesInv
  <2> QED
    BY <1>2, <2>3, <2>4 DEF Committed, Effect
<1> QED
  BY <1>1, <1>2, OnlyCommits DEF TablesInv

LEMMA TablesCorrect == Spec => [](ControlInv /\ TablesInv)
BY ControlInit, ControlNext, TablesInit, TablesNext, PTL DEF Spec

(***************************************************************************)
(* Every commit of every client leaves tables that SQLiteCatalog.verify    *)
(* accepts.                                                                *)
(***************************************************************************)
THEOREM StoreVerifies == Spec => []CatalogVerifies
<1>1. TablesInv => CatalogVerifies
  BY DEF TablesInv, CatalogVerifies
<1> QED
  BY <1>1, TablesCorrect, PTL

(***************************************************************************)
(* No source is ever bound to two live resources.                          *)
(***************************************************************************)
THEOREM StoreLiveSourceUnique == Spec => []LiveSourceUnique
<1>1. TablesInv => LiveSourceUnique
  BY DEF TablesInv
<1> QED
  BY <1>1, TablesCorrect, PTL

(***************************************************************************)
(* A space id keeps its meaning for ever.                                  *)
(***************************************************************************)
THEOREM StoreSpaceIdentityFixed == Spec => SpaceIdentityFixed
<1>1. ControlInv /\ TablesInv /\ [Next]_vars =>
        [KeepsSpaces]_vars
  BY OnlyCommits DEF TablesInv, Committed, Effect, KeepsSpaces
<1> QED
  BY <1>1, TablesCorrect, PTL DEF Spec, SpaceIdentityFixed

(***************************************************************************)
(* Graphs change only with their tokens, live bindings stay, and a         *)
(* lifecycle that has ended does not come back.                            *)
(***************************************************************************)
THEOREM StoreLifecycleDiscipline == Spec => LifecycleDiscipline
<1>1. ASSUME ControlInv, TablesInv, [Next]_vars PROVE KeepsLifecycles
  <2>1. CASE UNCHANGED <<db, minted>>
    BY <2>1 DEF KeepsLifecycles
  <2>2. ASSUME NEW c \in Clients, Committed(c) PROVE KeepsLifecycles
    <3>0. db.state \in [Resources -> StateType] /\ minted \in Nat
      BY <1>1 DEF ControlInv, TypeOK, DatabaseType
    <3>1. CASE Unmoved(db, db')
      BY <3>1 DEF Unmoved, KeepsLifecycles
    <3>2. ASSUME NEW r \in Resources, NEW status \in Statuses, NEW src \in Sources \cup {None},
                 Moved(db, db', minted + 1, r, status, src)
          PROVE  KeepsLifecycles
      <4>1. /\ db'.state[r] = NextState(db.state[r], status, src, minted + 1)
            /\ \A x \in Resources : x # r => db'.state[x] = db.state[x] /\ ReadGraph(db', x) = ReadGraph(db, x)
        BY <3>0, <3>2 DEF Moved, PutState
      <4>2. db.state[r].token <= minted /\ db.state[r].life <= minted
            /\ db.state[r].token \in Nat /\ db.state[r].life \in Nat
        BY <1>1, <3>0 DEF TablesInv, Tokens
      <4>3. IsLive(db.state[r]) => src = db.state[r].src
        BY <3>2 DEF Moved, PutAllowed
      <4>4. ~IsLive(db.state[r]) => status = "published"
        BY <3>2 DEF Moved
      <4> QED
        BY <3>0, <4>1, <4>2, <4>3, <4>4 DEF NextState, KeepsLifecycles
    <3> QED
      BY <2>2, <3>1, <3>2 DEF Committed, Effect
  <2> QED
    BY <1>1, <2>1, <2>2, OnlyCommits DEF TablesInv
<1>2. ControlInv /\ TablesInv /\ [Next]_vars => [KeepsLifecycles]_vars
  BY <1>1
<1> QED
  BY <1>2, TablesCorrect, PTL DEF Spec, LifecycleDiscipline

-----------------------------------------------------------------------------
(***************************************************************************)
(* The authority of tokens.  A snapshot carries a token that has already   *)
(* been issued; a commit that moves its resource issues a later one, so    *)
(* the catalog never shows the snapshot's state with another graph.        *)
(***************************************************************************)
Authentic(s) ==
    /\ s.state.token \in 0 .. minted
    /\ db.state[s.res] = s.state => ReadGraph(db, s.res) = s.graph

ViewSnapshot(v) == [res |-> v.res, state |-> v.state, graph |-> ReadGraph(v.tables, v.res)]

AuthorityInv ==
    \A c \in Clients :
        /\ snap[c] # None => Authentic(snap[c])
        /\ pc[c] = "reading" => Authentic(ViewSnapshot(view[c]))
        /\ pc[c] \in Calling /\ req[c].op \in ConditionalOps => Authentic(req[c].base)

LEMMA AuthenticNext ==
    ASSUME ControlInv, TablesInv, [Next]_vars, NEW s, s.res \in Resources, Authentic(s)
    PROVE  Authentic(s)'
<1>0. db.state \in [Resources -> StateType] /\ minted \in Nat
  BY DEF ControlInv, TypeOK, DatabaseType
<1>1. CASE UNCHANGED <<db, minted>>
  BY <1>1 DEF Authentic
<1>2. ASSUME NEW c \in Clients, Committed(c) PROVE Authentic(s)'
  <2>1. CASE Unmoved(db, db')
    BY <1>2, <2>1 DEF Authentic, Unmoved, Committed
  <2>2. ASSUME NEW r \in Resources, NEW status \in Statuses, NEW src \in Sources \cup {None},
               Moved(db, db', minted + 1, r, status, src)
        PROVE  Authentic(s)'
    <3>1. /\ db'.state[r].token = minted + 1
          /\ \A x \in Resources : x # r => db'.state[x] = db.state[x] /\ ReadGraph(db', x) = ReadGraph(db, x)
      BY <1>0, <2>2 DEF Moved, PutState, NextState
    <3>2. minted' \in {minted, minted + 1}
      BY <1>2 DEF Committed
    <3> QED
      BY <1>0, <3>1, <3>2 DEF Authentic
  <2> QED
    BY <1>2, <2>1, <2>2 DEF Committed, Effect
<1> QED
  BY <1>1, <1>2, OnlyCommits DEF TablesInv

LEMMA AuthorityInit == Init => AuthorityInv
BY DEF Init, AuthorityInv, Calling, InTransaction

LEMMA AuthorityNext == ControlInv /\ TablesInv /\ AuthorityInv /\ [Next]_vars => AuthorityInv'
<1> SUFFICES ASSUME ControlInv, TablesInv, AuthorityInv, [Next]_vars,
                    NEW x \in Clients
             PROVE  /\ snap'[x] # None => Authentic(snap[x])'
                    /\ pc'[x] = "reading" => Authentic(ViewSnapshot(view[x]))'
                    /\ pc'[x] \in Calling /\ req'[x].op \in ConditionalOps => Authentic(req[x].base)'
  BY DEF AuthorityInv
<1>t. TypeOK /\ ClientInv(x)
  BY DEF ControlInv
<1>d. db.state \in [Resources -> StateType] /\ minted \in Nat
  BY <1>t DEF TypeOK, DatabaseType
<1>n. ASSUME NEW s, s.res \in Resources, Authentic(s) PROVE Authentic(s)'
  BY <1>n, AuthenticNext
<1>1. snap[x] # None => snap[x].res \in Resources /\ Authentic(snap[x])
  BY <1>t DEF TypeOK, Snapshot, AuthorityInv
<1>2. pc[x] = "reading" => /\ ViewSnapshot(view[x]).res \in Resources
                           /\ Authentic(ViewSnapshot(view[x]))
  BY <1>t DEF ClientInv, View, ViewSnapshot, AuthorityInv
<1>3. pc[x] \in Calling /\ req[x].op \in ConditionalOps =>
          req[x].base.res \in Resources /\ Authentic(req[x].base)
  BY <1>t DEF ClientInv, CallOK, Snapshot, AuthorityInv
<1>4. CASE /\ snap'[x] \in {snap[x], None}
           /\ pc'[x] = "reading" => pc[x] = "reading" /\ view'[x] = view[x]
           /\ pc'[x] \in Calling => pc[x] \in Calling /\ req'[x] = req[x]
  <2>1. snap'[x] # None => Authentic(snap[x])'
    <3>1. ASSUME snap'[x] # None PROVE snap'[x] = snap[x] /\ Authentic(snap[x])
      BY <1>1, <1>4, <3>1
    <3> QED
      BY <1>1, <1>n, <3>1 DEF Authentic
  <2>2. pc'[x] = "reading" => Authentic(ViewSnapshot(view[x]))'
    BY <1>2, <1>4, <1>n DEF Authentic, ViewSnapshot
  <2>3. pc'[x] \in Calling /\ req'[x].op \in ConditionalOps => Authentic(req[x].base)'
    BY <1>3, <1>4, <1>n DEF Authentic
  <2> QED
    BY <2>1, <2>2, <2>3
<1>5. ASSUME NEW r \in Resources, ReadSnapshotState(x, r) PROVE
             /\ snap'[x] # None => Authentic(snap[x])'
             /\ pc'[x] = "reading" => Authentic(ViewSnapshot(view[x]))'
             /\ pc'[x] \in Calling /\ req'[x].op \in ConditionalOps => Authentic(req[x].base)'
  <2>1. view'[x] = [res |-> r, state |-> db.state[r], tables |-> db] /\ UNCHANGED <<db, minted, snap>>
        /\ pc'[x] = "reading"
    BY <1>5, <1>t DEF ReadSnapshotState, TypeOK
  <2>2. db.state[r].token \in 0 .. minted
    BY DEF TablesInv, Tokens
  <2>3. Authentic(ViewSnapshot(view[x]))'
    BY <2>1, <2>2 DEF Authentic, ViewSnapshot
  <2>4. snap'[x] # None => Authentic(snap[x])'
    BY <1>1, <2>1 DEF Authentic
  <2>5. pc'[x] \notin Calling
    BY <2>1 DEF Calling, InTransaction
  <2> QED
    BY <2>3, <2>4, <2>5
<1>6. CASE ReadSnapshotGraph(x)
  <2>1. snap'[x] = ViewSnapshot(view[x]) /\ UNCHANGED <<db, minted>> /\ pc'[x] = "idle" /\ pc[x] = "reading"
    BY <1>6, <1>t DEF ReadSnapshotGraph, TypeOK, ViewSnapshot
  <2>2. Authentic(snap[x])'
    BY <1>2, <2>1 DEF Authentic
  <2>3. pc'[x] \notin Calling /\ pc'[x] # "reading"
    BY <2>1 DEF Calling, InTransaction
  <2> QED
    BY <2>2, <2>3
<1>7. ASSUME NEW op, NEW r, NEW b, NEW base, Call(x, op, r, b, base),
             op \in ConditionalOps => base = snap[x] /\ snap[x] # None
      PROVE  /\ snap'[x] # None => Authentic(snap[x])'
             /\ pc'[x] = "reading" => Authentic(ViewSnapshot(view[x]))'
             /\ pc'[x] \in Calling /\ req'[x].op \in ConditionalOps => Authentic(req[x].base)'
  <2>1. req'[x] = [op |-> op, res |-> r, batch |-> b, base |-> base] /\ UNCHANGED <<db, minted, snap>>
        /\ pc'[x] = "queued"
    BY <1>7, <1>t DEF Call, TypeOK
  <2>2. op \in ConditionalOps => Authentic(base)
    BY <1>1, <1>7
  <2>3. req'[x].op \in ConditionalOps => Authentic(req[x].base)'
    BY <2>1, <2>2 DEF Authentic
  <2>4. snap'[x] # None => Authentic(snap[x])'
    BY <1>1, <2>1 DEF Authentic
  <2> QED
    BY <2>1, <2>3, <2>4
<1>8. CASE CallReplace(x) \/ CallCompareAndPublish(x) \/ CallRemoveIfCurrent(x) \/ CallDelete(x) \/ CallRebuild(x)
  <2>1. CASE CallReplace(x)
    BY <1>7, <2>1 DEF CallReplace, ConditionalOps
  <2>2. CASE CallCompareAndPublish(x)
    BY <1>7, <2>2 DEF CallCompareAndPublish, ConditionalOps
  <2>3. CASE CallRemoveIfCurrent(x)
    BY <1>7, <2>3 DEF CallRemoveIfCurrent, ConditionalOps
  <2>4. CASE CallDelete(x)
    BY <1>7, <2>4 DEF CallDelete, ConditionalOps
  <2>5. CASE CallRebuild(x)
    BY <1>7, <2>5 DEF CallRebuild, ConditionalOps
  <2> QED
    BY <1>8, <2>1, <2>2, <2>3, <2>4, <2>5
<1>9. CASE \/ Begin(x) \/ Busy(x) \/ Conflict(x) \/ DoWriteGraph(x) \/ DoPutPublished(x)
           \/ DoRemoveGraph(x) \/ DoPutRemoved(x) \/ DoRebuild(x) \/ Commit(x) \/ Rollback(x)
           \/ Crash(x)
  <2>1. /\ snap'[x] \in {snap[x], None}
        /\ pc'[x] = "reading" => pc[x] = "reading" /\ view'[x] = view[x]
        /\ pc'[x] \in Calling => pc[x] \in Calling /\ req'[x] = req[x]
    BY <1>9, <1>t DEF TypeOK, Begin, Busy, Conflict, DoWriteGraph, DoPutPublished, DoRemoveGraph,
       DoPutRemoved, DoRebuild, Work, Commit, Rollback, Crash, Finish, Calling, InTransaction
  <2> QED
    BY <1>4, <2>1
<1>10. ASSUME NEW c \in Clients, c # x, Start(c) \/ Step(c) \/ Crash(c)
       PROVE  snap'[x] = snap[x] /\ pc'[x] = pc[x] /\ view'[x] = view[x] /\ req'[x] = req[x]
  BY <1>10, <1>t DEF TypeOK, Start, Step, Crash, ReadSnapshotState, ReadSnapshotGraph, CallReplace,
      CallCompareAndPublish, CallRemoveIfCurrent, CallDelete, CallRebuild, Call, Begin, Busy,
      Conflict, DoWriteGraph, DoPutPublished, DoRemoveGraph, DoPutRemoved, DoRebuild, Work,
      Rollback, Commit, Finish
<1>11. CASE UNCHANGED vars
  BY <1>4, <1>11 DEF vars
<1> QED
  BY <1>4, <1>5, <1>6, <1>8, <1>9, <1>10, <1>11 DEF Next, Start, Step

(***************************************************************************)
(* Two snapshots of one state agree, because each was authentic when the   *)
(* later of the two was taken from the tables.                             *)
(***************************************************************************)
Agree(s, t) == s.res = t.res /\ s.state = t.state => s.graph = t.graph

AgreeInv ==
    \A c, x \in Clients :
        /\ snap[c] # None /\ snap[x] # None => Agree(snap[c], snap[x])
        /\ snap[c] # None /\ pc[x] = "reading" => Agree(snap[c], ViewSnapshot(view[x]))
        /\ pc[c] = "reading" /\ pc[x] = "reading" => Agree(ViewSnapshot(view[c]), ViewSnapshot(view[x]))

LEMMA AgreeInit == Init => AgreeInv
BY DEF Init, AgreeInv

LEMMA AgreeNext == ControlInv /\ AuthorityInv /\ AgreeInv /\ [Next]_vars => AgreeInv'
<1> SUFFICES ASSUME ControlInv, AuthorityInv, AgreeInv, [Next]_vars PROVE AgreeInv'
  OBVIOUS
<1>t. TypeOK
  BY DEF ControlInv
<1>1. CASE \A x \in Clients : /\ snap'[x] \in {snap[x], None}
                              /\ pc'[x] = "reading" => pc[x] = "reading" /\ view'[x] = view[x]
  <2>1. \A x \in Clients : snap'[x] # None => snap[x] # None /\ snap'[x] = snap[x]
    BY <1>1
  <2> QED
    BY <1>1, <2>1 DEF AgreeInv, Agree, ViewSnapshot
<1>2. ASSUME NEW k \in Clients, NEW r \in Resources, ReadSnapshotState(k, r) PROVE AgreeInv'
  <2>1. /\ view'[k] = [res |-> r, state |-> db.state[r], tables |-> db]
        /\ snap' = snap /\ pc'[k] = "reading"
        /\ \A x \in Clients : x # k => view'[x] = view[x] /\ pc'[x] = pc[x]
    BY <1>2, <1>t DEF ReadSnapshotState, TypeOK
  <2>2. ASSUME NEW s, Authentic(s)
        PROVE  Agree(s, ViewSnapshot(view'[k])) /\ Agree(ViewSnapshot(view'[k]), s)
    BY <2>1, <2>2 DEF Agree, Authentic, ViewSnapshot
  <2>3. \A x \in Clients : snap[x] # None => Authentic(snap[x])
    BY DEF AuthorityInv
  <2>4. \A x \in Clients : pc[x] = "reading" => Authentic(ViewSnapshot(view[x]))
    BY DEF AuthorityInv
  <2>5. Agree(ViewSnapshot(view'[k]), ViewSnapshot(view'[k]))
    BY DEF Agree
  <2> SUFFICES ASSUME NEW c \in Clients, NEW x \in Clients
               PROVE  /\ snap[c] # None /\ snap[x] # None => Agree(snap[c], snap[x])
                      /\ snap[c] # None /\ pc'[x] = "reading" => Agree(snap[c], ViewSnapshot(view'[x]))
                      /\ pc'[c] = "reading" /\ pc'[x] = "reading" =>
                            Agree(ViewSnapshot(view'[c]), ViewSnapshot(view'[x]))
    BY <2>1 DEF AgreeInv, Agree, ViewSnapshot
  <2>6. snap[c] # None /\ snap[x] # None => Agree(snap[c], snap[x])
    BY DEF AgreeInv
  <2>7. snap[c] # None /\ pc'[x] = "reading" => Agree(snap[c], ViewSnapshot(view'[x]))
    BY <2>1, <2>2, <2>3 DEF AgreeInv
  <2>8. pc'[c] = "reading" /\ pc'[x] = "reading" => Agree(ViewSnapshot(view'[c]), ViewSnapshot(view'[x]))
    BY <2>1, <2>2, <2>4, <2>5 DEF AgreeInv
  <2> QED
    BY <2>6, <2>7, <2>8
<1>3. ASSUME NEW k \in Clients, ReadSnapshotGraph(k) PROVE AgreeInv'
  <2>1. /\ snap'[k] = ViewSnapshot(view[k]) /\ pc'[k] = "idle" /\ pc[k] = "reading"
        /\ \A x \in Clients : x # k => snap'[x] = snap[x] /\ view'[x] = view[x] /\ pc'[x] = pc[x]
    BY <1>3, <1>t DEF ReadSnapshotGraph, TypeOK, ViewSnapshot
  <2>2. \A s, t : Agree(s, t) => Agree(t, s)
    BY DEF Agree
  <2> SUFFICES ASSUME NEW c \in Clients, NEW x \in Clients
               PROVE  /\ snap'[c] # None /\ snap'[x] # None => Agree(snap'[c], snap'[x])
                      /\ snap'[c] # None /\ pc'[x] = "reading" => Agree(snap'[c], ViewSnapshot(view'[x]))
                      /\ pc'[c] = "reading" /\ pc'[x] = "reading" =>
                            Agree(ViewSnapshot(view'[c]), ViewSnapshot(view'[x]))
    BY DEF AgreeInv, Agree, ViewSnapshot
  <2>3. snap'[c] # None /\ snap'[x] # None => Agree(snap'[c], snap'[x])
    <3>1. CASE c = k /\ x = k
      BY <3>1 DEF Agree
    <3>2. CASE c = k /\ x # k
      BY <2>1, <2>2, <3>2 DEF AgreeInv
    <3>3. CASE c # k /\ x = k
      BY <2>1, <3>3 DEF AgreeInv
    <3>4. CASE c # k /\ x # k
      BY <2>1, <3>4 DEF AgreeInv
    <3> QED
      BY <3>1, <3>2, <3>3, <3>4
  <2>4. snap'[c] # None /\ pc'[x] = "reading" => Agree(snap'[c], ViewSnapshot(view'[x]))
    BY <2>1 DEF AgreeInv
  <2>5. pc'[c] = "reading" /\ pc'[x] = "reading" => Agree(ViewSnapshot(view'[c]), ViewSnapshot(view'[x]))
    BY <2>1 DEF AgreeInv
  <2> QED
    BY <2>3, <2>4, <2>5
<1>4. ASSUME NEW k \in Clients,
             \/ CallReplace(k) \/ CallCompareAndPublish(k) \/ CallRemoveIfCurrent(k)
             \/ CallDelete(k) \/ CallRebuild(k)
             \/ Begin(k) \/ Busy(k) \/ Conflict(k) \/ DoWriteGraph(k) \/ DoPutPublished(k)
             \/ DoRemoveGraph(k) \/ DoPutRemoved(k) \/ DoRebuild(k) \/ Commit(k) \/ Rollback(k)
             \/ Crash(k),
             NEW x \in Clients
      PROVE  /\ snap'[x] \in {snap[x], None}
             /\ pc'[x] = "reading" => pc[x] = "reading" /\ view'[x] = view[x]
  BY <1>4, <1>t DEF TypeOK, CallReplace, CallCompareAndPublish, CallRemoveIfCurrent, CallDelete,
     CallRebuild, Call, Begin, Busy, Conflict, DoWriteGraph, DoPutPublished, DoRemoveGraph,
     DoPutRemoved, DoRebuild, Work, Commit, Rollback, Crash, Finish
<1>5. CASE UNCHANGED vars
  BY <1>1, <1>5 DEF vars
<1> QED
  BY <1>1, <1>2, <1>3, <1>4, <1>5 DEF Next, Start, Step

LEMMA AuthorityCorrect == Spec => [](ControlInv /\ TablesInv /\ AuthorityInv /\ AgreeInv)
BY ControlInit, ControlNext, TablesInit, TablesNext, AuthorityInit, AuthorityNext,
   AgreeInit, AgreeNext, PTL DEF Spec

(***************************************************************************)
(* Reads are never torn: one state, one graph, in every client's hands.    *)
(***************************************************************************)
THEOREM StoreSnapshotsAgree == Spec => []SnapshotsAgree
<1>1. AgreeInv => SnapshotsAgree
  BY DEF AgreeInv, SnapshotsAgree, Agree
<1> QED
  BY <1>1, AuthorityCorrect, PTL

(***************************************************************************)
(* A state token identifies one graph.                                     *)
(***************************************************************************)
THEOREM StoreSnapshotAuthority == Spec => []SnapshotAuthority
<1>1. AuthorityInv => SnapshotAuthority
  BY DEF AuthorityInv, SnapshotAuthority, Authentic
<1> QED
  BY <1>1, AuthorityCorrect, PTL

(***************************************************************************)
(* A conditional call overwrites nothing its caller has not read.          *)
(***************************************************************************)
THEOREM StoreNoLostUpdate == Spec => NoLostUpdate
<1>1. ControlInv /\ AuthorityInv => ReplacesWhatWasRead
  <2> SUFFICES ASSUME ControlInv, AuthorityInv, NEW c \in Clients, pc[c] = "ready",
                      req[c].op \in ConditionalOps
               PROVE  ReadGraph(db, req[c].res) = req[c].base.graph
    BY DEF ReplacesWhatWasRead
  <2>1. ClientInv(c) /\ pc[c] \in Calling
    BY DEF ControlInv, Calling, InTransaction
  <2>2. db.state[req[c].res] = req[c].base.state /\ req[c].base.res = req[c].res
    BY <2>1 DEF ClientInv, Stage, CallOK
  <2>3. Authentic(req[c].base)
    BY <2>1 DEF AuthorityInv
  <2> QED
    BY <2>2, <2>3 DEF Authentic
<1>2. ControlInv /\ AuthorityInv => [ReplacesWhatWasRead]_vars
  BY <1>1
<1> QED
  BY <1>2, AuthorityCorrect, PTL DEF NoLostUpdate

(***************************************************************************)
(* Every way out of a call (commit, conflict, busy timeout, rollback,      *)
(* crash) gives the writer lock back and leaves no uncommitted work.       *)
(***************************************************************************)
THEOREM StoreNoTransactionLeft == Spec => []NoTransactionLeft
<1> DEFINE Idle == lock = None => wdb = db
<1>1. Init => Idle
  BY DEF Init
<1>2. ControlInv /\ Idle /\ [Next]_vars => Idle'
  <2> SUFFICES ASSUME ControlInv, Idle, [Next]_vars PROVE Idle'
    OBVIOUS
  <2>1. CASE UNCHANGED <<db, wdb, lock>>
    BY <2>1
  <2>2. ASSUME NEW c \in Clients, Begin(c) PROVE Idle'
    BY <2>2, ClientsAssumption DEF Begin
  <2>3. ASSUME NEW c \in Clients, Conflict(c) \/ Rollback(c) \/ Commit(c) \/ Crash(c) PROVE Idle'
    BY <2>3 DEF Conflict, Rollback, Commit, Crash
  <2>4. ASSUME NEW c \in Clients,
               DoWriteGraph(c) \/ DoPutPublished(c) \/ DoRemoveGraph(c) \/ DoPutRemoved(c)
                 \/ DoRebuild(c)
        PROVE  Idle'
    <3>1. lock' = lock /\ pc[c] \in InTransaction
      BY <2>4 DEF DoWriteGraph, DoPutPublished, DoRemoveGraph, DoPutRemoved, DoRebuild, Work,
                  InTransaction
    <3>2. lock = c
      BY <3>1 DEF ControlInv, ClientInv
    <3> QED
      BY <3>1, <3>2, ClientsAssumption
  <2>5. \/ UNCHANGED <<db, wdb, lock>>
        \/ \E c \in Clients :
              \/ Begin(c) \/ Conflict(c) \/ Rollback(c) \/ Commit(c) \/ Crash(c)
              \/ DoWriteGraph(c) \/ DoPutPublished(c) \/ DoRemoveGraph(c) \/ DoPutRemoved(c)
              \/ DoRebuild(c)
    BY DEF Next, vars, Start, Step, ReadSnapshotState, ReadSnapshotGraph, Call, CallReplace,
           CallCompareAndPublish, CallRemoveIfCurrent, CallDelete, CallRebuild, Busy
  <2> QED
    BY <2>1, <2>2, <2>3, <2>4, <2>5
<1>3. ControlInv /\ Idle => NoTransactionLeft
  BY DEF ControlInv, TypeOK, ClientInv, InTransaction, NoTransactionLeft
<1> QED
  BY <1>1, <1>2, <1>3, ControlCorrect, PTL DEF Spec

-----------------------------------------------------------------------------
(***************************************************************************)
(* The converse of the foreign key from core_resource_facets: no facet row *)
(* is left without a resource.  Every outcome of a call ends in            *)
(* _prune_facets or leaves both tables alone.                              *)
(***************************************************************************)
NoIdleFacet(d) == \A f \in d.facet : \E r \in Resources : <<r, f>> \in d.tag

LEMMA PrunedFacets ==
    ASSUME NEW d \in DatabaseType, NEW e, e.facet = PruneFacets(d).facet, e.tag = d.tag
    PROVE  NoIdleFacet(e)
BY DEF PruneFacets, DatabaseType, NoIdleFacet

LEMMA OutcomeFacets ==
    ASSUME NEW d \in DatabaseType, NoIdleFacet(d), NEW q, CallOK(q), NEW n, NEW e,
           Outcome(d, q, n, e)
    PROVE  NoIdleFacet(e)
<1>1. CASE q.op \in PublishOps /\ e = Published(d, q.batch, n)
  <2>1. q.batch \in BatchType /\ q.batch.res \in Resources
    BY <1>1, BatchAssumption DEF CallOK, BatchType
  <2> DEFINE w == InsertGraph(RemoveGraph(d, q.batch.res), q.batch)
  <2>2. w \in DatabaseType
    BY <2>1, RemoveGraphType, InsertGraphType
  <2> HIDE DEF w
  <2>3. WriteGraph(d, q.batch) = PruneFacets(w)
    BY DEF WriteGraph, w
  <2>4. e.facet = PruneFacets(w).facet /\ e.tag = w.tag
    BY <1>1, <2>2, <2>3 DEF Published, PruneFacets, DatabaseType
  <2> QED
    BY <2>2, <2>4, PrunedFacets
<1>2. ASSUME NEW st, q.op \in RemoveOps, e = Removed(d, q.res, st) PROVE NoIdleFacet(e)
  <2>1. RemoveGraph(d, q.res) \in DatabaseType
    BY <1>2, RemoveGraphType DEF CallOK
  <2> QED
    BY <1>2, <2>1 DEF Removed, PruneFacets, DatabaseType, NoIdleFacet
<1>3. CASE e = RebuildFts(d)
  BY <1>3 DEF RebuildFts, DatabaseType, NoIdleFacet
<1> QED
  BY <1>1, <1>2, <1>3 DEF Outcome

(***************************************************************************)
(* After every commit a facet row exists exactly when some resource        *)
(* carries it.                                                             *)
(***************************************************************************)
THEOREM StoreFacetsShared == Spec => []FacetsShared
<1>1. Init => NoIdleFacet(db)
  BY DEF Init, EmptyDatabase, NoIdleFacet
<1>2. ControlInv /\ NoIdleFacet(db) /\ [Next]_vars => NoIdleFacet(db)'
  <2> SUFFICES ASSUME ControlInv, NoIdleFacet(db), [Next]_vars PROVE NoIdleFacet(db')
    OBVIOUS
  <2>1. ASSUME NEW c \in Clients, Commit(c) PROVE NoIdleFacet(db')
    <3>1. ClientInv(c) /\ TypeOK
      BY DEF ControlInv
    <3>2. CallOK(req[c]) /\ Outcome(db, req[c], minted + 1, wdb)
      BY <2>1, <3>1 DEF ClientInv, Stage, Commit, Calling, InTransaction
    <3>3. db \in DatabaseType /\ db' = wdb
      BY <2>1, <3>1 DEF TypeOK, Commit
    <3> QED
      BY <3>2, <3>3, OutcomeFacets
  <2>2. ASSUME NEW c \in Clients, Start(c) \/ Step(c) \/ Crash(c), ~Commit(c)
        PROVE  UNCHANGED db
    BY <2>2 DEF Start, Step, Crash, ReadSnapshotState, ReadSnapshotGraph, CallReplace,
        CallCompareAndPublish, CallRemoveIfCurrent, CallDelete, CallRebuild, Call, Begin, Busy,
        Conflict, DoWriteGraph, DoPutPublished, DoRemoveGraph, DoPutRemoved, DoRebuild, Work,
        Rollback
  <2> QED
    BY <2>1, <2>2 DEF Next, vars
<1>3. ControlInv /\ TablesInv /\ NoIdleFacet(db) => FacetsShared
  <2> SUFFICES ASSUME ControlInv, TablesInv, NoIdleFacet(db) PROVE FacetsShared
    OBVIOUS
  <2>1. db.facet \subseteq Facets
    BY DEF ControlInv, TypeOK, DatabaseType
  <2>2. \A t \in db.tag : t[2] \in db.facet
    BY DEF TablesInv, CatalogVerify, ForeignKeysHold
  <2>3. \A r \in Resources, f \in Facets : <<r, f>> \in db.tag => f \in db.facet
    BY <2>2
  <2> QED
    BY <2>1, <2>3 DEF FacetsShared, NoIdleFacet
<1> QED
  BY <1>1, <1>2, <1>3, TablesCorrect, PTL DEF Spec

-----------------------------------------------------------------------------
(***************************************************************************)
(* Every commit leaves sound tables: verify accepts them, every facet is   *)
(* in use and no source has two live resources.                            *)
(***************************************************************************)
THEOREM StoreAlwaysSound == Spec => []StoreSound
BY StoreVerifies, StoreFacetsShared, StoreLiveSourceUnique, PTL DEF StoreSound

(***************************************************************************)
(* Calls of several clients have their tokens' authority, never read torn  *)
(* snapshots and leave no transaction behind.                              *)
(***************************************************************************)
THEOREM StoreCallsSerial == Spec => []CallsSerial
BY StoreSnapshotAuthority, StoreSnapshotsAgree, StoreNoTransactionLeft, PTL DEF CallsSerial

(***************************************************************************)
(* No commit overwrites what its caller had not read, redefines a space or *)
(* breaks a lifecycle.                                                     *)
(***************************************************************************)
THEOREM StoreStepsLawful == Spec => StepsLawful
BY StoreNoLostUpdate, StoreSpaceIdentityFixed, StoreLifecycleDiscipline, PTL
   DEF NoLostUpdate, SpaceIdentityFixed, LifecycleDiscipline, StepsLawful
-----------------------------------------------------------------------------
(***************************************************************************)
(* The tables implement the publication port.  The empty catalog maps to   *)
(* the port's initial state; a commit that moves a resource maps to the    *)
(* port operation of its status; every other step leaves states, graphs    *)
(* and the number of issued tokens as they are.                            *)
(***************************************************************************)
PortGraph == [r \in Resources |-> ReadGraph(db, r)]

StoredGraphs == {StoredForm(b) : b \in Batches}

LEMMA PortInit == Init => Port!Init
<1> SUFFICES ASSUME Init PROVE Port!Init
  OBVIOUS
<1>1. db.state = [r \in Resources |-> NeverCreated] /\ db.resource = [r \in Resources |-> None]
  BY DEF Init, EmptyDatabase
<1>2. CatalogVerify(db)
  BY EmptyVerifies DEF Init
<1>3. \A r \in Resources : ReadGraph(db, r) = None
  BY <1>1, <1>2 DEF CatalogVerify, GraphIffPublished, ReadGraph, NeverCreated
<1> QED
  BY <1>1, <1>3 DEF Init, Port!Init, NeverCreated, Port!NeverCreated

LEMMA PortNext == ControlInv /\ TablesInv /\ [Next]_vars => [Port!Next]_(Port!pubVars)
<1> SUFFICES ASSUME ControlInv, TablesInv, [Next]_vars PROVE [Port!Next]_(Port!pubVars)
  OBVIOUS
<1>0. db.state \in [Resources -> StateType] /\ minted \in Nat
  BY DEF ControlInv, TypeOK, DatabaseType
<1>1. CASE UNCHANGED <<db, minted>>
  BY <1>1 DEF Port!pubVars
<1>2. ASSUME NEW c \in Clients, Committed(c) PROVE [Port!Next]_(Port!pubVars)
  <2>1. CASE Unmoved(db, db')
    <3>1. db'.state = db.state /\ minted' = minted
      BY <1>2, <2>1 DEF Committed, Unmoved
    <3>2. PortGraph' = PortGraph
      BY <2>1 DEF Unmoved, PortGraph
    <3> QED
      BY <3>1, <3>2 DEF Port!pubVars, PortGraph
  <2>2. ASSUME NEW r \in Resources, NEW status \in Statuses, NEW src \in Sources \cup {None},
               Moved(db, db', minted + 1, r, status, src)
        PROVE  Port!Next
    <3>1. /\ PutAllowed(db.state, r, status, src)
          /\ db'.state = PutState(db.state, r, status, src, minted + 1)
      BY <2>2 DEF Moved
    <3>2. db'.state # db.state
      <4>1. db'.state[r].token = minted + 1
        BY <1>0, <3>1 DEF PutState, NextState
      <4> QED
        BY <1>0, <4>1 DEF TablesInv, Tokens
    <3>3. minted' = minted + 1
      BY <1>2, <3>2 DEF Committed
    <3>4. PortGraph' = [PortGraph EXCEPT ![r] = ReadGraph(db', r)]
      BY <2>2 DEF Moved, PortGraph
    <3>5. Port!Move(r, status, src, ReadGraph(db', r))
      BY <3>1, <3>3, <3>4 DEF Port!Move, PortGraph, PutAllowed, Port!PutAllowed, LiveSourceFree,
         Port!LiveSourceFree, PutState, Port!PutState, NextState, Port!NextState, IsLive, Port!IsLive
    <3>6. CASE status = "published" /\ src \in Sources /\ \E b \in Batches : ReadGraph(db', r) = StoredForm(b)
      <4>1. ReadGraph(db', r) \in StoredGraphs
        BY <3>6 DEF StoredGraphs
      <4>2. Port!Publish(r)
        BY <3>5, <3>6, <4>1 DEF Port!Publish, StoredGraphs
      <4> QED
        BY <4>2 DEF Port!Next
    <3>7. CASE /\ status \in {"live_without_projections", "deleted"}
               /\ IsLive(db.state[r])
               /\ src = db.state[r].src
               /\ ReadGraph(db', r) = None
      <4>1. Port!Withdraw(r) \/ Port!Delete(r)
        BY <3>5, <3>7 DEF Port!Withdraw, Port!Delete, IsLive, Port!IsLive
      <4> QED
        BY <4>1 DEF Port!Next
    <3> QED
      BY <2>2, <3>6, <3>7 DEF Moved
  <2> QED
    BY <1>2, <2>1, <2>2 DEF Committed, Effect
<1> QED
  BY <1>1, <1>2, OnlyCommits DEF TablesInv

(***************************************************************************)
(* Every behaviour of the clients, conflicts, failures and crashes         *)
(* included, is a behaviour of the publication port.                       *)
(***************************************************************************)
THEOREM StoreImplementsPublication == Spec => ImplementsPublication
BY PortInit, PortNext, TablesCorrect, PTL DEF Spec, ImplementsPublication, Port!Spec
=============================================================================
