-------------------------- MODULE EnrichmentProofs --------------------------
(***************************************************************************)
(* Proofs about Enrichment, for any workers, templates, imports and slots. *)
(*                                                                         *)
(* First the pure functions: pruning to the least set closed under         *)
(* staleness leaves a consistent graph, and whatever it drops lost an      *)
(* input.  Then the interleaving: the snapshot a worker holds is either    *)
(* out of date, which its conditional write notices, or still the graph in *)
(* the catalog, for which its verdict was computed.                        *)
(***************************************************************************)
EXTENDS Enrichment, TLAPS

-----------------------------------------------------------------------------
(***************************************************************************)
(* invalid_dependencies: the least closed set is closed, and each of its   *)
(* members depends on something that is gone or changed.                   *)
(***************************************************************************)
LEMMA StalenessGrows ==
    ASSUME NEW out, NEW X, NEW Y, X \subseteq Y, NEW s, StaleDependency(out, X, s)
    PROVE  StaleDependency(out, Y, s)
BY DEF StaleDependency

LEMMA InvalidClosed ==
    ASSUME NEW out
    PROVE  ClosedUnderStaleness(out, InvalidDependencies(out))
<1> DEFINE I == InvalidDependencies(out)
<1> SUFFICES ASSUME NEW s \in Active(out), StaleDependency(out, I, s),
                    NEW X \in SUBSET Active(out), ClosedUnderStaleness(out, X)
             PROVE  s \in X
  BY DEF ClosedUnderStaleness, InvalidDependencies
<1>1. I \subseteq X
  BY DEF InvalidDependencies
<1>2. StaleDependency(out, X, s)
  BY <1>1, StalenessGrows
<1> QED
  BY <1>2 DEF ClosedUnderStaleness

LEMMA InvalidHasCause ==
    ASSUME NEW out, NEW s \in InvalidDependencies(out)
    PROVE  StaleDependency(out, InvalidDependencies(out), s)
<1> DEFINE I == InvalidDependencies(out)
           Y == I \ {s}
<1> SUFFICES ASSUME ~StaleDependency(out, I, s) PROVE FALSE
  OBVIOUS
<1>1. I \subseteq Active(out)
  BY DEF InvalidDependencies
<1>2. ASSUME NEW t \in Active(out), StaleDependency(out, Y, t) PROVE t \in Y
  <2>1. StaleDependency(out, I, t)
    BY <1>2, StalenessGrows
  <2>2. t \in I
    BY <2>1, InvalidClosed DEF ClosedUnderStaleness
  <2> QED
    BY <2>1, <2>2
<1>3. ClosedUnderStaleness(out, Y)
  BY <1>2 DEF ClosedUnderStaleness
<1>4. s \in Y
  BY <1>1, <1>3 DEF InvalidDependencies
<1> QED
  BY <1>4

LEMMA PrunedHolds ==
    ASSUME NEW out \in Outputs
    PROVE  LET kept == Without(out, InvalidDependencies(out))
           IN  /\ kept \in Outputs
               /\ \A s \in Active(kept) : kept[s] = out[s] /\ ~StaleDependency(kept, {}, s)
<1> DEFINE I == InvalidDependencies(out)
           kept == Without(out, I)
<1>1. /\ kept \in Outputs
      /\ \A s \in Slots : kept[s] = IF s \in I THEN None ELSE out[s]
  BY DEF Without, Outputs
<1>2. ASSUME NEW s \in Active(kept) PROVE kept[s] = out[s] /\ ~StaleDependency(kept, {}, s)
  <2>1. s \in Slots /\ s \notin I /\ kept[s] = out[s] /\ s \in Active(out)
    BY <1>1 DEF Active
  <2>2. ~StaleDependency(out, I, s)
    BY <2>1, InvalidClosed DEF ClosedUnderStaleness
  <2> HIDE DEF I, kept
  <2> QED
    BY <1>1, <2>1, <2>2 DEF StaleDependency
<1> QED
  BY <1>1, <1>2
\* An output of a consistent graph that is pruned away lost one of its inputs.
LEMMA PrunedLostInput ==
    ASSUME NEW old \in Graph, Consistent(old), NEW out \in Outputs,
           NEW s \in InvalidDependencies(out), out[s] = old.out[s]
    PROVE  LostItsInput(old.out, Without(out, InvalidDependencies(out)), s)
<1> DEFINE I == InvalidDependencies(out)
           kept == Without(out, I)
<1>1. s \in Slots /\ s \in Active(old.out)
  BY DEF InvalidDependencies, Active
<1>2. PICK d \in Slots : /\ out[s].dep[d] # None
                         /\ d \in I \/ out[d] = None \/ out[d].rev # out[s].dep[d]
  BY InvalidHasCause DEF StaleDependency
<1>3. kept[d] = IF d \in I THEN None ELSE out[d]
  BY DEF Without
<1>4. old.out[d] # None /\ old.out[d].rev = old.out[s].dep[d]
  BY <1>1, <1>2 DEF Consistent, StaleDependency
<1> HIDE DEF I, kept
<1>5. kept[d] = None \/ kept[d] # old.out[d]
  BY <1>2, <1>3, <1>4
<1> QED
  BY <1>2, <1>5 DEF LostItsInput, I, kept

-----------------------------------------------------------------------------
(***************************************************************************)
(* merge: the result is consistent, keeps what was added, and drops or     *)
(* changes nothing else unless it lost an input.                           *)
(***************************************************************************)
LEMMA MergeType ==
    ASSUME NEW g \in Graph, NEW add \in Outputs
    PROVE  /\ MergeKept(g, add) \in Outputs
           /\ Merge(g, add) \in Graph
           /\ Merge(g, add).out = Without(MergeKept(g, add), InvalidDependencies(MergeKept(g, add)))
           /\ Merge(g, add).gen = g.gen /\ Merge(g, add).meta = g.meta
<1>1. g.out \in Outputs
  BY DEF Graph
<1>2. Overlaid(g, add) \in Outputs
  BY <1>1 DEF Overlaid, Outputs
<1>3. MergeKept(g, add) \in Outputs
  BY <1>2 DEF MergeKept, Without, Outputs
<1>4. Without(MergeKept(g, add), InvalidDependencies(MergeKept(g, add))) \in Outputs
  BY <1>3, PrunedHolds
<1> QED
  BY <1>3, <1>4 DEF Merge, Graph

LEMMA MergeConsistent ==
    ASSUME NEW g \in Graph, NEW add \in Outputs, MergeOK(g, add)
    PROVE  Consistent(Merge(g, add))
<1> DEFINE m == Merge(g, add)
           k == MergeKept(g, add)
<1>1. /\ k \in Outputs
      /\ m.out = Without(k, InvalidDependencies(k)) /\ m.gen = g.gen
  BY MergeType
<1>2. \A s \in Active(m.out) : m.out[s] = k[s] /\ ~StaleDependency(m.out, {}, s)
  BY <1>1, PrunedHolds
<1>3. ASSUME NEW s \in Active(m.out) PROVE m.out[s].indep \/ m.out[s].gen = g.gen
  <2>1. s \in Slots /\ m.out[s] # None /\ m.out[s] = k[s]
    BY <1>2 DEF Active
  <2>2. \/ k[s] = add[s] /\ add[s] # None
        \/ k[s] = g.out[s] /\ g.out[s] # None
    BY <2>1 DEF MergeKept, Without, Overlaid
  <2>3. add[s] # None => add[s].gen = g.gen
    BY <2>1 DEF MergeOK, Active
  <2>4. g.out[s] # None => g.out[s].indep \/ g.out[s].gen = g.gen
    BY <2>1 DEF MergeOK, StaleSource, Active
  <2> QED
    BY <2>1, <2>2, <2>3, <2>4
<1>4. StaleSource(m) = {}
  BY <1>1, <1>3 DEF StaleSource
<1> QED
  BY <1>2, <1>4 DEF Consistent

LEMMA MergeAdds ==
    ASSUME NEW g \in Graph, NEW add \in Outputs, MergeOK(g, add), NEW s \in Active(add)
    PROVE  Merge(g, add).out[s] = add[s]
<1>1. s \in Slots /\ add[s] # None
  BY DEF Active
<1>2. MergeKept(g, add)[s] = add[s]
  BY <1>1 DEF MergeKept, Without, Overlaid, StaleConsumers
<1>3. s \notin InvalidDependencies(MergeKept(g, add))
  BY DEF MergeOK
<1> QED
  BY <1>1, <1>2, <1>3, MergeType DEF Without

LEMMA MergeSpares ==
    ASSUME NEW g \in Graph, NEW add \in Outputs, MergeOK(g, add), Consistent(g),
           NEW s \in Active(g.out) \ Active(add)
    PROVE  \/ Merge(g, add).out[s] = g.out[s]
           \/ Merge(g, add).out[s] = None /\ LostItsInput(g.out, Merge(g, add).out, s)
<1> DEFINE m == Merge(g, add)
           k == MergeKept(g, add)
<1>1. /\ k \in Outputs
      /\ m.out = Without(k, InvalidDependencies(k))
  BY MergeType
<1>2. s \in Slots /\ g.out[s] # None /\ add[s] = None
  BY DEF Active
<1>3. CASE s \in StaleConsumers(g, add)
  <2>1. k[s] = None
    BY <1>2, <1>3 DEF MergeKept, Without
  <2>2. m.out[s] = None
    BY <1>1, <1>2, <2>1 DEF Without
  <2>3. PICK d \in Active(g.out) \cap Active(add) :
               g.out[s].dep[d] # None /\ ~SameMaterial(g.out[d], add[d])
    BY <1>3 DEF StaleConsumers
  <2>4. m.out[d] = add[d]
    BY <2>3, MergeAdds
  <2>5. d \in Slots /\ m.out[d] # g.out[d]
    BY <2>3, <2>4 DEF Active, SameMaterial
  <2> QED
    BY <2>2, <2>3, <2>5 DEF LostItsInput
<1>4. CASE s \notin StaleConsumers(g, add)
  <2>1. k[s] = g.out[s]
    BY <1>2, <1>4 DEF MergeKept, Without, Overlaid
  <2>2. CASE s \in InvalidDependencies(k)
    <3>1. m.out[s] = None
      BY <1>1, <1>2, <2>2 DEF Without
    <3>2. LostItsInput(g.out, m.out, s)
      BY <1>1, <2>1, <2>2, PrunedLostInput
    <3> QED
      BY <3>1, <3>2
  <2>3. CASE s \notin InvalidDependencies(k)
    BY <1>1, <1>2, <2>1, <2>3 DEF Without
  <2> QED
    BY <2>2, <2>3
<1> QED
  BY <1>3, <1>4

-----------------------------------------------------------------------------
(***************************************************************************)
(* reconcile: the same for a producer's base over the old graph.           *)
(***************************************************************************)
LEMMA PruneGraphParts ==
    ASSUME NEW g \in Graph, NEW current, current = Without(g.out, StaleSource(g))
    PROVE  LET kept == Without(current, InvalidDependencies(current))
           IN  /\ current \in Outputs
               /\ kept \in Outputs
               /\ PruneGraph(g) \in Graph \cup {None}
               /\ PruneGraph(g) = None => Active(kept) = {}
               /\ PruneGraph(g) # None => /\ PruneGraph(g).out = kept
                                          /\ PruneGraph(g).gen = g.gen
                                          /\ PruneGraph(g).meta = g.meta
<1> DEFINE kept == Without(current, InvalidDependencies(current))
<1>1. g.out \in Outputs
  BY DEF Graph
<1>2. current \in Outputs
  BY <1>1 DEF Without, Outputs
<1>3. kept \in Outputs
  BY <1>2, PrunedHolds
<1>4. PruneGraph(g) = IF Active(kept) = {} /\ g.legacy = {} THEN None ELSE [g EXCEPT !.out = kept]
  BY DEF PruneGraph
<1> HIDE DEF kept
<1>5. [g EXCEPT !.out = kept] \in Graph
  BY <1>3 DEF Graph
<1>6. PruneGraph(g) # None => /\ PruneGraph(g).out = kept
                              /\ PruneGraph(g).gen = g.gen
                              /\ PruneGraph(g).meta = g.meta
  BY <1>4 DEF Graph
<1>7. PruneGraph(g) = None => Active(kept) = {}
  BY <1>4, <1>5, EnrichmentRecordsAssumption
<1>8. PruneGraph(g) \in Graph \cup {None}
  BY <1>4, <1>5
<1> QED
  BY <1>2, <1>3, <1>6, <1>7, <1>8 DEF kept

LEMMA PruneGraphConsistent ==
    ASSUME NEW g \in Graph, PruneGraph(g) # None
    PROVE  Consistent(PruneGraph(g))
<1> DEFINE current == Without(g.out, StaleSource(g))
           m == PruneGraph(g)
<1>1. /\ current \in Outputs
      /\ m.out = Without(current, InvalidDependencies(current)) /\ m.gen = g.gen
  BY PruneGraphParts
<1>2. \A s \in Active(m.out) : m.out[s] = current[s] /\ ~StaleDependency(m.out, {}, s)
  BY <1>1, PrunedHolds
<1>3. ASSUME NEW s \in Active(m.out) PROVE m.out[s].indep \/ m.out[s].gen = g.gen
  <2>1. s \in Slots /\ current[s] # None /\ m.out[s] = current[s]
    BY <1>2 DEF Active
  <2>2. s \notin StaleSource(g) /\ current[s] = g.out[s]
    BY <2>1 DEF Without
  <2> QED
    BY <2>1, <2>2 DEF StaleSource, Active
<1>4. StaleSource(m) = {}
  BY <1>1, <1>3 DEF StaleSource
<1> QED
  BY <1>2, <1>4 DEF Consistent

(***************************************************************************)
(* The graph reconcile prunes.                                             *)
(***************************************************************************)
Base(old, in) ==
    IF old = None
    THEN [gen |-> in.gen, raw |-> in.raw, meta |-> in.meta, out |-> in.out, legacy |-> in.legacy]
    ELSE [gen |-> in.gen, raw |-> in.raw,
          meta |-> IF in.meta # None THEN in.meta ELSE old.meta,
          out |-> Union(old, in),
          legacy |-> PreservedLegacy(old, in) \cup in.legacy]

LEMMA ReconcileIsPruned ==
    ASSUME NEW old \in Graph \cup {None}, NEW in \in Job
    PROVE  /\ Base(old, in) \in Graph
           /\ Reconcile(old, in) \in {None, PruneGraph(Base(old, in))}
           /\ old # None \/ Creates(in) => Reconcile(old, in) = PruneGraph(Base(old, in))
<1>1. CASE old = None
  BY <1>1 DEF Base, Reconcile, Job, Graph
<1>2. CASE old # None
  <2>1. old \in Graph /\ old.out \in Outputs /\ in.out \in Outputs
    BY <1>2 DEF Graph, Job
  <2>2. Union(old, in) \in Outputs
    BY <2>1 DEF Union, Outputs
  <2>3. PreservedLegacy(old, in) \cup in.legacy \in SUBSET Slots
    BY <2>1 DEF PreservedLegacy, Graph, Job
  <2>4. Base(old, in) \in Graph
    BY <1>2, <2>1, <2>2, <2>3 DEF Base, Graph, Job
  <2> QED
    BY <1>2, <2>4 DEF Base, Reconcile
<1> QED
  BY <1>1, <1>2

LEMMA ReconcileConsistent ==
    ASSUME NEW old \in Graph \cup {None}, NEW in \in Job
    PROVE  /\ Reconcile(old, in) \in Graph \cup {None}
           /\ Reconcile(old, in) # None => Consistent(Reconcile(old, in))
<1>1. /\ Base(old, in) \in Graph
      /\ Reconcile(old, in) \in {None, PruneGraph(Base(old, in))}
  BY ReconcileIsPruned
<1>2. PruneGraph(Base(old, in)) \in Graph \cup {None}
  BY <1>1, PruneGraphParts
<1> QED
  BY <1>1, <1>2, PruneGraphConsistent

\* Nothing the base is made of is of another source generation.
LEMMA BaseCurrent ==
    ASSUME NEW old \in Graph \cup {None}, old # None => Consistent(old), NEW in \in Job,
           ReconcileOK(old, in)
    PROVE  StaleSource(Base(old, in)) = {}
<1> SUFFICES ASSUME NEW s \in Active(Base(old, in).out)
             PROVE  Base(old, in).out[s].indep \/ Base(old, in).out[s].gen = in.gen
  BY DEF StaleSource, Base
<1>1. s \in Slots /\ Base(old, in).out[s] # None
  BY DEF Active
<1>2. in.out[s] # None => in.out[s].indep \/ in.out[s].gen = in.gen
  BY <1>1 DEF ReconcileOK, Active
<1>3. CASE old = None
  BY <1>1, <1>2, <1>3 DEF Base
<1>4. CASE old # None
  <2>1. \/ in.out[s] # None /\ Base(old, in).out[s] = in.out[s]
        \/ s \in Preserved(old, in) /\ Base(old, in).out[s] = old.out[s] /\ in.out[s] = None
    BY <1>1, <1>4 DEF Base, Union
  <2>2. s \in Preserved(old, in) => old.out[s].indep \/ old.gen = in.gen
    BY DEF Preserved
  <2>3. s \in Preserved(old, in) => old.out[s].indep \/ old.out[s].gen = old.gen
    BY <1>4 DEF Preserved, Consistent, StaleSource
  <2> QED
    BY <1>2, <2>1, <2>2, <2>3
<1> QED
  BY <1>3, <1>4

LEMMA ReconcileOut ==
    ASSUME NEW old \in Graph \cup {None}, old # None => Consistent(old), NEW in \in Job,
           ReconcileOK(old, in), Reconcile(old, in) # None
    PROVE  LET out == Base(old, in).out
           IN  /\ out \in Outputs
               /\ Reconcile(old, in).out = Without(out, InvalidDependencies(out))
<1> DEFINE b == Base(old, in)
           current == Without(b.out, StaleSource(b))
<1>1. b \in Graph /\ Reconcile(old, in) = PruneGraph(b)
  BY ReconcileIsPruned
<1>2. StaleSource(b) = {}
  BY BaseCurrent
<1>3. b.out \in Outputs
  BY <1>1 DEF Graph
<1>4. current = b.out
  BY <1>2, <1>3 DEF Without, Outputs
<1> HIDE DEF b
<1>5. Reconcile(old, in).out = Without(current, InvalidDependencies(current))
  BY <1>1, PruneGraphParts
<1> QED
  BY <1>3, <1>4, <1>5 DEF b

(***************************************************************************)
(* What a producer supplies and what it takes away is in the result.       *)
(***************************************************************************)
LEMMA ReconcileAdds ==
    ASSUME NEW old \in Graph \cup {None}, old # None => Consistent(old), NEW in \in Job,
           ReconcileOK(old, in), Reconcile(old, in) # None, NEW s \in Slots
    PROVE  /\ in.out[s] # None => Reconcile(old, in).out[s] = in.out[s]
           /\ s \in in.remove /\ in.out[s] = None => Reconcile(old, in).out[s] = None
<1> DEFINE out == Base(old, in).out
<1>1. out \in Outputs /\ Reconcile(old, in).out = Without(out, InvalidDependencies(out))
  BY ReconcileOut
<1>2. out = IF old = None THEN in.out ELSE Union(old, in)
  BY DEF Base
<1> HIDE DEF out
<1>3. Reconcile(old, in).out[s] = IF s \in InvalidDependencies(out) THEN None ELSE out[s]
  BY <1>1 DEF Without
<1>4. ASSUME in.out[s] # None PROVE Reconcile(old, in).out[s] = in.out[s]
  <2>1. out[s] = in.out[s]
    BY <1>2, <1>4 DEF Union
  <2>2. s \notin InvalidDependencies(out)
    BY <1>2, <1>4 DEF ReconcileOK, Active
  <2> QED
    BY <1>3, <2>1, <2>2
<1>5. ASSUME s \in in.remove, in.out[s] = None PROVE Reconcile(old, in).out[s] = None
  <2>1. out[s] = None
    BY <1>2, <1>5 DEF Union, Preserved
  <2> QED
    BY <1>3, <2>1
<1> QED
  BY <1>4, <1>5

(***************************************************************************)
(* Every other output stays as it is, lost an input, or is of an older     *)
(* source generation and not independent of it.                            *)
(***************************************************************************)
LEMMA ReconcileSpares ==
    ASSUME NEW old \in Graph, Consistent(old), NEW in \in Job, ReconcileOK(old, in),
           NEW s \in Active(old.out) \ (Active(in.out) \cup in.remove)
    PROVE  LET new == Reconcile(old, in)
           IN  \/ new # None /\ new.out[s] = old.out[s]
               \/ in.gen # old.gen /\ ~old.out[s].indep
               \/ /\ new = None \/ new.out[s] = None
                  /\ LostItsInput(old.out, IF new = None THEN NoOutputs ELSE new.out, s)
<1> DEFINE new == Reconcile(old, in)
           b == Base(old, in)
           kept == Without(b.out, InvalidDependencies(b.out))
<1>0. old # None
  BY EnrichmentRecordsAssumption
<1>1. b \in Graph /\ new = PruneGraph(b) /\ b.out \in Outputs
  <2>1. b \in Graph /\ new = PruneGraph(b)
    BY <1>0, ReconcileIsPruned
  <2> QED
    BY <2>1 DEF Graph
<1>2. Without(b.out, StaleSource(b)) = b.out
  <2>1. StaleSource(b) = {}
    BY BaseCurrent
  <2> QED
    BY <1>1, <2>1 DEF Without, Outputs
<1>3. b.out = Union(old, in)
  BY <1>0 DEF Base
<1>4. s \in Slots /\ old.out[s] # None /\ in.out[s] = None /\ s \notin in.remove
  BY DEF Active
<1>5. CASE s \notin Preserved(old, in)
  BY <1>4, <1>5 DEF Preserved, Active
<1>6. CASE s \in Preserved(old, in)
  <2>1. b.out[s] = old.out[s]
    BY <1>3, <1>4, <1>6 DEF Union
  <2> HIDE DEF b, new
  <2>2. /\ new = None => Active(kept) = {}
        /\ new # None => new.out = kept
    BY <1>1, <1>2, PruneGraphParts
  <2>3. CASE s \in InvalidDependencies(b.out)
    <3>1. LostItsInput(old.out, kept, s)
      BY <1>1, <2>1, <2>3, PrunedLostInput
    <3>2. kept[s] = None
      BY <1>4, <2>3 DEF Without
    <3>3. LostItsInput(old.out, NoOutputs, s)
      BY <3>1 DEF LostItsInput, NoOutputs
    <3> QED
      BY <2>2, <3>1, <3>2, <3>3 DEF new
  <2>4. CASE s \notin InvalidDependencies(b.out)
    <3>1. kept[s] = old.out[s]
      BY <1>4, <2>1, <2>4 DEF Without
    <3>2. s \in Active(kept)
      BY <1>4, <3>1 DEF Active
    <3> QED
      BY <2>2, <3>1, <3>2 DEF new
  <2> QED
    BY <2>3, <2>4
<1> QED
  BY <1>5, <1>6

\* Metadata that is not the source's is neither dropped nor changed.
LEMMA ReconcileKeepsMetadata ==
    ASSUME NEW old \in Graph, Consistent(old), NEW in \in Job, ReconcileOK(old, in)
    PROVE  MetadataKept(old, Reconcile(old, in))
<1>0. old # None
  BY EnrichmentRecordsAssumption
<1> SUFFICES ASSUME Reconcile(old, in) # None, old.meta # None
             PROVE  Reconcile(old, in).meta = old.meta
  BY DEF MetadataKept
<1> DEFINE b == Base(old, in)
<1>1. b \in Graph /\ Reconcile(old, in) = PruneGraph(b)
  BY <1>0, ReconcileIsPruned
<1>2. Reconcile(old, in).meta = b.meta
  BY <1>1, PruneGraphParts
<1>3. CASE in.meta = None \/ old.meta = in.meta
  BY <1>0, <1>2, <1>3 DEF Base
<1>4. CASE Active(Union(old, in)) = {} /\ PreservedLegacy(old, in) \cup in.legacy = {}
  <2>1. b.out = Union(old, in) /\ b.legacy = PreservedLegacy(old, in) \cup in.legacy
    BY <1>0 DEF Base
  <2>2. Active(Without(Without(b.out, StaleSource(b)),
                       InvalidDependencies(Without(b.out, StaleSource(b))))) = {}
    BY <1>4, <2>1 DEF Active, Without
  <2>3. PruneGraph(b) = None
    BY <1>4, <2>1, <2>2 DEF PruneGraph
  <2> QED
    BY <1>1, <2>3
<1> QED
  BY <1>0, <1>3, <1>4 DEF ReconcileOK

-----------------------------------------------------------------------------
(***************************************************************************)
(* The inductive invariant.  A job keeps what its preparation checked; the *)
(* snapshot a call works from is authentic: its token has been issued, and *)
(* if the catalog still has that state it still has that graph.            *)
(***************************************************************************)
JobOK(j) ==
    /\ j \in Job
    /\ Enriches(j) => IsLive(j.snap.state) /\ j.snap.graph # None /\ j.remove = {}
    /\ j.snap.graph # None => j.inputs \subseteq Active(j.snap.graph.out)
    /\ \A s \in j.remove : j.out[s] = None
    /\ ~j.manual => \A s \in Active(j.out) : ~j.out[s].manual
    /\ j.api # "reindex_file" /\ ~j.manual /\ j.snap.graph # None /\ j.snap.graph.gen = j.gen =>
          \A s \in Targets(j) : ~IsManual(j.snap.graph, s)

Authentic(r, c) ==
    /\ c.state.token <= issued
    /\ state[r] = c.state => graph[r] = c.graph

CallInv(w) ==
    /\ JobOK(job[w])
    /\ cur[w] \in Snapshot
    /\ cur[w].graph # None => Consistent(cur[w].graph)
    /\ Authentic(job[w].res, cur[w])
    /\ IF Enriches(job[w]) THEN rebases[w] = 0 ELSE attempts[w] <= rebases[w]
    /\ pc[w] \in {"recheck", "attempt"} => Verdict(job[w], cur[w]) = pc[w]

WorkerInv(w) ==
    IF pc[w] = "idle"
    THEN job[w] = None /\ attempts[w] = 0 /\ rebases[w] = 0
    ELSE CallInv(w)

Tokens == \A r \in Resources : state[r].token <= issued

EnrichInv == GraphsConsistent /\ Tokens /\ \A w \in Workers : WorkerInv(w)

-----------------------------------------------------------------------------
(***************************************************************************)
(* Preparation: what capture and the producers hand to the publish loop.   *)
(***************************************************************************)
LEMMA EnrichedOutType ==
    ASSUME NEW t \in Templates, NEW g \in Graph, t.reads \subseteq Active(g.out)
    PROVE  /\ EnrichedOut(t, g) \in Outputs
           /\ \A s \in Slots : /\ EnrichedOut(t, g)[s] = None <=> t.parts[s] = None
                               /\ EnrichedOut(t, g)[s] # None /\ EnrichedOut(t, g)[s].manual =>
                                     t.manual
<1>0. t \in Template
  BY TemplatesAssumption
<1> SUFFICES ASSUME NEW s \in Slots
             PROVE  /\ EnrichedOut(t, g)[s] \in Output \cup {None}
                    /\ EnrichedOut(t, g)[s] = None <=> t.parts[s] = None
                    /\ EnrichedOut(t, g)[s] # None /\ EnrichedOut(t, g)[s].manual => t.manual
  <2>1. EnrichedOut(t, g) = [s \in Slots |-> EnrichedOut(t, g)[s]]
    BY DEF EnrichedOut
  <2> QED
    BY <2>1 DEF Outputs
<1>1. CASE t.parts[s] = None
  BY <1>1 DEF EnrichedOut
<1>2. CASE t.parts[s] # None
  <2> DEFINE dep == [d \in Slots |-> IF d \in t.reads THEN g.out[d].rev ELSE None]
             o == [rev |-> t.parts[s].rev, mat |-> t.parts[s].mat, form |-> t.parts[s].form,
                   gen |-> g.gen, indep |-> FALSE, manual |-> t.manual, dep |-> dep]
  <2>1. t.parts[s] \in Part
    BY <1>0, <1>2 DEF Template
  <2>2. ASSUME NEW d \in t.reads PROVE g.out[d].rev \in Revisions
    <3>1. d \in Slots /\ g.out[d] \in Output
      BY <2>2 DEF Active, Graph, Outputs
    <3> QED
      BY <3>1 DEF Output
  <2>3. dep \in [Slots -> Revisions \cup {None}]
    BY <2>2
  <2> HIDE DEF dep
  <2>4. o \in Output
    BY <1>0, <2>1, <2>3 DEF Output, Part, Template, Graph
  <2>5. EnrichedOut(t, g)[s] = o
    BY <1>2 DEF EnrichedOut, dep
  <2>6. o.manual = t.manual
    OBVIOUS
  <2> HIDE DEF o
  <2>7. o \in Output /\ o # None
    BY <2>4, EnrichmentRecordsAssumption
  <2>8. EnrichedOut(t, g)[s].manual => t.manual
    BY <2>5, <2>6, Zenon
  <2> QED
    BY <1>2, <2>5, <2>7, <2>8
<1> QED
  BY <1>1, <1>2

LEMMA ProducedOutType ==
    ASSUME NEW t \in Templates, t.api \notin EnrichmentApis \cup {"no_text"}
    PROVE  /\ ProducedOut(t) \in Outputs
           /\ \A s \in Slots : /\ ProducedOut(t)[s] = None <=> t.parts[s] = None
                               /\ ProducedOut(t)[s] # None => ~ProducedOut(t)[s].manual
<1>0. t \in Template /\ \A d \in t.reads : d \in Slots /\ t.parts[d] \in Part
  BY TemplatesAssumption DEF Template
<1> SUFFICES ASSUME NEW s \in Slots
             PROVE  /\ ProducedOut(t)[s] \in Output \cup {None}
                    /\ ProducedOut(t)[s] = None <=> t.parts[s] = None
                    /\ ProducedOut(t)[s] # None => ~ProducedOut(t)[s].manual
  <2>1. ProducedOut(t) = [s \in Slots |-> ProducedOut(t)[s]]
    BY DEF ProducedOut
  <2> QED
    BY <2>1 DEF Outputs
<1>1. CASE t.parts[s] = None
  BY <1>1 DEF ProducedOut
<1>2. CASE t.parts[s] # None
  <2> DEFINE dep == [d \in Slots |-> IF d \in t.reads /\ s \notin t.reads THEN t.parts[d].rev ELSE None]
             o == [rev |-> t.parts[s].rev, mat |-> t.parts[s].mat, form |-> t.parts[s].form,
                   gen |-> t.gen, indep |-> FALSE, manual |-> FALSE, dep |-> dep]
  <2>1. t.parts[s] \in Part
    BY <1>0, <1>2 DEF Template
  <2>2. dep \in [Slots -> Revisions \cup {None}]
    BY <1>0 DEF Part
  <2> HIDE DEF dep
  <2>3. o \in Output
    BY <1>0, <2>1, <2>2 DEF Output, Part, Template
  <2>4. ProducedOut(t)[s] = o
    BY <1>2 DEF ProducedOut, dep
  <2>5. o.manual = FALSE
    OBVIOUS
  <2> HIDE DEF o
  <2>6. o \in Output /\ o # None
    BY <2>3, EnrichmentRecordsAssumption
  <2>7. ~ProducedOut(t)[s].manual
    BY <2>4, <2>5, Zenon
  <2> QED
    BY <1>2, <2>4, <2>6, <2>7
<1> QED
  BY <1>1, <1>2

LEMMA PreparedOK ==
    ASSUME NEW t \in Templates, NEW r \in Resources, NEW src \in Sources, NEW sn \in Snapshot,
           PrepareOK(t, sn)
    PROVE  /\ JobOK(Prepared(t, r, src, sn))
           /\ Prepared(t, r, src, sn).res = r
<1> DEFINE j == Prepared(t, r, src, sn)
<1>0. t \in Template /\ \A s \in t.remove : t.parts[s] = None
  BY TemplatesAssumption
<1>1. CASE t.api \in EnrichmentApis \cup {"no_text"}
  <2>1. /\ CaptureOK(t, sn)
        /\ t.manual \/ NoManualTarget(t, sn.graph)
        /\ (t.remove # {}) <=> t.api = "no_text"
    BY <1>1 DEF PrepareOK, EnrichmentApis
  <2>2. /\ IsLive(sn.state) /\ sn.graph # None /\ sn.graph \in Graph
        /\ t.reads \subseteq Active(sn.graph.out)
    BY <2>1 DEF CaptureOK, Snapshot
  <2>3. /\ EnrichedOut(t, sn.graph) \in Outputs
        /\ \A s \in Slots : /\ EnrichedOut(t, sn.graph)[s] = None <=> t.parts[s] = None
                            /\ EnrichedOut(t, sn.graph)[s] # None
                               /\ EnrichedOut(t, sn.graph)[s].manual => t.manual
    BY <2>2, EnrichedOutType
  <2> DEFINE o == EnrichedOut(t, sn.graph)
  <2>4. j = [api |-> t.api, res |-> r, src |-> src, snap |-> sn, gen |-> sn.graph.gen,
             raw |-> sn.graph.raw, meta |-> sn.graph.meta, out |-> o, legacy |-> {},
             remove |-> t.remove, inputs |-> t.reads, owned |-> t.api \in {"producer", "image"},
             manual |-> t.manual]
    BY <1>1 DEF Prepared, EnrichmentApis
  <2> HIDE DEF j, o
  <2>5. /\ sn.graph.gen \in Generations /\ sn.graph.raw \in Raws
        /\ sn.graph.meta \in Metas \cup {None}
    BY <2>2 DEF Graph
  <2>6. j \in Job
    BY <1>0, <2>3, <2>4, <2>5 DEF Job, Template, o
  <2>7. Active(j.out) = {s \in Slots : t.parts[s] # None}
    BY <2>3, <2>4 DEF Active, o
  <2>8. ~j.manual => \A s \in Targets(j) : ~IsManual(j.snap.graph, s)
    BY <2>1, <2>4, <2>7 DEF NoManualTarget, TargetsOf, Targets, IsManual
  <2>m. j.manual = t.manual /\ j.snap = sn /\ j.inputs = t.reads /\ j.res = r
    BY <2>4
  <2>9. ~j.manual => \A s \in Active(j.out) : ~j.out[s].manual
    <3>1. \A s \in Active(j.out) : j.out[s].manual => t.manual
      BY <2>3, <2>4 DEF Active, o
    <3> QED
      BY <2>m, <3>1, Zenon
  <2>10. \A s \in j.remove : j.out[s] = None
    BY <1>0, <2>3, <2>4 DEF Template, o
  <2>11. Enriches(j) => j.remove = {}
    BY <2>1, <2>4 DEF Enriches, EnrichmentApis
  <2> QED
    BY <2>2, <2>m, <2>6, <2>8, <2>9, <2>10, <2>11 DEF JobOK, j
<1>2. CASE t.api \notin EnrichmentApis \cup {"no_text"}
  <2> DEFINE o == ProducedOut(t)
             m == IF t.api = "rescan" THEN sn.graph.meta ELSE t.meta
  <2>1. /\ o \in Outputs
        /\ \A s \in Slots : /\ o[s] = None <=> t.parts[s] = None
                            /\ o[s] # None => ~o[s].manual
    BY <1>2, ProducedOutType
  <2>2. j = [api |-> t.api, res |-> r, src |-> src, snap |-> sn, gen |-> t.gen,
             raw |-> t.raw, meta |-> m, out |-> o, legacy |-> {},
             remove |-> t.remove, inputs |-> {}, owned |-> t.api \in {"producer", "image"},
             manual |-> t.manual]
    BY <1>2 DEF Prepared, EnrichmentApis
  <2>3. t.api = "rescan" => sn.graph \in Graph /\ sn.graph # None
    BY <1>2 DEF PrepareOK, Snapshot
  <2>4. m \in Metas \cup {None}
    BY <1>0, <2>3 DEF Template, Graph
  <2>5. t.api \in {"producer", "image"} =>
          (sn.graph # None /\ sn.graph.gen = t.gen => NoManualTarget(t, sn.graph))
    BY <1>2 DEF PrepareOK
  <2>6. t.api = "rescan" => TargetsOf(t) = {}
    BY <1>2 DEF PrepareOK
  <2>7. t.api \in {"producer", "image", "rescan", "reindex_file"}
    BY <1>0, <1>2 DEF Template, Apis
  <2> HIDE DEF j, o, m
  <2>8. j \in Job
    BY <1>0, <2>1, <2>2, <2>4 DEF Job, Template
  <2>9. Targets(j) = TargetsOf(t)
    BY <2>1, <2>2 DEF Targets, TargetsOf, Active
  <2>10. j.api # "reindex_file" /\ j.snap.graph # None /\ j.snap.graph.gen = j.gen =>
            \A s \in Targets(j) : ~IsManual(j.snap.graph, s)
    BY <2>2, <2>5, <2>6, <2>7, <2>9 DEF NoManualTarget, IsManual
  <2>11. \A s \in Active(j.out) : ~j.out[s].manual
    BY <2>1, <2>2 DEF Active
  <2>12. \A s \in j.remove : j.out[s] = None
    BY <1>0, <2>1, <2>2 DEF Template
  <2>13. ~Enriches(j)
    BY <1>2, <2>2 DEF Enriches
  <2> QED
    BY <2>2, <2>8, <2>10, <2>11, <2>12, <2>13 DEF JobOK, j
<1> QED
  BY <1>1, <1>2

-----------------------------------------------------------------------------
(***************************************************************************)
(* What a verdict on a snapshot means.                                     *)
(***************************************************************************)
GoesOn(v) == v \in {"recheck", "attempt"}

\* No call answers "published" or "withdrawn" without a write.
LEMMA VerdictValues ==
    ASSUME NEW j, NEW c
    PROVE  Verdict(j, c) \in {"recheck", "attempt", "stale", "already_published"}
BY DEF Verdict, EnrichmentVerdict, ReindexVerdict

LEMMA EnrichmentGoesOn ==
    ASSUME NEW j, NEW c, Enriches(j), GoesOn(Verdict(j, c))
    PROVE  /\ Fresh(j, c)
           /\ MergeOK(c.graph, j.out)
           /\ Verdict(j, c) = "recheck" => Merge(c.graph, j.out) = c.graph
           /\ Verdict(j, c) = "attempt" => TargetsUnchanged(j, c)
BY DEF Verdict, EnrichmentVerdict, GoesOn

LEMMA ReindexGoesOn ==
    ASSUME NEW j, NEW c, ~Enriches(j), GoesOn(Verdict(j, c))
    PROVE  /\ ~LifecycleChanged(j, c)
           /\ c = j.snap \/ ~MovedOn(j, c)
           /\ ReconcileOK(c.graph, Rebased(j, c))
           /\ Verdict(j, c) = "recheck" => Desired(j, c) = c.graph
BY DEF Verdict, ReindexVerdict, GoesOn

LEMMA AlreadyPublished ==
    ASSUME NEW j, NEW c, Verdict(j, c) = "already_published"
    PROVE  /\ ~Enriches(j) /\ c.graph # None
           /\ ReconcileOK(c.graph, Rebased(j, c))
           /\ Desired(j, c) = c.graph
BY DEF Verdict, EnrichmentVerdict, ReindexVerdict, LostResponse

LEMMA RebasedType ==
    ASSUME NEW j \in Job, NEW c \in Snapshot
    PROVE  /\ Rebased(j, c) \in Job
           /\ Rebased(j, c).out = j.out /\ Rebased(j, c).remove = j.remove
           /\ Rebased(j, c).gen = j.gen
<1>1. c.graph # None => c.graph.meta \in Metas \cup {None}
  BY DEF Snapshot, Graph
<1> QED
  BY <1>1 DEF Rebased, Job

\* What a worker writes, or finds written, is a graph the model knows.
LEMMA ResultConsistent ==
    ASSUME NEW j, JobOK(j), NEW c \in Snapshot, GoesOn(Verdict(j, c))
    PROVE  /\ Result(j, c) \in Graph \cup {None}
           /\ Result(j, c) # None => Consistent(Result(j, c))
<1>j. j \in Job /\ j.out \in Outputs
  BY DEF JobOK, Job
<1>1. CASE Enriches(j)
  <2>1. c.graph \in Graph /\ MergeOK(c.graph, j.out)
    BY <1>1, EnrichmentGoesOn DEF Fresh, Snapshot
  <2> QED
    BY <1>j, <1>1, <2>1, MergeType, MergeConsistent DEF Result
<1>2. CASE ~Enriches(j)
  BY <1>j, <1>2, RebasedType, ReconcileConsistent DEF Result, Desired, Snapshot
<1> QED
  BY <1>1, <1>2

(***************************************************************************)
(* A result that is written holds what the job supplied; one that equals   *)
(* the graph there already says so of that graph.                          *)
(***************************************************************************)
LEMMA ResultHolds ==
    ASSUME NEW j, JobOK(j), NEW c \in Snapshot, c.graph # None => Consistent(c.graph),
           GoesOn(Verdict(j, c)) \/ Verdict(j, c) = "already_published",
           Result(j, c) # None
    PROVE  Holds(j, Result(j, c))
<1>j. j \in Job /\ j.out \in Outputs /\ \A s \in j.remove : j.out[s] = None
  BY DEF JobOK, Job
<1>1. CASE Enriches(j)
  <2>1. GoesOn(Verdict(j, c))
    BY <1>1, AlreadyPublished
  <2>2. c.graph \in Graph /\ MergeOK(c.graph, j.out)
    BY <1>1, <2>1, EnrichmentGoesOn DEF Fresh, Snapshot
  <2>3. j.remove = {}
    BY <1>1 DEF JobOK
  <2>4. \A s \in Slots : j.out[s] # None => Merge(c.graph, j.out).out[s] = j.out[s]
    BY <1>j, <2>2, MergeAdds DEF Active
  <2> QED
    BY <1>1, <2>3, <2>4 DEF Result, Holds
<1>2. CASE ~Enriches(j)
  <2>1. ReconcileOK(c.graph, Rebased(j, c))
    BY <1>2, ReindexGoesOn, AlreadyPublished
  <2>2. /\ Rebased(j, c) \in Job
        /\ Rebased(j, c).out = j.out /\ Rebased(j, c).remove = j.remove
    BY <1>j, RebasedType
  <2>3. c.graph \in Graph \cup {None}
    BY DEF Snapshot
  <2>4. Result(j, c) = Reconcile(c.graph, Rebased(j, c))
    BY <1>2 DEF Result, Desired
  <2> QED
    BY <1>j, <2>1, <2>2, <2>3, <2>4, ReconcileAdds DEF Holds
<1> QED
  BY <1>1, <1>2

LEMMA UnchangedHolds ==
    ASSUME NEW j, JobOK(j), NEW c \in Snapshot, c.graph # None => Consistent(c.graph),
           Verdict(j, c) \in {"recheck", "already_published"}, c.graph # None
    PROVE  Holds(j, c.graph)
<1>1. Result(j, c) = c.graph
  BY EnrichmentGoesOn, ReindexGoesOn, AlreadyPublished DEF Result, GoesOn
<1> QED
  BY <1>1, ResultHolds DEF GoesOn

-----------------------------------------------------------------------------
(***************************************************************************)
(* A step of the port: one resource gets a new token and a new graph.      *)
(***************************************************************************)
PortStep(r) ==
    /\ state' = [state EXCEPT ![r] = state'[r]]
    /\ graph' = [graph EXCEPT ![r] = graph'[r]]
    /\ issued' = issued + 1
    /\ state'[r] \in StateType
    /\ state'[r].token = issued + 1
    /\ graph'[r] \in Graph \cup {None}
    /\ graph'[r] # None => Consistent(graph'[r])

PortOK ==
    /\ state \in [Resources -> StateType]
    /\ graph \in [Resources -> Graph \cup {None}]
    /\ issued \in Nat
    /\ \A r \in Resources : graph[r] # None => Consistent(graph[r])
    /\ Tokens

LEMMA MoveIsPortStep ==
    ASSUME PortOK, NEW r \in Resources, NEW status \in Statuses, NEW src \in Sources \cup {None},
           NEW g \in Graph \cup {None}, g # None => Consistent(g), Port!Move(r, status, src, g)
    PROVE  PortStep(r) /\ graph'[r] = g
<1>1. /\ state' = [state EXCEPT ![r] = NextState(state[r], status, src, issued + 1)]
      /\ graph' = [graph EXCEPT ![r] = g]
      /\ issued' = issued + 1
  BY DEF Port!Move, Port!PutState, Port!NextState, NextState, Port!IsLive, IsLive
<1>2. state[r] \in StateType
  BY DEF PortOK
<1>3. NextState(state[r], status, src, issued + 1) \in StateType
  BY <1>2 DEF PortOK, NextState, StateType
<1>4. NextState(state[r], status, src, issued + 1).token = issued + 1
  BY DEF NextState
<1> HIDE DEF NextState
<1>5. /\ state'[r] = NextState(state[r], status, src, issued + 1)
      /\ graph'[r] = g
  BY <1>1 DEF PortOK
<1> QED
  BY <1>1, <1>3, <1>4, <1>5 DEF PortStep

LEMMA RemovalIsPortStep ==
    ASSUME PortOK, NEW r \in Resources, Port!Withdraw(r) \/ Port!Delete(r)
    PROVE  PortStep(r) /\ graph'[r] = None
<1>1. state[r].src \in Sources \cup {None}
  BY DEF PortOK, StateType
<1>2. PICK status \in Statuses : Port!Move(r, status, state[r].src, None)
  BY DEF Port!Withdraw, Port!Delete, Statuses
<1> QED
  BY <1>1, <1>2, MoveIsPortStep

LEMMA PortStepKeeps ==
    ASSUME PortOK, NEW r \in Resources, PortStep(r)
    PROVE  /\ PortOK'
           /\ \A q \in Resources : \A c : c.state \in StateType /\ Authentic(q, c) => Authentic(q, c)'
<1>1. /\ state'[r].token = issued + 1 /\ issued' = issued + 1
      /\ \A q \in Resources : q # r => state'[q] = state[q] /\ graph'[q] = graph[q]
  BY DEF PortOK, PortStep
<1>2. PortOK'
  BY <1>1 DEF PortOK, PortStep, Tokens, StateType
<1>3. ASSUME NEW q \in Resources, NEW c, c.state \in StateType, Authentic(q, c)
      PROVE  Authentic(q, c)'
  <2>1. c.state.token \in Nat /\ c.state.token <= issued /\ issued \in Nat
    BY <1>3 DEF Authentic, StateType, PortOK
  <2>2. state'[q] = c.state => q # r
    BY <1>1, <2>1
  <2> QED
    BY <1>1, <1>3, <2>1, <2>2 DEF Authentic
<1> QED
  BY <1>2, <1>3

-----------------------------------------------------------------------------
(***************************************************************************)
(* Steps of one worker and steps of the others.                            *)
(***************************************************************************)
AuthenticKept == \A q \in Resources : \A c : c.state \in StateType /\ Authentic(q, c) => Authentic(q, c)'

LEMMA InvPortOK == EnrichInv => PortOK
BY DEF EnrichInv, GraphsConsistent, TypeOK, PortOK

LEMMA PortKept ==
    ASSUME PortOK, UNCHANGED port \/ \E r \in Resources : PortStep(r)
    PROVE  PortOK' /\ AuthenticKept
<1>1. CASE UNCHANGED port
  BY <1>1 DEF port, PortOK, Tokens, AuthenticKept, Authentic
<1>2. CASE \E r \in Resources : PortStep(r)
  BY <1>2, PortStepKeeps DEF AuthenticKept
<1> QED
  BY <1>1, <1>2

LEMMA OtherWorker ==
    ASSUME EnrichInv, AuthenticKept, NEW x \in Workers,
           pc'[x] = pc[x], job'[x] = job[x], cur'[x] = cur[x],
           attempts'[x] = attempts[x], rebases'[x] = rebases[x]
    PROVE  WorkerInv(x)'
<1>1. WorkerInv(x)
  BY DEF EnrichInv
<1>2. CASE pc[x] = "idle"
  BY <1>1, <1>2 DEF WorkerInv
<1>3. CASE pc[x] # "idle"
  <2>1. CallInv(x)
    BY <1>1, <1>3 DEF WorkerInv
  <2>2. job[x].res \in Resources /\ cur[x].state \in StateType
    BY <2>1 DEF CallInv, JobOK, Job, Snapshot
  <2>3. Authentic(job[x].res, cur[x])'
    <3>1. Authentic(job[x].res, cur[x])
      BY <2>1 DEF CallInv
    <3> QED
      BY <2>2, <3>1 DEF AuthenticKept, Authentic
  <2> QED
    BY <1>3, <2>1, <2>3 DEF WorkerInv, CallInv
<1> QED
  BY <1>2, <1>3

LEMMA InvFrame ==
    ASSUME EnrichInv, NEW w, TypeOK', UNCHANGED port \/ \E r \in Resources : PortStep(r),
           w \in Workers => WorkerInv(w)',
           \A x \in Workers : x # w =>
              /\ pc'[x] = pc[x] /\ job'[x] = job[x] /\ cur'[x] = cur[x]
              /\ attempts'[x] = attempts[x] /\ rebases'[x] = rebases[x]
    PROVE  EnrichInv'
<1>1. PortOK' /\ AuthenticKept
  BY InvPortOK, PortKept
<1>2. \A x \in Workers : WorkerInv(x)'
  BY <1>1, OtherWorker
<1> QED
  BY <1>1, <1>2 DEF EnrichInv, GraphsConsistent, PortOK

LocalTypes ==
    /\ pc \in [Workers -> {"idle", "recheck", "attempt", "reread"}]
    /\ job \in [Workers -> Job \cup {None}]
    /\ cur \in [Workers -> Snapshot \cup {None}]
    /\ attempts \in [Workers -> 0..MaxRetries]
    /\ rebases \in [Workers -> 0..MaxRetries]
    /\ answer \in [Workers -> {None, "published", "withdrawn", "already_published",
                               "already_withdrawn", "conflict", "stale"}]

OthersIdle(w) ==
    \A x \in Workers : x # w =>
        /\ pc'[x] = pc[x] /\ job'[x] = job[x] /\ cur'[x] = cur[x]
        /\ attempts'[x] = attempts[x] /\ rebases'[x] = rebases[x]

LEMMA TypesTogether == /\ EnrichInv => LocalTypes /\ MaxRetries \in Nat
                       /\ LocalTypes' /\ PortOK' => TypeOK'
BY MaxRetriesAssumption DEF EnrichInv, GraphsConsistent, TypeOK, LocalTypes, PortOK

\* A call that ends leaves nothing of itself.
LEMMA FinishKeeps ==
    ASSUME EnrichInv, NEW w \in Workers,
           NEW a \in {"published", "withdrawn", "already_published", "already_withdrawn",
                      "conflict", "stale"},
           Finish(w, a), UNCHANGED port \/ \E r \in Resources : PortStep(r)
    PROVE  EnrichInv'
<1>1. LocalTypes /\ 0 \in 0..MaxRetries
  BY TypesTogether
<1>2. LocalTypes' /\ WorkerInv(w)' /\ OthersIdle(w)
  BY <1>1 DEF LocalTypes, Finish, WorkerInv, OthersIdle
<1>3. TypeOK'
  BY <1>2, InvPortOK, PortKept, TypesTogether
<1> QED
  BY <1>2, <1>3, InvFrame DEF OthersIdle

\* A call that goes on does so with a verdict on an authentic snapshot.
LEMMA ProceedKeeps ==
    ASSUME EnrichInv, NEW w \in Workers, NEW j, NEW c, NEW k \in 0..MaxRetries,
           Proceed(w, j, c, k), UNCHANGED port,
           JobOK(j), c \in Snapshot, c.graph # None => Consistent(c.graph), Authentic(j.res, c),
           IF Enriches(j) THEN k = 0 ELSE attempts[w] <= k
    PROVE  EnrichInv'
<1>v. Verdict(j, c) \in {"recheck", "attempt", "stale", "already_published"}
  BY VerdictValues
<1>1. CASE ~GoesOn(Verdict(j, c))
  <2>1. Finish(w, Verdict(j, c))
    BY <1>1 DEF Proceed, GoesOn
  <2> QED
    BY <1>v, <1>1, <2>1, FinishKeeps DEF GoesOn
<1>2. CASE GoesOn(Verdict(j, c))
  <2>1. /\ pc' = [pc EXCEPT ![w] = Verdict(j, c)]
        /\ job' = [job EXCEPT ![w] = j]
        /\ cur' = [cur EXCEPT ![w] = c]
        /\ rebases' = [rebases EXCEPT ![w] = k]
        /\ answer' = [answer EXCEPT ![w] = None]
        /\ UNCHANGED attempts
    BY <1>2 DEF Proceed, GoesOn
  <2>2. LocalTypes /\ j \in Job
    BY TypesTogether DEF JobOK
  <2>3. LocalTypes' /\ OthersIdle(w)
    BY <1>2, <2>1, <2>2 DEF LocalTypes, OthersIdle, GoesOn
  <2>4. /\ pc'[w] = Verdict(j, c) /\ job'[w] = j /\ cur'[w] = c
        /\ rebases'[w] = k /\ attempts'[w] = attempts[w]
    BY <2>1, <2>2 DEF LocalTypes
  <2>5. Authentic(job[w].res, cur[w])'
    BY <2>4 DEF Authentic, port
  <2>6. CallInv(w)'
    BY <2>4, <2>5 DEF CallInv
  <2>7. WorkerInv(w)'
    BY <1>2, <2>4, <2>6 DEF WorkerInv, GoesOn
  <2>8. TypeOK'
    BY <2>3, InvPortOK, PortKept, TypesTogether
  <2> QED
    BY <2>3, <2>7, <2>8, InvFrame DEF OthersIdle
<1> QED
  BY <1>1, <1>2

-----------------------------------------------------------------------------
(***************************************************************************)
(* The invariant is inductive.                                             *)
(***************************************************************************)
LEMMA EnrichInit == Init => EnrichInv
<1> SUFFICES ASSUME Init PROVE EnrichInv
  OBVIOUS
<1>1. /\ state = [r \in Resources |-> NeverCreated]
      /\ graph = [r \in Resources |-> None]
      /\ issued = 0
  BY DEF Init, Port!Init, Port!NeverCreated, NeverCreated
<1>2. NeverCreated \in StateType /\ NeverCreated.token = 0
  BY DEF NeverCreated, StateType, Statuses
<1>3. PortOK
  BY <1>1, <1>2 DEF PortOK, Tokens
<1>4. LocalTypes
  BY MaxRetriesAssumption DEF Init, LocalTypes
<1>5. TypeOK /\ \A w \in Workers : WorkerInv(w)
  BY <1>3, <1>4 DEF Init, TypeOK, PortOK, LocalTypes, WorkerInv
<1> QED
  BY <1>3, <1>5 DEF EnrichInv, GraphsConsistent, PortOK

\* A snapshot that is read now is authentic.
LEMMA ReadAuthentic ==
    ASSUME PortOK, NEW r \in Resources
    PROVE  /\ read_snapshot(r) \in Snapshot
           /\ read_snapshot(r).state = state[r] /\ read_snapshot(r).graph = graph[r]
           /\ read_snapshot(r).graph # None => Consistent(read_snapshot(r).graph)
           /\ Authentic(r, read_snapshot(r))
BY DEF PortOK, Tokens, read_snapshot, Snapshot, Authentic

LEMMA CaptureKeeps ==
    ASSUME EnrichInv, NEW w \in Workers, NEW r \in Resources, NEW t \in Templates,
           NEW src \in Sources, Capture(w, r, t, src)
    PROVE  EnrichInv'
<1> DEFINE sn == read_snapshot(r)
           j  == Prepared(t, r, src, sn)
<1>1. /\ sn \in Snapshot /\ Authentic(r, sn)
      /\ sn.graph # None => Consistent(sn.graph)
  BY InvPortOK, ReadAuthentic
<1>2. PrepareOK(t, sn) /\ Proceed(w, j, sn, 0) /\ UNCHANGED port /\ pc[w] = "idle"
  BY DEF Capture
<1>3. JobOK(j) /\ j.res = r
  BY <1>1, <1>2, PreparedOK
<1>4. attempts[w] = 0
  BY <1>2 DEF EnrichInv, WorkerInv
<1> HIDE DEF sn, j
<1>5. 0 \in 0..MaxRetries
  BY MaxRetriesAssumption
<1> QED
  BY <1>1, <1>2, <1>3, <1>4, <1>5, ProceedKeeps

LEMMA CallFacts ==
    ASSUME EnrichInv, NEW w \in Workers, pc[w] # "idle"
    PROVE  /\ CallInv(w)
           /\ job[w].res \in Resources /\ job[w].src \in Sources
           /\ attempts[w] \in 0..MaxRetries /\ rebases[w] \in 0..MaxRetries
           /\ state[job[w].res] = cur[w].state => graph[job[w].res] = cur[w].graph
<1>1. CallInv(w)
  BY DEF EnrichInv, WorkerInv
<1>2. LocalTypes
  BY TypesTogether
<1> QED
  BY <1>1, <1>2 DEF CallInv, JobOK, Job, Authentic, LocalTypes

LEMMA RecheckKeeps ==
    ASSUME EnrichInv, NEW w \in Workers, Recheck(w)
    PROVE  EnrichInv'
<1> DEFINE j      == job[w]
           latest == read_snapshot(j.res)
<1>1. /\ CallInv(w) /\ j.res \in Resources
      /\ attempts[w] \in 0..MaxRetries /\ rebases[w] \in 0..MaxRetries
  BY CallFacts DEF Recheck
<1>2. /\ latest \in Snapshot /\ Authentic(j.res, latest)
      /\ latest.graph # None => Consistent(latest.graph)
  BY <1>1, InvPortOK, ReadAuthentic
<1>3. JobOK(j) /\ IF Enriches(j) THEN rebases[w] = 0 ELSE attempts[w] <= rebases[w]
  BY <1>1 DEF CallInv
<1>4. UNCHANGED port
  BY DEF Recheck
<1>5. \/ \E a \in {"already_published", "already_withdrawn", "conflict"} : Finish(w, a)
      \/ Enriches(j) /\ Proceed(w, j, latest, rebases[w])
      \/ ~Enriches(j) /\ rebases[w] < MaxRetries /\ Proceed(w, j, latest, rebases[w] + 1)
  BY <1>1, MaxRetriesAssumption DEF Recheck
<1> HIDE DEF j, latest
<1>6. CASE \E a \in {"already_published", "already_withdrawn", "conflict"} : Finish(w, a)
  BY <1>4, <1>6, FinishKeeps
<1>7. CASE Enriches(j) /\ Proceed(w, j, latest, rebases[w])
  BY <1>1, <1>2, <1>3, <1>4, <1>7, ProceedKeeps
<1>8. CASE ~Enriches(j) /\ rebases[w] < MaxRetries /\ Proceed(w, j, latest, rebases[w] + 1)
  <2>1. rebases[w] + 1 \in 0..MaxRetries /\ attempts[w] <= rebases[w] + 1
    BY <1>1, <1>3, <1>8, MaxRetriesAssumption
  <2> QED
    BY <1>2, <1>3, <1>4, <1>8, <2>1, ProceedKeeps
<1> QED
  BY <1>5, <1>6, <1>7, <1>8

LEMMA RereadKeeps ==
    ASSUME EnrichInv, NEW w \in Workers, Reread(w)
    PROVE  EnrichInv'
<1>1. /\ CallInv(w) /\ job[w].res \in Resources /\ rebases[w] \in 0..MaxRetries
  BY CallFacts DEF Reread
<1> DEFINE latest == read_snapshot(job[w].res)
<1>2. /\ latest \in Snapshot /\ Authentic(job[w].res, latest)
      /\ latest.graph # None => Consistent(latest.graph)
  BY <1>1, InvPortOK, ReadAuthentic
<1>3. Proceed(w, job[w], latest, rebases[w]) /\ UNCHANGED port
  BY DEF Reread
<1> HIDE DEF latest
<1> QED
  BY <1>1, <1>2, <1>3, ProceedKeeps DEF CallInv

LEMMA LoseKeeps ==
    ASSUME EnrichInv, NEW w \in Workers, Lose(w)
    PROVE  EnrichInv'
<1>1. /\ CallInv(w) /\ pc[w] = "attempt"
      /\ attempts[w] \in 0..MaxRetries /\ rebases[w] \in 0..MaxRetries
  BY CallFacts DEF Lose
<1>2. UNCHANGED port
  BY DEF Lose
<1>3. CASE BudgetSpent(w)
  BY <1>2, <1>3, FinishKeeps DEF Lose
<1>4. CASE ~BudgetSpent(w)
  <2>1. /\ pc' = [pc EXCEPT ![w] = "reread"]
        /\ attempts' = [attempts EXCEPT ![w] = attempts[w] + 1]
        /\ rebases' = [rebases EXCEPT ![w] = IF Enriches(job[w]) THEN rebases[w] ELSE rebases[w] + 1]
        /\ UNCHANGED <<job, cur, answer>>
    BY <1>4 DEF Lose
  <2>2. LocalTypes /\ MaxRetries \in Nat
    BY TypesTogether
  <2>3. IF Enriches(job[w]) THEN attempts[w] + 1 <= MaxRetries ELSE rebases[w] + 1 <= MaxRetries
    BY <1>1, <1>4, <2>2 DEF BudgetSpent
  <2>4. IF Enriches(job[w]) THEN rebases[w] = 0 ELSE attempts[w] <= rebases[w]
    BY <1>1 DEF CallInv
  <2>5. attempts[w] + 1 \in 0..MaxRetries
    BY <1>1, <2>2, <2>3, <2>4
  <2>6. LocalTypes' /\ OthersIdle(w)
    BY <1>1, <2>1, <2>2, <2>3, <2>5 DEF LocalTypes, OthersIdle
  <2>7. /\ pc'[w] = "reread" /\ job'[w] = job[w] /\ cur'[w] = cur[w]
        /\ attempts'[w] = attempts[w] + 1
        /\ rebases'[w] = IF Enriches(job[w]) THEN rebases[w] ELSE rebases[w] + 1
    BY <2>1, <2>2 DEF LocalTypes
  <2>8. IF Enriches(job[w]) THEN rebases'[w] = 0 ELSE attempts'[w] <= rebases'[w]
    BY <1>1, <2>4, <2>7
  <2>9. Authentic(job[w].res, cur[w])'
    <3>1. Authentic(job[w].res, cur[w])
      BY <1>1 DEF CallInv
    <3> QED
      BY <1>2, <2>7, <3>1 DEF Authentic, port
  <2>10. CallInv(w)'
    BY <1>1, <2>7, <2>8, <2>9 DEF CallInv
  <2>11. WorkerInv(w)'
    BY <2>7, <2>10 DEF WorkerInv
  <2>12. TypeOK'
    BY <1>2, <2>6, InvPortOK, PortKept, TypesTogether
  <2> QED
    BY <1>2, <2>6, <2>11, <2>12, InvFrame DEF OthersIdle
<1> QED
  BY <1>3, <1>4

(***************************************************************************)
(* The write: what it publishes was computed from the graph that is there. *)
(***************************************************************************)
LEMMA ApplyWrites ==
    ASSUME EnrichInv, NEW w \in Workers, Apply(w)
    PROVE  LET j == job[w]
               c == cur[w]
               g == Result(j, c)
           IN  /\ CallInv(w) /\ Verdict(j, c) = "attempt"
               /\ j.res \in Resources
               /\ state[j.res] = c.state /\ graph[j.res] = c.graph
               /\ g \in Graph \cup {None}
               /\ g # None => Consistent(g)
               /\ \/ Finish(w, "withdrawn") /\ g = None /\ PortStep(j.res) /\ graph'[j.res] = g
                  \/ Finish(w, "published") /\ g # None /\ PortStep(j.res) /\ graph'[j.res] = g
                  \/ Finish(w, "stale") /\ UNCHANGED port
<1> DEFINE j == job[w]
           c == cur[w]
           g == Result(j, c)
<1>1. pc[w] = "attempt" /\ state[j.res] = c.state
  BY DEF Apply
<1>2. CallInv(w) /\ j.res \in Resources /\ j.src \in Sources /\ graph[j.res] = c.graph
  BY <1>1, CallFacts
<1>3. JobOK(j) /\ c \in Snapshot /\ Verdict(j, c) = "attempt"
  BY <1>1, <1>2 DEF CallInv
<1>4. g \in Graph \cup {None} /\ (g # None => Consistent(g))
  BY <1>3, ResultConsistent DEF GoesOn
<1>5. CASE g = None
  <2>1. Port!Withdraw(j.res) /\ Finish(w, "withdrawn")
    BY <1>5 DEF Apply
  <2>2. PortStep(j.res) /\ graph'[j.res] = None
    BY <1>2, <2>1, InvPortOK, RemovalIsPortStep
  <2> QED
    BY <1>1, <1>2, <1>3, <1>4, <1>5, <2>1, <2>2
<1>6. CASE g # None /\ PutAllowed(state, j.res, "published", j.src)
  <2>1. Port!Move(j.res, "published", j.src, g) /\ Finish(w, "published")
    BY <1>6 DEF Apply
  <2>2. PortStep(j.res) /\ graph'[j.res] = g
    BY <1>2, <1>4, <2>1, InvPortOK, MoveIsPortStep DEF Statuses
  <2> QED
    BY <1>1, <1>2, <1>3, <1>4, <1>6, <2>1, <2>2
<1>7. CASE g # None /\ ~PutAllowed(state, j.res, "published", j.src)
  <2>1. Finish(w, "stale") /\ UNCHANGED port
    BY <1>7 DEF Apply
  <2> QED
    BY <1>1, <1>2, <1>3, <1>4, <1>7, <2>1
<1> QED
  BY <1>5, <1>6, <1>7

LEMMA ApplyKeeps ==
    ASSUME EnrichInv, NEW w \in Workers, Apply(w)
    PROVE  EnrichInv'
BY ApplyWrites, FinishKeeps

\* An import, a withdrawal or a deletion by somebody else.
LEMMA OutsideIsPortStep ==
    ASSUME EnrichInv, NEW r \in Resources, Import(r) \/ Withdraw(r) \/ Delete(r)
    PROVE  /\ PortStep(r)
           /\ UNCHANGED <<pc, job, cur, attempts, rebases, answer>>
<1>1. CASE Import(r)
  <2>1. PICK src \in Sources, g \in Imports : Port!Move(r, "published", src, g)
    BY <1>1 DEF Import
  <2>2. g \in Graph /\ Consistent(g)
    BY ImportsAssumption
  <2> QED
    BY <1>1, <2>1, <2>2, InvPortOK, MoveIsPortStep DEF Import, Statuses
<1>2. CASE Withdraw(r) \/ Delete(r)
  BY <1>2, InvPortOK, RemovalIsPortStep DEF Withdraw, Delete
<1> QED
  BY <1>1, <1>2

LEMMA OutsideKeeps ==
    ASSUME EnrichInv, NEW r \in Resources, PortStep(r),
           UNCHANGED <<pc, job, cur, attempts, rebases, answer>>
    PROVE  EnrichInv'
<1>1. LocalTypes'
  BY TypesTogether DEF LocalTypes
<1>2. TypeOK'
  BY <1>1, InvPortOK, PortKept, TypesTogether
<1>3. PortOK' /\ AuthenticKept
  BY InvPortOK, PortKept
<1>4. \A x \in Workers : WorkerInv(x)'
  BY <1>3, OtherWorker
<1> QED
  BY <1>2, <1>3, <1>4 DEF EnrichInv, GraphsConsistent, PortOK

LEMMA EnrichNext == EnrichInv /\ [Next]_vars => EnrichInv'
<1> SUFFICES ASSUME EnrichInv, [Next]_vars PROVE EnrichInv'
  OBVIOUS
<1>1. ASSUME NEW w \in Workers, NEW r \in Resources, NEW t \in Templates, NEW src \in Sources,
             Capture(w, r, t, src)
      PROVE  EnrichInv'
  BY <1>1, CaptureKeeps
<1>2. ASSUME NEW w \in Workers, Work(w) PROVE EnrichInv'
  BY <1>2, RecheckKeeps, ApplyKeeps, LoseKeeps, RereadKeeps DEF Work
<1>3. ASSUME NEW r \in Resources, Import(r) \/ Withdraw(r) \/ Delete(r) PROVE EnrichInv'
  BY <1>3, OutsideIsPortStep, OutsideKeeps
<1>4. CASE UNCHANGED vars
  <2>1. PortOK' /\ AuthenticKept /\ LocalTypes'
    BY <1>4, InvPortOK, PortKept, TypesTogether DEF vars, port, LocalTypes
  <2>2. TypeOK'
    BY <2>1, TypesTogether
  <2>3. \A x \in Workers : WorkerInv(x)'
    BY <1>4, <2>1, OtherWorker DEF vars
  <2> QED
    BY <2>1, <2>2, <2>3 DEF EnrichInv, GraphsConsistent, PortOK
<1> QED
  BY <1>1, <1>2, <1>3, <1>4 DEF Next

LEMMA EnrichCorrect == Spec => []EnrichInv
BY EnrichInit, EnrichNext, PTL DEF Spec

(***************************************************************************)
(* However publications interleave, every published graph is consistent.   *)
(***************************************************************************)
THEOREM EnrichmentGraphsConsistent == Spec => []GraphsConsistent
<1>1. EnrichInv => GraphsConsistent
  BY DEF EnrichInv
<1> QED
  BY <1>1, EnrichCorrect, PTL

-----------------------------------------------------------------------------
(***************************************************************************)
(* How a call ends, and what is published when it does.                    *)
(***************************************************************************)
Ends(w) == job[w] # None /\ job'[w] = None

LEMMA OwnStepEnds ==
    ASSUME EnrichInv, [Next]_vars, NEW w \in Workers, Ends(w)
    PROVE  Work(w) /\ pc[w] # "idle"
<1>1. pc[w] # "idle"
  BY DEF EnrichInv, WorkerInv, Ends
<1>t. LocalTypes
  BY TypesTogether
<1>2. ASSUME NEW x \in Workers, NEW r \in Resources, NEW t \in Templates, NEW src \in Sources,
             Capture(x, r, t, src)
      PROVE  FALSE
  <2>1. x # w
    BY <1>1, <1>2 DEF Capture
  <2>2. job'[w] = job[w]
    BY <1>2, <1>t, <2>1 DEF Capture, Proceed, Finish, LocalTypes
  <2> QED
    BY <2>2 DEF Ends
<1>3. ASSUME NEW x \in Workers, Work(x), x # w PROVE FALSE
  <2>1. job'[w] = job[w]
    BY <1>3, <1>t DEF Work, Recheck, Apply, Lose, Reread, Proceed, Finish, LocalTypes
  <2> QED
    BY <2>1 DEF Ends
<1>4. ASSUME NEW r \in Resources, Import(r) \/ Withdraw(r) \/ Delete(r) PROVE FALSE
  BY <1>4 DEF Import, Withdraw, Delete, Ends
<1>5. CASE UNCHANGED vars
  BY <1>5 DEF vars, Ends
<1> QED
  BY <1>1, <1>2, <1>3, <1>4, <1>5 DEF Next

\* A call that ends in its own verdict on a snapshot read just now.
LEMMA ProceedEnds ==
    ASSUME EnrichInv, NEW w \in Workers, NEW k, pc[w] # "idle", Ends(w),
           Proceed(w, job[w], read_snapshot(job[w].res), k)
    PROVE  \/ answer'[w] = "stale"
           \/ answer'[w] = "already_published" /\ Holds(job[w], graph[job[w].res])
<1> DEFINE j == job[w]
           c == read_snapshot(j.res)
<1>1. CallInv(w) /\ j.res \in Resources
  BY CallFacts
<1>2. c \in Snapshot /\ c.graph = graph[j.res] /\ (c.graph # None => Consistent(c.graph))
  BY <1>1, InvPortOK, ReadAuthentic
<1>t. LocalTypes
  BY TypesTogether
<1>3. ~GoesOn(Verdict(j, c)) /\ answer'[w] = Verdict(j, c)
  BY <1>t DEF Proceed, Finish, GoesOn, LocalTypes, Ends
<1> HIDE DEF j, c
<1>4. Verdict(j, c) \in {"stale", "already_published"}
  BY <1>3, VerdictValues DEF GoesOn
<1>5. ASSUME Verdict(j, c) = "already_published" PROVE Holds(j, graph[j.res])
  <2>1. JobOK(j) /\ c.graph # None
    BY <1>1, <1>5, AlreadyPublished DEF CallInv, j
  <2> QED
    BY <1>2, <1>5, <2>1, UnchangedHolds
<1> QED
  BY <1>3, <1>4, <1>5 DEF j

LEMMA RecheckEnds ==
    ASSUME EnrichInv, NEW w \in Workers, Ends(w), Recheck(w)
    PROVE  \/ answer'[w] \in {"stale", "conflict"}
           \/ answer'[w] = "already_published" /\ Holds(job[w], graph[job[w].res])
           \/ answer'[w] = "already_withdrawn" /\ graph[job[w].res] = None
<1> DEFINE j      == job[w]
           latest == read_snapshot(j.res)
<1>t. LocalTypes
  BY TypesTogether
<1>1. pc[w] = "recheck"
  BY DEF Recheck
<1>2. /\ CallInv(w) /\ j.res \in Resources
      /\ state[j.res] = cur[w].state => graph[j.res] = cur[w].graph
  BY <1>1, CallFacts
<1>3. JobOK(j) /\ cur[w] \in Snapshot /\ Verdict(j, cur[w]) = "recheck"
      /\ (cur[w].graph # None => Consistent(cur[w].graph))
  BY <1>1, <1>2 DEF CallInv
<1>4. /\ latest \in Snapshot /\ latest.state = state[j.res] /\ latest.graph = graph[j.res]
      /\ latest.graph # None => Consistent(latest.graph)
  BY <1>2, InvPortOK, ReadAuthentic
<1>f. \A a : Finish(w, a) => answer'[w] = a
  BY <1>t DEF Finish, LocalTypes
<1>5. CASE Enriches(j) /\ Verdict(j, latest) = "recheck"
  <2>1. Finish(w, "already_published")
    BY <1>5 DEF Recheck
  <2>2. latest.graph # None
    BY <1>5, EnrichmentGoesOn DEF GoesOn, Fresh
  <2>3. Holds(j, latest.graph)
    BY <1>3, <1>4, <1>5, <2>2, UnchangedHolds
  <2> QED
    BY <1>4, <1>f, <2>1, <2>3
<1>6. CASE Enriches(j) /\ Verdict(j, latest) # "recheck"
  <2>1. Proceed(w, j, latest, rebases[w])
    BY <1>6 DEF Recheck
  <2> QED
    BY <1>1, <2>1, ProceedEnds
<1>7. CASE ~Enriches(j) /\ latest.state = cur[w].state
  <2>1. Finish(w, IF cur[w].graph = None THEN "already_withdrawn" ELSE "already_published")
    BY <1>7 DEF Recheck
  <2>2. graph[j.res] = cur[w].graph
    BY <1>2, <1>4, <1>7
  <2>3. cur[w].graph # None => Holds(j, cur[w].graph)
    BY <1>3, UnchangedHolds
  <2> QED
    BY <1>f, <2>1, <2>2, <2>3
<1>8. CASE ~Enriches(j) /\ latest.state # cur[w].state
  <2>1. Finish(w, "conflict") \/ Proceed(w, j, latest, rebases[w] + 1)
    BY <1>8 DEF Recheck
  <2>2. CASE Finish(w, "conflict")
    BY <1>f, <2>2
  <2>3. CASE Proceed(w, j, latest, rebases[w] + 1)
    BY <1>1, <2>3, ProceedEnds
  <2> QED
    BY <2>1, <2>2, <2>3
<1> QED
  BY <1>5, <1>6, <1>7, <1>8

(***************************************************************************)
(* Only a write answers "published" or "withdrawn".                        *)
(***************************************************************************)
LEMMA CallEnds ==
    ASSUME EnrichInv, [Next]_vars, NEW w \in Workers, Ends(w)
    PROVE  \/ Apply(w)
           \/ /\ graph' = graph
              /\ \/ answer'[w] \in {"stale", "conflict"}
                 \/ answer'[w] = "already_published" /\ Holds(job[w], graph[job[w].res])
                 \/ answer'[w] = "already_withdrawn" /\ graph[job[w].res] = None
<1>1. Work(w) /\ pc[w] # "idle"
  BY OwnStepEnds
<1>t. LocalTypes
  BY TypesTogether
<1>2. CASE Recheck(w)
  BY <1>2, RecheckEnds DEF Recheck, port
<1>3. CASE Lose(w)
  <2>1. job[w] # None /\ job'[w] = None
    BY DEF Ends
  <2>2. Finish(w, "conflict")
    BY <1>3, <2>1 DEF Lose
  <2> QED
    BY <1>3, <1>t, <2>2 DEF Lose, Finish, LocalTypes, port
<1>4. CASE Reread(w)
  BY <1>1, <1>4, ProceedEnds DEF Reread, port
<1> QED
  BY <1>1, <1>2, <1>3, <1>4 DEF Work

\* The write behind an answer "published" or "withdrawn".
LEMMA WroteIsApply ==
    ASSUME EnrichInv, [Next]_vars, NEW w \in Workers, Wrote(w)
    PROVE  LET j == job[w]
               c == cur[w]
           IN  /\ CallInv(w) /\ Verdict(j, c) = "attempt"
               /\ j.res \in Resources
               /\ state[j.res] = c.state /\ graph[j.res] = c.graph
               /\ graph'[j.res] = Result(j, c)
<1>1. Ends(w) /\ answer'[w] \in {"published", "withdrawn"}
  BY DEF Wrote, Ends
<1>2. Apply(w)
  BY <1>1, CallEnds
<1>3. answer'[w] # "stale" /\ \A a : Finish(w, a) => answer'[w] = a
  BY <1>1, TypesTogether DEF Finish, LocalTypes
<1> QED
  BY <1>2, <1>3, ApplyWrites

-----------------------------------------------------------------------------
(***************************************************************************)
(* A write lands on the authority it was computed from: the lifecycle, the *)
(* source and the inputs that were captured (Fresh, LifecycleChanged,      *)
(* MovedOn, and the conditional write).                                    *)
(***************************************************************************)
CapturedAuthority(j, c) ==
    /\ c.state.life = j.snap.state.life
    /\ IsLive(c.state) = IsLive(j.snap.state)
    /\ j.snap.graph # None =>
          /\ c.graph # None
          /\ SourceIdentity(c.graph) = SourceIdentity(j.snap.graph)
          /\ \A d \in j.inputs :
                /\ c.graph.out[d] # None
                /\ c.graph.out[d].rev = j.snap.graph.out[d].rev
                /\ Enriches(j) => c.graph.out[d].mat = j.snap.graph.out[d].mat

LEMMA GoesOnOnAuthority ==
    ASSUME NEW j, NEW c, JobOK(j), GoesOn(Verdict(j, c))
    PROVE  CapturedAuthority(j, c)
<1>1. CASE Enriches(j)
  <2>1. Fresh(j, c) /\ IsLive(j.snap.state)
    BY <1>1, EnrichmentGoesOn DEF JobOK
  <2>2. IsLive(c.state) = IsLive(j.snap.state)
    BY <2>1 DEF Fresh, IsLive
  <2> QED
    BY <2>1, <2>2 DEF Fresh, SameMaterial, SourceIdentity, CapturedAuthority
<1>2. CASE ~Enriches(j)
  <2>1. ~LifecycleChanged(j, c) /\ (c = j.snap \/ ~MovedOn(j, c))
    BY <1>2, ReindexGoesOn
  <2>2. /\ c.state.life = j.snap.state.life
        /\ IsLive(c.state) = IsLive(j.snap.state)
    BY <2>1 DEF LifecycleChanged, IsLive
  <2>3. CASE c = j.snap
    <3>1. j.snap.graph # None => \A d \in j.inputs : j.snap.graph.out[d] # None
      BY DEF JobOK, Active
    <3> QED
      BY <1>2, <2>2, <2>3, <3>1 DEF CapturedAuthority
  <2>4. CASE ~MovedOn(j, c)
    BY <1>2, <2>2, <2>4 DEF MovedOn, InputChanged, CapturedAuthority
  <2> QED
    BY <2>1, <2>3, <2>4
<1> QED
  BY <1>1, <1>2

\* The step property of OldWorkRejected, for one worker.
LEMMA WroteOnAuthority ==
    ASSUME EnrichInv, [Next]_vars, NEW w \in Workers, Wrote(w)
    PROVE  OnCapturedAuthority(w)
<1>1. /\ CallInv(w) /\ Verdict(job[w], cur[w]) = "attempt"
      /\ state[job[w].res] = cur[w].state /\ graph[job[w].res] = cur[w].graph
  BY WroteIsApply
<1>2. JobOK(job[w]) /\ GoesOn(Verdict(job[w], cur[w]))
  BY <1>1 DEF CallInv, GoesOn
<1>3. CapturedAuthority(job[w], cur[w])
  BY <1>2, GoesOnOnAuthority
<1> QED
  BY <1>1, <1>3 DEF CapturedAuthority, OnCapturedAuthority

(***************************************************************************)
(* "Source/lifecycle, target, or immediate input changes reject old work." *)
(***************************************************************************)
THEOREM EnrichmentRejectsOldWork == Spec => OldWorkRejected
<1>1. EnrichInv /\ [Next]_vars => [\A w \in Workers : Wrote(w) => OnCapturedAuthority(w)]_vars
  BY WroteOnAuthority
<1> QED
  BY <1>1, EnrichCorrect, PTL DEF Spec, OldWorkRejected

-----------------------------------------------------------------------------
(***************************************************************************)
(* What a write spares of the graph it was computed from.                  *)
(***************************************************************************)
LEMMA ResultSpares ==
    ASSUME NEW j, NEW c \in Snapshot, JobOK(j), GoesOn(Verdict(j, c)),
           c.graph # None, Consistent(c.graph)
    PROVE  /\ OutputsSurvive(j, c.graph, Result(j, c))
           /\ MetadataKept(c.graph, Result(j, c))
<1> DEFINE old == c.graph
           new == Result(j, c)
<1>j. j \in Job /\ j.out \in Outputs /\ old \in Graph
  BY DEF JobOK, Job, Snapshot
<1>1. CASE Enriches(j)
  <2>1. MergeOK(old, j.out) /\ new = Merge(old, j.out)
    BY <1>1, EnrichmentGoesOn DEF Result
  <2>2. new \in Graph /\ new # None /\ new.meta = old.meta
    BY <1>j, <2>1, MergeType, EnrichmentRecordsAssumption
  <2>3. ASSUME NEW s \in Active(old.out) \ Targets(j)
        PROVE  \/ new.out[s] = old.out[s]
               \/ new.out[s] = None /\ LostItsInput(old.out, new.out, s)
    BY <1>j, <2>1, MergeSpares DEF Targets
  <2> HIDE DEF new, old
  <2>4. OutputsSurvive(j, old, new)
    BY <2>2, <2>3 DEF OutputsSurvive
  <2> QED
    BY <2>2, <2>4 DEF MetadataKept, old, new
<1>2. CASE ~Enriches(j)
  <2> DEFINE in == Rebased(j, c)
  <2>1. ReconcileOK(old, in) /\ new = Reconcile(old, in)
    BY <1>2, ReindexGoesOn DEF Result, Desired
  <2>2. in \in Job /\ in.out = j.out /\ in.remove = j.remove /\ in.gen = j.gen
    BY <1>j, RebasedType
  <2> HIDE DEF in
  <2>3. MetadataKept(old, new)
    BY <1>j, <2>1, <2>2, ReconcileKeepsMetadata
  <2>4. ASSUME NEW s \in Active(old.out) \ Targets(j)
        PROVE  \/ new # None /\ new.out[s] = old.out[s]
               \/ j.gen # old.gen /\ ~old.out[s].indep
               \/ /\ new = None \/ new.out[s] = None
                  /\ LostItsInput(old.out, IF new = None THEN NoOutputs ELSE new.out, s)
    BY <1>j, <2>1, <2>2, ReconcileSpares DEF Targets
  <2>5. OutputsSurvive(j, old, new)
    BY <2>4 DEF OutputsSurvive
  <2> QED
    BY <2>3, <2>5
<1> QED
  BY <1>1, <1>2

\* An automatic job writes over no manual output of the source it is for.
LEMMA WritesOverNoManual ==
    ASSUME NEW j, NEW c, JobOK(j), Verdict(j, c) = "attempt", c.graph # None
    PROVE  ManualAuthoritative(j, c.graph)
<1> SUFFICES ASSUME j.api # "reindex_file", ~j.manual, c.graph.gen = j.gen,
                    NEW s \in Targets(j)
             PROVE  ~IsManual(c.graph, s)
  BY DEF ManualAuthoritative
<1>0. /\ j.snap.graph # None /\ j.snap.graph.gen = j.gen => ~IsManual(j.snap.graph, s)
      /\ s \in Active(j.out) => ~j.out[s].manual
  BY DEF JobOK
<1>1. CASE Enriches(j)
  <2>1. Fresh(j, c) /\ TargetsUnchanged(j, c) /\ j.snap.graph # None
    BY <1>1, EnrichmentGoesOn DEF GoesOn, JobOK
  <2>2. j.snap.graph.gen = j.gen
    BY <2>1 DEF Fresh
  <2>3. j.snap.graph.out[s] = c.graph.out[s]
    BY <2>1 DEF TargetsUnchanged
  <2> QED
    BY <1>0, <2>1, <2>2, <2>3 DEF IsManual
<1>2. CASE ~Enriches(j) /\ c = j.snap /\ c.graph # None
  BY <1>0, <1>2
<1>3. CASE ~Enriches(j) /\ ~MovedOn(j, c)
  <2>1. /\ j.snap.graph # None
        /\ c.graph.gen = j.snap.graph.gen
        /\ j.snap.graph.out[s] = c.graph.out[s] \/ j.out[s] = c.graph.out[s]
    BY <1>3 DEF MovedOn, SourceIdentity, TargetChanged
  <2>2. CASE j.snap.graph.out[s] = c.graph.out[s]
    BY <1>0, <2>1, <2>2 DEF IsManual
  <2>3. CASE j.out[s] = c.graph.out[s]
    BY <1>0, <2>3 DEF IsManual, Targets, Active, JobOK
  <2> QED
    BY <2>1, <2>2, <2>3
<1> QED
  BY <1>1, <1>2, <1>3, ReindexGoesOn DEF GoesOn

LEMMA WroteSpares ==
    ASSUME EnrichInv, [Next]_vars, NEW w \in Workers, Wrote(w), graph[job[w].res] # None
    PROVE  /\ OutputsSurvive(job[w], graph[job[w].res], graph'[job[w].res])
           /\ MetadataKept(graph[job[w].res], graph'[job[w].res])
           /\ ManualAuthoritative(job[w], graph[job[w].res])
<1>1. /\ CallInv(w) /\ Verdict(job[w], cur[w]) = "attempt"
      /\ graph[job[w].res] = cur[w].graph /\ graph'[job[w].res] = Result(job[w], cur[w])
  BY WroteIsApply
<1>2. JobOK(job[w]) /\ cur[w] \in Snapshot /\ Consistent(cur[w].graph)
  BY <1>1 DEF CallInv
<1> QED
  BY <1>1, <1>2, ResultSpares, WritesOverNoManual DEF GoesOn

(***************************************************************************)
(* "Other native/independent projections survive", independent metadata is *)
(* preserved, and no automatic job overwrites a manual output.             *)
(***************************************************************************)
THEOREM EnrichmentWritesSpare == Spec => WritesSpare
<1> DEFINE Step ==
        \A w \in Workers :
          LET j   == job[w]
              old == graph[j.res]
              new == graph'[j.res]
          IN  Wrote(w) /\ old # None =>
                 OutputsSurvive(j, old, new) /\ MetadataKept(old, new) /\ ManualAuthoritative(j, old)
<1>1. EnrichInv /\ [Next]_vars => [Step]_vars
  BY WroteSpares
<1> QED
  BY <1>1, EnrichCorrect, PTL DEF Spec, WritesSpare

(***************************************************************************)
(* Every answer is true of what is published when it is given.             *)
(***************************************************************************)
LEMMA AnswerTrue ==
    ASSUME EnrichInv, [Next]_vars, NEW w \in Workers, Ends(w)
    PROVE  /\ answer'[w] \in {"published", "already_published"} => Holds(job[w], graph'[job[w].res])
           /\ answer'[w] = "already_withdrawn" => graph'[job[w].res] = None
<1>1. CASE Apply(w)
  <2>1. /\ CallInv(w) /\ Verdict(job[w], cur[w]) = "attempt"
        /\ \/ Finish(w, "withdrawn")
           \/ /\ Finish(w, "published") /\ Result(job[w], cur[w]) # None
              /\ graph'[job[w].res] = Result(job[w], cur[w])
           \/ Finish(w, "stale")
    BY <1>1, ApplyWrites
  <2>2. \A a : Finish(w, a) => answer'[w] = a
    BY TypesTogether DEF Finish, LocalTypes
  <2>3. CASE answer'[w] = "published"
    <3>1. JobOK(job[w]) /\ cur[w] \in Snapshot /\ (cur[w].graph # None => Consistent(cur[w].graph))
      BY <2>1 DEF CallInv
    <3>2. Result(job[w], cur[w]) # None /\ graph'[job[w].res] = Result(job[w], cur[w])
      BY <2>1, <2>2, <2>3
    <3>3. Holds(job[w], Result(job[w], cur[w]))
      BY <2>1, <3>1, <3>2, ResultHolds DEF GoesOn
    <3> QED
      BY <2>3, <3>2, <3>3
  <2> QED
    BY <2>1, <2>2, <2>3
<1> QED
  BY <1>1, CallEnds

THEOREM EnrichmentAnswersTrue == Spec => AnswersTrue
<1> DEFINE Step ==
        \A w \in Workers : job[w] # None /\ job'[w] = None =>
          /\ answer'[w] \in {"published", "already_published"} => Holds(job[w], graph'[job[w].res])
          /\ answer'[w] = "already_withdrawn" => graph'[job[w].res] = None
<1>1. EnrichInv /\ [Next]_vars => [Step]_vars
  BY AnswerTrue DEF Ends
<1> QED
  BY <1>1, EnrichCorrect, PTL DEF Spec, AnswersTrue

-----------------------------------------------------------------------------
(***************************************************************************)
(* The loops of publish and publish_reindex: every step of a call brings   *)
(* it nearer to its end.                                                   *)
(***************************************************************************)
Measure(p, left) ==
    IF p = "idle" THEN 0
    ELSE 1 + 3 * left + CASE p = "attempt" -> 0 [] p = "recheck" -> 1 [] p = "reread" -> 2

Measured ==
    \A w \in Workers :
        /\ StepsLeft(w) = Measure(pc[w], RetriesLeft(w))
        /\ pc[w] # "idle" => RetriesLeft(w) \in Nat /\ StepsLeft(w) > 0

LEMMA StepsLeftIsMeasure == EnrichInv => Measured
<1> SUFFICES ASSUME EnrichInv, NEW w \in Workers
             PROVE  /\ StepsLeft(w) = Measure(pc[w], RetriesLeft(w))
                    /\ pc[w] # "idle" => RetriesLeft(w) \in Nat /\ StepsLeft(w) > 0
  BY DEF Measured
<1>1. LocalTypes /\ MaxRetries \in Nat
  BY TypesTogether
<1>2. RetriesLeft(w) \in Nat
  BY <1>1 DEF RetriesLeft, LocalTypes
<1>3. pc[w] \in {"idle", "recheck", "attempt", "reread"}
  BY <1>1 DEF LocalTypes
<1> HIDE DEF RetriesLeft
<1> QED
  BY <1>2, <1>3 DEF StepsLeft, Measure

LEMMA CallMovesItself ==
    ASSUME EnrichInv, [Next]_vars, NEW w \in Workers, pc[w] # "idle", CallOf(w)' # CallOf(w)
    PROVE  Work(w)
<1>t. LocalTypes
  BY TypesTogether
<1>1. ASSUME NEW x \in Workers, NEW r \in Resources, NEW t \in Templates, NEW src \in Sources,
             Capture(x, r, t, src)
      PROVE  FALSE
  <2>1. x # w
    BY <1>1 DEF Capture
  <2> QED
    BY <1>1, <1>t, <2>1 DEF Capture, Proceed, Finish, LocalTypes, CallOf
<1>2. ASSUME NEW x \in Workers, Work(x), x # w PROVE FALSE
  BY <1>2, <1>t DEF Work, Recheck, Apply, Lose, Reread, Proceed, Finish, LocalTypes, CallOf
<1>3. ASSUME NEW r \in Resources, Import(r) \/ Withdraw(r) \/ Delete(r) PROVE FALSE
  BY <1>3 DEF Import, Withdraw, Delete, CallOf
<1>4. CASE UNCHANGED vars
  BY <1>4 DEF vars, CallOf
<1> QED
  BY <1>1, <1>2, <1>3, <1>4 DEF Next

\* A call that does not end goes on from its own job.
LEMMA ProceedMoves ==
    ASSUME LocalTypes, NEW w \in Workers, NEW c, NEW k, Proceed(w, job[w], c, k)
    PROVE  \/ pc'[w] = "idle"
           \/ /\ pc'[w] = Verdict(job[w], c) /\ pc'[w] \in {"recheck", "attempt"}
              /\ job'[w] = job[w] /\ attempts'[w] = attempts[w] /\ rebases'[w] = k
<1>1. CASE GoesOn(Verdict(job[w], c))
  BY <1>1 DEF Proceed, LocalTypes, GoesOn
<1>2. CASE ~GoesOn(Verdict(job[w], c))
  <2>1. Finish(w, Verdict(job[w], c))
    BY <1>2 DEF Proceed, GoesOn
  <2> QED
    BY <2>1 DEF Finish, LocalTypes
<1> QED
  BY <1>1, <1>2

(***************************************************************************)
(* A step of a call ends it, uses up a retry, or moves it on in its round. *)
(***************************************************************************)
LEMMA WorkMoves ==
    ASSUME EnrichInv, NEW w \in Workers, Work(w)
    PROVE  /\ pc[w] # "idle"
           /\ \/ pc'[w] = "idle"
              \/ pc'[w] # "idle" /\ RetriesLeft(w)' = RetriesLeft(w) - 1
              \/ pc[w] = "reread" /\ pc'[w] \in {"recheck", "attempt"} /\ RetriesLeft(w)' = RetriesLeft(w)
              \/ pc[w] = "recheck" /\ pc'[w] = "attempt" /\ RetriesLeft(w)' = RetriesLeft(w)
<1>t. LocalTypes /\ MaxRetries \in Nat
  BY TypesTogether
<1>n. attempts[w] \in Nat /\ rebases[w] \in Nat
  BY <1>t DEF LocalTypes
<1>f. \A a : Finish(w, a) => pc'[w] = "idle"
  BY <1>t DEF Finish, LocalTypes
<1> DEFINE latest == read_snapshot(job[w].res)
<1>1. CASE Recheck(w)
  <2>1. CASE Enriches(job[w])
    <3>1. \/ Finish(w, "already_published")
          \/ Proceed(w, job[w], latest, rebases[w]) /\ Verdict(job[w], latest) # "recheck"
      BY <1>1, <2>1 DEF Recheck
    <3> HIDE DEF latest
    <3>2. CASE Proceed(w, job[w], latest, rebases[w]) /\ Verdict(job[w], latest) # "recheck"
      <4>1. \/ pc'[w] = "idle"
            \/ pc'[w] = "attempt" /\ job'[w] = job[w] /\ attempts'[w] = attempts[w]
        BY <1>t, <3>2, ProceedMoves
      <4>2. job'[w] = job[w] /\ attempts'[w] = attempts[w] => RetriesLeft(w)' = RetriesLeft(w)
        BY <2>1 DEF RetriesLeft
      <4> QED
        BY <1>1, <4>1, <4>2 DEF Recheck
    <3> QED
      BY <1>1, <1>f, <3>1, <3>2 DEF Recheck
  <2>2. CASE ~Enriches(job[w])
    <3>1. \/ \E a : Finish(w, a)
          \/ Proceed(w, job[w], latest, rebases[w] + 1)
      BY <1>1, <2>2 DEF Recheck
    <3> HIDE DEF latest
    <3>2. CASE Proceed(w, job[w], latest, rebases[w] + 1)
      <4>1. \/ pc'[w] = "idle"
            \/ pc'[w] # "idle" /\ job'[w] = job[w] /\ rebases'[w] = rebases[w] + 1
        BY <1>t, <3>2, ProceedMoves
      <4>2. job'[w] = job[w] /\ rebases'[w] = rebases[w] + 1 => RetriesLeft(w)' = RetriesLeft(w) - 1
        BY <1>n, <1>t, <2>2 DEF RetriesLeft
      <4> QED
        BY <1>1, <4>1, <4>2 DEF Recheck
    <3> QED
      BY <1>1, <1>f, <3>1, <3>2 DEF Recheck
  <2> QED
    BY <2>1, <2>2
<1>2. CASE Apply(w)
  BY <1>2, <1>f, ApplyWrites DEF Apply
<1>3. CASE Lose(w)
  <2>1. CASE BudgetSpent(w)
    BY <1>3, <1>f, <2>1 DEF Lose
  <2>2. CASE ~BudgetSpent(w)
    <3>1. /\ pc'[w] = "reread" /\ job'[w] = job[w] /\ attempts'[w] = attempts[w] + 1
          /\ rebases'[w] = IF Enriches(job[w]) THEN rebases[w] ELSE rebases[w] + 1
      BY <1>3, <1>t, <2>2 DEF Lose, LocalTypes
    <3>2. RetriesLeft(w)' = RetriesLeft(w) - 1
      BY <1>n, <1>t, <3>1 DEF RetriesLeft
    <3> QED
      BY <1>3, <3>1, <3>2 DEF Lose
  <2> QED
    BY <2>1, <2>2
<1>4. CASE Reread(w)
  <2>1. pc[w] = "reread" /\ Proceed(w, job[w], latest, rebases[w])
    BY <1>4 DEF Reread
  <2> HIDE DEF latest
  <2>2. \/ pc'[w] = "idle"
        \/ /\ pc'[w] \in {"recheck", "attempt"} /\ job'[w] = job[w]
           /\ attempts'[w] = attempts[w] /\ rebases'[w] = rebases[w]
    BY <1>t, <2>1, ProceedMoves
  <2> QED
    BY <2>1, <2>2 DEF RetriesLeft
<1> QED
  BY <1>1, <1>2, <1>3, <1>4 DEF Work

LEMMA CallAdvances ==
    ASSUME EnrichInv, EnrichInv', Measured', [Next]_vars, NEW w \in Workers
    PROVE  /\ pc[w] # "idle" /\ CallOf(w)' # CallOf(w) => StepsLeft(w)' < StepsLeft(w)
           /\ pc'[w] # "idle" => StepsLeft(w)' > 0
<1>1. /\ StepsLeft(w) = Measure(pc[w], RetriesLeft(w))
      /\ pc[w] # "idle" => RetriesLeft(w) \in Nat
  BY StepsLeftIsMeasure DEF Measured
<1>2. /\ StepsLeft(w)' = Measure(pc'[w], RetriesLeft(w)')
      /\ pc'[w] # "idle" => RetriesLeft(w)' \in Nat /\ StepsLeft(w)' > 0
  BY DEF Measured
<1>3. ASSUME pc[w] # "idle", CallOf(w)' # CallOf(w)
      PROVE  StepsLeft(w)' < StepsLeft(w)
  <2>1. Work(w)
    BY <1>3, CallMovesItself
  <2>2. pc[w] \in {"recheck", "attempt", "reread"} /\ pc'[w] \in {"idle", "recheck", "attempt", "reread"}
    BY <1>3 DEF EnrichInv, GraphsConsistent, TypeOK
  <2>3. \/ pc'[w] = "idle"
        \/ pc'[w] # "idle" /\ RetriesLeft(w)' = RetriesLeft(w) - 1
        \/ pc[w] = "reread" /\ pc'[w] \in {"recheck", "attempt"} /\ RetriesLeft(w)' = RetriesLeft(w)
        \/ pc[w] = "recheck" /\ pc'[w] = "attempt" /\ RetriesLeft(w)' = RetriesLeft(w)
    BY <2>1, WorkMoves
  <2> QED
    BY <1>1, <1>2, <1>3, <2>2, <2>3 DEF Measure
<1> QED
  BY <1>2, <1>3

(***************************************************************************)
(* No publish call goes on for ever, however often it loses to others.     *)
(***************************************************************************)
THEOREM EnrichmentJobsAdvance == Spec => JobsAdvance
<1> DEFINE Step ==
        \A w \in Workers :
          /\ pc[w] # "idle" /\ CallOf(w)' # CallOf(w) => StepsLeft(w)' < StepsLeft(w)
          /\ pc'[w] # "idle" => StepsLeft(w)' > 0
<1>1. EnrichInv /\ EnrichInv' /\ Measured' /\ [Next]_vars => [Step]_vars
  BY CallAdvances
<1> QED
  BY <1>1, EnrichCorrect, StepsLeftIsMeasure, PTL DEF Spec, JobsAdvance

-----------------------------------------------------------------------------
(***************************************************************************)
(* The workers and everybody beside them use the port as it is: every      *)
(* behaviour is one of the abstract port that ResourceStore is proved to   *)
(* implement, so nothing above rests on a stronger catalog than the real   *)
(* one.                                                                    *)
(***************************************************************************)
LEMMA PortUsed == EnrichInv /\ [Next]_vars => [Port!Next]_(Port!pubVars)
<1> SUFFICES ASSUME EnrichInv, [Next]_vars PROVE [Port!Next]_(Port!pubVars)
  OBVIOUS
<1>1. CASE UNCHANGED port
  BY <1>1 DEF port, Port!pubVars
<1>2. ASSUME NEW w \in Workers, Work(w), ~UNCHANGED port PROVE Port!Next
  <2>1. Apply(w)
    BY <1>2 DEF Work, Recheck, Lose, Reread
  <2> DEFINE j == job[w]
             g == Result(j, cur[w])
  <2>2. j.res \in Resources /\ j.src \in Sources /\ g \in Graph \cup {None}
    BY <2>1, ApplyWrites, CallFacts DEF Apply
  <2>3. \/ Port!Withdraw(j.res)
        \/ g # None /\ Port!Move(j.res, "published", j.src, g)
    BY <1>2, <2>1 DEF Apply
  <2> HIDE DEF j, g
  <2> QED
    BY <2>2, <2>3 DEF Port!Next, Port!Publish
<1>3. ASSUME NEW r \in Resources, Import(r) \/ Withdraw(r) \/ Delete(r) PROVE Port!Next
  <2>1. \/ \E src \in Sources, g \in Graph : Port!Move(r, "published", src, g)
        \/ Port!Withdraw(r) \/ Port!Delete(r)
    BY <1>3, ImportsAssumption DEF Import, Withdraw, Delete
  <2> QED
    BY <2>1 DEF Port!Next, Port!Publish
<1> QED
  BY <1>1, <1>2, <1>3 DEF Next, Capture, vars, port

THEOREM EnrichmentUsesPort == Spec => Port!Spec
<1>1. Init => Port!Init
  BY DEF Init
<1> QED
  BY <1>1, PortUsed, EnrichCorrect, PTL DEF Spec, Port!Spec
=============================================================================
