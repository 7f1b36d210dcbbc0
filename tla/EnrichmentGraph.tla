-------------------------- MODULE EnrichmentGraph --------------------------
(***************************************************************************)
(* The derived outputs of one resource and the pure functions that merge   *)
(* them (application/enrichment.py, application/reindexing.py).            *)
(*                                                                         *)
(* A graph is seen as its active output slots.  A slot is a (purpose,      *)
(* variant) pair; texts, units, vectors and spaces are abstracted to what  *)
(* the code compares: the revision label, the material a consumer reads    *)
(* (_input_material) and the form it is published in, which _projection    *)
(* compares and _input_material does not (text indexed or not).            *)
(***************************************************************************)
EXTENDS PublicationState

CONSTANTS
    Slots,        \* (purpose, variant) pairs
    Revisions,    \* artifact revision labels
    Materials,    \* bodies, units and vectors of an output
    Forms,        \* lexical or dense-only publication of the same material
    Generations,  \* source revisions
    Raws,         \* raw source digest, resource kind and media type
    Metas         \* values of a metadata key that is not the source's

Output ==
    [rev : Revisions, mat : Materials, form : Forms, gen : Generations,
     dep : [Slots -> Revisions \cup {None}], indep : BOOLEAN, manual : BOOLEAN]

Outputs == [Slots -> Output \cup {None}]

(***************************************************************************)
(* legacy: representations without an enrichment_v1 block, named by the    *)
(* slot a producer gives to their kind.                                    *)
(***************************************************************************)
Graph ==
    [gen : Generations, raw : Raws, meta : Metas \cup {None},
     out : Outputs, legacy : SUBSET Slots]

ASSUME EnrichmentRecordsAssumption ==
    None \notin Output /\ None \notin Graph /\ None \notin Revisions /\ None \notin Metas

NoOutputs == [s \in Slots |-> None]

Active(out) == {s \in Slots : out[s] # None}

Without(out, gone) == [s \in Slots |-> IF s \in gone THEN None ELSE out[s]]

-----------------------------------------------------------------------------
\* _acyclic: every nonempty set of outputs has one that needs none of the others.
Acyclic(out) ==
    \A X \in SUBSET Active(out) :
        X # {} => \E s \in X : \A d \in X : out[s].dep[d] = None

\* An immediate dependency is gone or no longer has the revision named.
StaleDependency(out, gone, s) ==
    \E d \in Slots :
        /\ out[s].dep[d] # None
        /\ d \in gone \/ out[d] = None \/ out[d].rev # out[s].dep[d]

\* Faulty variant: only the immediate dependents.
InvalidDependenciesOnce(out) == {s \in Active(out) : StaleDependency(out, {}, s)}

(***************************************************************************)
(* invalid_dependencies: the loop adds the outputs with a stale dependency *)
(* until there are no more, which is the least set closed under that rule. *)
(***************************************************************************)
ClosedUnderStaleness(out, X) == \A s \in Active(out) : StaleDependency(out, X, s) => s \in X

InvalidDependencies(out) ==
    {s \in Active(out) : \A X \in SUBSET Active(out) : ClosedUnderStaleness(out, X) => s \in X}

\* Outputs of an earlier source generation, unless independent of the source.
StaleSource(g) == {s \in Active(g.out) : ~g.out[s].indep /\ g.out[s].gen # g.gen}

(***************************************************************************)
(* prune_graph: None when no representation remains.                       *)
(***************************************************************************)
PruneGraph(g) ==
    LET current == Without(g.out, StaleSource(g))
        kept    == Without(current, InvalidDependencies(current))
    IN  IF Active(kept) = {} /\ g.legacy = {} THEN None ELSE [g EXCEPT !.out = kept]

-----------------------------------------------------------------------------
(***************************************************************************)
(* merge: add replaces its slots; what consumed another material of a      *)
(* replaced slot goes, and what depended on that.                          *)
(***************************************************************************)
SameMaterial(o, p) == o.rev = p.rev /\ o.mat = p.mat

Overlaid(g, add) == [s \in Slots |-> IF add[s] # None THEN add[s] ELSE g.out[s]]

StaleConsumers(g, add) ==
    {s \in Active(g.out) \ Active(add) :
        \E d \in Active(g.out) \cap Active(add) :
            g.out[s].dep[d] # None /\ ~SameMaterial(g.out[d], add[d])}

MergeKept(g, add) == Without(Overlaid(g, add), StaleConsumers(g, add))

MergeOK(g, add) ==
    /\ StaleSource(g) = {}
    /\ \A s \in Active(add) : add[s].gen = g.gen
    /\ Acyclic(Overlaid(g, add))
    /\ InvalidDependencies(MergeKept(g, add)) \cap Active(add) = {}

Merge(g, add) ==
    [g EXCEPT !.out = Without(MergeKept(g, add), InvalidDependencies(MergeKept(g, add)))]

-----------------------------------------------------------------------------
(***************************************************************************)
(* reconcile: a producer's complete base over the old graph.  in.out are   *)
(* the slots it supplies, in.remove the slots it takes away, in.owned      *)
(* whether its representations are the producer's own (producer_owner).    *)
(***************************************************************************)
\* Faulty variant: a reindex keeps nothing but what it brings.
PreservedNothing(old, in) == {}

Preserved(old, in) ==
    {s \in Active(old.out) \ in.remove :
        \/ old.out[s].indep
        \/ old.gen = in.gen /\ s \notin Active(in.out)}

PreservedLegacy(old, in) ==
    IF old.gen = in.gen
    THEN old.legacy \ (in.legacy \cup (IF in.owned THEN Active(in.out) ELSE {}))
    ELSE {}

Union(old, in) ==
    [s \in Slots |-> IF in.out[s] # None THEN in.out[s]
                     ELSE IF s \in Preserved(old, in) THEN old.out[s] ELSE None]

Creates(in) == Active(in.out) # {} \/ in.legacy # {}

ReconcileOK(old, in) ==
    LET out == IF old = None THEN in.out ELSE Union(old, in)
    IN  /\ \A s \in Active(in.out) : in.out[s].indep \/ in.out[s].gen = in.gen
        /\ Acyclic(out)
        /\ InvalidDependencies(out) \cap Active(in.out) = {}
        /\ old # None =>
              /\ old.gen = in.gen => old.raw = in.raw
              /\ \A s \in Preserved(old, in) \cap Active(in.out) : in.out[s] = old.out[s]
              /\ \/ old.meta = None \/ in.meta = None \/ old.meta = in.meta
                 \/ Active(out) = {} /\ PreservedLegacy(old, in) \cup in.legacy = {}

Reconcile(old, in) ==
    IF old = None
    THEN IF Creates(in)
         THEN PruneGraph([gen |-> in.gen, raw |-> in.raw, meta |-> in.meta,
                          out |-> in.out, legacy |-> in.legacy])
         ELSE None
    ELSE PruneGraph([gen |-> in.gen, raw |-> in.raw,
                     meta |-> IF in.meta # None THEN in.meta ELSE old.meta,
                     out |-> Union(old, in),
                     legacy |-> PreservedLegacy(old, in) \cup in.legacy])

(***************************************************************************)
(* What a published graph has to satisfy: no output of another generation, *)
(* every immediate dependency active at the revision named.                *)
(***************************************************************************)
Consistent(g) ==
    /\ StaleSource(g) = {}
    /\ \A s \in Active(g.out) : ~StaleDependency(g.out, {}, s)
=============================================================================
