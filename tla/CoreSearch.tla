----------------------------- MODULE CoreSearch -----------------------------
(***************************************************************************)
(* The search algorithms of mdrack_core (application/retrieval.py,         *)
(* application/fusion.py, domain/search.py) over the rows of one SQLite    *)
(* snapshot (mdrack_sqlite/resource_store.py, builtin_exact.py): scopes,   *)
(* the two search ports, validation of what a port returned, grouping and  *)
(* weighted reciprocal rank fusion, as functions of a snapshot.            *)
(*                                                                         *)
(* Identifiers are naturals, so that their order is the order of ids.      *)
(* Scores of a port are naturals, higher is better.  A fused score is a    *)
(* multiple of 1 / Unit, which makes the sums exact where the code adds    *)
(* floats.                                                                 *)
(***************************************************************************)
EXTENDS Naturals, Sequences, FiniteSets, SequencesExt, FiniteSetsExt, Functions

CONSTANTS
    Fields,         \* the categorical filters of a SearchScope
    RrfK,           \* rrf_k
    MaxRank         \* no branch returns more candidates than this

NoVector == 0       \* a unit without a vector in the space
ZeroVector == 1     \* a vector of norm zero; better scores are larger

\* The elements of S in the strict total order Before: each after as many
\* elements as precede it.
InOrder(S, Before(_, _)) ==
    LET placed == {<<1 + Cardinality({y \in S : Before(y, x)}), x>> : x \in S}
    IN  [i \in 1 .. Cardinality(S) |-> (CHOOSE p \in placed : p[1] = i)[2]]

-----------------------------------------------------------------------------
(* Scopes. *)

NoFilter == [f \in Fields |-> {}]
AnyScope == [filter |-> NoFilter, any |-> {}, all |-> {}, none |-> {}]

\* _effective_scope: a filter is empty for "everything"; two filters
\* intersect, and an empty intersection admits nothing at all.
EffectiveFilter(global, override) ==
    [f \in Fields |->
        IF override[f] = {} THEN global[f]
        ELSE IF global[f] = {} THEN override[f] ELSE global[f] \cap override[f]]
Contradictory(global, override) ==
    \E f \in Fields : global[f] # {} /\ override[f] # {} /\ global[f] \cap override[f] = {}

\* _scope_clauses, as the WHERE of every query.
Matches(snapshot, u, scope) ==
    LET unit == snapshot.units[u]
        facets == snapshot.facets[unit.resource]
    IN  /\ \A f \in Fields : scope.filter[f] = {} \/ unit.attr[f] \in scope.filter[f]
        /\ scope.any = {} \/ scope.any \cap facets # {}
        /\ scope.all \subseteq facets
        /\ scope.none \cap facets = {}

-----------------------------------------------------------------------------
(* The ports: what SQLite returns for a branch, or an error category. *)

\* The outcome of a branch: what it found, or the category of its error.
Hits(list) == [error |-> "none", list |-> list]
Error(category) == [error |-> category, list |-> <<>>]
Failed(outcome) == outcome.error # "none"

Candidate(snapshot, branch, u, rank) ==
    [unit |-> u, resource |-> snapshot.units[u].resource, rank |-> rank, branch |-> branch.id]

Ranked(snapshot, branch, scope, eligible, Before(_, _)) ==
    LET hits == InOrder({u \in eligible : Matches(snapshot, u, scope)}, Before)
        kept == SubSeq(hits, 1, Min({Len(hits), branch.limit}))
    IN  Hits([i \in 1 .. Len(kept) |-> Candidate(snapshot, branch, kept[i], i)])

\* search_lexical: by bm25, then by id under a media-type filter and by the
\* row of the text index without one.
SearchLexical(snapshot, branch, scope) ==
    LET units == snapshot.units
        tie(u) == IF scope.filter["media_types"] # {} THEN u ELSE units[u].row
        before(u, v) == \/ units[u].text > units[v].text
                        \/ units[u].text = units[v].text /\ tie(u) < tie(v)
    IN  Ranked(snapshot, branch, scope, {u \in DOMAIN units : units[u].text > 0}, before)

\* search_vector: the space must exist with the length and the fingerprint of
\* the query; vectors of norm zero are skipped, unless nothing else is left.
SearchVector(snapshot, branch, scope) ==
    LET units == snapshot.units
        rows == {u \in DOMAIN units : units[u].vector # NoVector /\ Matches(snapshot, u, scope)}
        before(u, v) == \/ units[u].vector > units[v].vector
                        \/ units[u].vector = units[v].vector /\ u < v
        scored == {u \in rows : units[u].vector # ZeroVector}
    IN  IF \/ snapshot.space # branch.space
           \/ rows # {} /\ scored = {}
        THEN Error("incompatible_vector_space")
        ELSE Ranked(snapshot, branch, scope, scored, before)

\* _validate_candidates: of the list a port returned only the first limit
\* entries count; they carry the branch, their position and distinct units.
Truncated(branch, raw) == SubSeq(raw, 1, Min({Len(raw), branch.limit}))
ValidCandidates(branch, raw) ==
    LET list == Truncated(branch, raw)
    IN  /\ \A i \in 1 .. Len(list) : list[i].branch = branch.id /\ list[i].rank = i
        /\ \A i, j \in 1 .. Len(list) : list[i].unit = list[j].unit => i = j

\* _execute_branch: what the branch yields, or the category of its error.
ExecuteBranch(snapshot, branch, scope, fault) ==
    LET effective == [scope EXCEPT !.filter = EffectiveFilter(scope.filter, branch.override)]
        found == IF branch.kind = "lexical" THEN SearchLexical(snapshot, branch, effective)
                 ELSE SearchVector(snapshot, branch, effective)
        raw == IF fault = "repeated" /\ Len(found.list) > 1
               THEN [found.list EXCEPT ![2] = [@ EXCEPT !.unit = found.list[1].unit]] ELSE found.list
    IN  IF Contradictory(scope.filter, branch.override) THEN Hits(<<>>)
        ELSE IF fault \in {"adapter_timeout", "adapter_error"} THEN Error(fault)
        ELSE IF Failed(found) THEN found
        ELSE IF ~ValidCandidates(branch, raw) THEN Error("adapter_error")
        ELSE Hits(Truncated(branch, raw))

-----------------------------------------------------------------------------
(* Grouping and fusion. *)

\* The logical ids of a branch in the order they are first seen.
LogicalId(target, candidate) == IF target = "resource" THEN candidate.resource ELSE candidate.unit
EverySeen(target, candidates) == [i \in 1 .. Len(candidates) |-> i]
FirstSeen(target, candidates) ==
    LET ids == [i \in 1 .. Len(candidates) |-> LogicalId(target, candidates[i])]
    IN  SelectSeq([i \in 1 .. Len(ids) |-> i], LAMBDA i : \A j \in 1 .. i - 1 : ids[j] # ids[i])

\* _group_resources and _deduplicate_units: one entry per logical id, with
\* the best candidates as evidence.
FusionCandidates(target, candidates, limit) ==
    LET firsts == FirstSeen(target, candidates)
    IN  [k \in 1 .. Len(firsts) |->
            LET id == LogicalId(target, candidates[firsts[k]])
                own == SelectSeq(candidates, LAMBDA c : LogicalId(target, c) = id)
            IN  [id |-> id, representative |-> candidates[firsts[k]],
                 evidence |-> SubSeq(own, 1, Min({Len(own), limit}))]]

\* The least common denominator of the terms weight / (rrf_k + rank).
Unit == ProductSet({RrfK + r : r \in 1 .. MaxRank})
Term(weight, rank) == weight * (Unit \div (RrfK + rank))

\* weighted_rrf: a candidate is met at <<branch, position>>; an id scores
\* once in every branch that holds it, is ordered by where it was met first
\* when scores are equal, and keeps its best evidence.
Met(p, q) == p[1] < q[1] \/ (p[1] = q[1] /\ p[2] < q[2])

WeightedRrf(branches, limit) ==
    LET places == UNION {{b} \X DOMAIN branches[b].candidates : b \in DOMAIN branches}
        At(p) == branches[p[1]].candidates[p[2]]
        met == {[id |-> id, at |-> {p \in places : At(p).id = id}] : id \in {At(p).id : p \in places}}
        evidence(at) ==
            LET found == UNION {{<<p[1], e>> : e \in Range(At(p).evidence)} : p \in at}
                closer(x, y) == x[2].rank < y[2].rank \/ (x[2].rank = y[2].rank /\ x[1] < y[1])
                best == InOrder(found, closer)
            IN  [i \in 1 .. Min({Len(best), limit}) |-> best[i][2]]
        entries == {[id |-> m.id, evidence |-> evidence(m.at),
                     score |-> MapThenSumSet(LAMBDA p : Term(branches[p[1]].weight, p[2]), m.at),
                     first |-> CHOOSE p \in m.at : \A q \in m.at \ {p} : Met(p, q)] : m \in met}
        better(x, y) == x.score > y.score \/ (x.score = y.score /\ Met(x.first, y.first))
    IN  InOrder(entries, better)

\* The items of RetrievalService.search for the branches that succeeded.
Fuse(request, successful) ==
    LET perResource == request.target = "resource"
        prepared == [i \in 1 .. Len(successful) |->
                        [weight |-> successful[i].branch.weight,
                         candidates |-> FusionCandidates(request.target, successful[i].candidates,
                                                         request.evidenceLimit)]]
        fused == WeightedRrf(prepared, IF perResource THEN request.evidenceLimit ELSE Len(successful))
    IN  SubSeq(fused, 1, Min({Len(fused), request.limit}))

-----------------------------------------------------------------------------
(* What fusion promises, stated without the fold. *)

\* The rank of an id in a branch counts the ids seen before it.
BranchRank(target, candidates, id) ==
    LET mine == CHOOSE i \in 1 .. Len(candidates) :
                    /\ LogicalId(target, candidates[i]) = id
                    /\ \A j \in 1 .. i - 1 : LogicalId(target, candidates[j]) # id
    IN  1 + Cardinality({LogicalId(target, candidates[j]) : j \in 1 .. mine - 1})

Occurs(target, candidates, id) == \E i \in 1 .. Len(candidates) : LogicalId(target, candidates[i]) = id

ReferenceScore(target, successful, id) ==
    MapThenSumSet(LAMBDA i : Term(successful[i].branch.weight,
                                  BranchRank(target, successful[i].candidates, id)),
                  {j \in 1 .. Len(successful) : Occurs(target, successful[j].candidates, id)})

\* Items are the best ids, scored by every branch that found them and by no
\* other, in order, each with evidence for itself, and nothing better is
\* left out.
FusedRight(request, successful, items) ==
    LET target == request.target
        ids == {LogicalId(target, c) : c \in UNION {Range(successful[i].candidates) : i \in DOMAIN successful}}
        score(id) == ReferenceScore(target, successful, id)
        shown == {items[i].id : i \in DOMAIN items}
    IN  /\ Len(items) = Min({request.limit, Cardinality(ids)}) /\ Cardinality(shown) = Len(items)
        /\ \A i \in DOMAIN items :
              /\ items[i].id \in ids /\ items[i].score = score(items[i].id)
              /\ items[i].evidence # <<>>
              /\ \A e \in Range(items[i].evidence) : LogicalId(target, e) = items[i].id
              /\ \A j \in i + 1 .. Len(items) : items[j].score <= items[i].score
              /\ \A id \in ids \ shown : score(id) <= items[i].score

=============================================================================
