--------------------------- MODULE MediaRetrieval ---------------------------
(***************************************************************************)
(* retrieve_media of mdrack_media (retrieval.py): search in prepared       *)
(* batches without a catalog.  Passages and frames are ranked by how often *)
(* they hold the words of the query, each kind on its own; a hybrid search *)
(* fuses the two rankings, and frames close to what was found are returned *)
(* beside it.  The batches are a snapshot of CoreSearch, the score of a    *)
(* unit's text the number of times it holds a word, and a unit has a time, *)
(* or NoTime.                                                              *)
(***************************************************************************)
EXTENDS CoreSearch, Integers

CONSTANTS
    Batches,        \* collections of prepared batches
    MediaScopes,    \* scopes asked for
    MediaLimits,    \* limits of results and of nearby frames
    MediaWeights    \* pairs of weights, of passages and of frames

VARIABLE media

NoTime == -1
Modes == {"transcript", "frame", "hybrid"}
KindOf(branch) == IF branch = "transcript" THEN "time_segment" ELSE "frame"
BranchesOf(mode) == IF mode = "hybrid" THEN <<"transcript", "frame">> ELSE <<mode>>

\* _units: the scope and the mode, before anything is scored or limited.
UnitsOf(batches, mode, scope) ==
    {u \in DOMAIN batches.units :
        /\ batches.units[u].attr["unit_kinds"] \in {KindOf(b) : b \in Range(BranchesOf(mode))}
        /\ Matches(batches, u, scope)}

\* _rank: the units of a branch that hold a word, the most frequent first.
Rank(batches, units, branch) ==
    LET text(u) == batches.units[u].text
    IN  InOrder({u \in units : batches.units[u].attr["unit_kinds"] = KindOf(branch) /\ text(u) > 0},
                LAMBDA u, v : text(u) > text(v) \/ (text(u) = text(v) /\ u < v))

First(list, limit) == SubSeq(list, 1, Min({Len(list), limit}))

\* _hybrid: weight / (60 + rank), better scores first, then ids; a branch
\* without weight is left out.
Hybrid(ranked, weights, limit) ==
    LET places == {p \in (1 .. 2) \X (1 .. Max({Len(ranked[1]), Len(ranked[2])})) :
                      p[2] <= Len(ranked[p[1]]) /\ weights[p[1]] > 0}
        scored == {[unit |-> ranked[p[1]][p[2]], score |-> Term(weights[p[1]], p[2])] : p \in places}
        order == InOrder(scored, LAMBDA x, y : x.score > y.score \/ (x.score = y.score /\ x.unit < y.unit))
    IN  First([i \in DOMAIN order |-> order[i].unit], limit)

Selected(call) ==
    LET units == UnitsOf(call.batches, call.mode, call.scope)
    IN  IF call.mode = "hybrid"
        THEN Hybrid(<<Rank(call.batches, units, "transcript"), Rank(call.batches, units, "frame")>>, call.weights, call.limit)
        ELSE First(Rank(call.batches, units, call.mode), call.limit)

\* _nearby_frames: frames of the resources found, by their distance in time
\* to the nearest unit that was found there.
Distance(batches, u, selected) ==
    LET times == {batches.units[s].time : s \in {x \in selected :
                     batches.units[x].resource = batches.units[u].resource /\ batches.units[x].time # NoTime}}
        apart(s, t) == IF s > t THEN s - t ELSE t - s
    IN  IF times = {} \/ batches.units[u].time = NoTime THEN NoTime
        ELSE Min({apart(batches.units[u].time, t) : t \in times})

Nearby(call, selected) ==
    LET far(u) == Distance(call.batches, u, selected)
        frames == {u \in UnitsOf(call.batches, call.mode, call.scope) \ selected :
                      call.batches.units[u].attr["unit_kinds"] = "frame" /\ far(u) # NoTime}
    IN  First(InOrder(frames, LAMBDA u, v : far(u) < far(v) \/ (far(u) = far(v) /\ u < v)), call.nearby)

-----------------------------------------------------------------------------
Init == media = [step |-> "idle"]

\* The arguments retrieve_media accepts; an empty query finds nothing.
Calls ==
    {c \in [batches : Batches, mode : Modes, scope : MediaScopes, limit : MediaLimits \ {0},
            nearby : MediaLimits, weights : MediaWeights, empty : BOOLEAN] :
        c.mode = "hybrid" => c.weights # <<0, 0>>}

Retrieve ==
    /\ media.step = "idle"
    /\ \E c \in Calls :
          LET items == IF c.empty THEN <<>> ELSE Selected(c)
          IN  media' = [step |-> "done", call |-> c, items |-> items,
                        nearby |-> IF c.empty THEN <<>> ELSE Nearby(c, Range(items))]

Next == Retrieve
Spec == Init /\ [][Next]_media

-----------------------------------------------------------------------------
\* The branch of a unit, its rank there and the weight it counts with.
Position(c, u) ==
    LET kind == c.batches.units[u].attr["unit_kinds"]
        ahead == {v \in UnitsOf(c.batches, c.mode, c.scope) :
                     /\ c.batches.units[v].attr["unit_kinds"] = kind
                     /\ \/ c.batches.units[v].text > c.batches.units[u].text
                        \/ c.batches.units[v].text = c.batches.units[u].text /\ v < u}
    IN  [rank |-> 1 + Cardinality(ahead),
         weight |-> IF c.mode # "hybrid" THEN 1 ELSE IF kind = "frame" THEN c.weights[2] ELSE c.weights[1]]

\* Fractions compared by cross multiplication.
AtLeast(c, u, v) ==
    LET p == Position(c, u)
        q == Position(c, v)
    IN  p.weight * (RrfK + q.rank) >= q.weight * (RrfK + p.rank)

(***************************************************************************)
(* retrieve_media returns as many units as are asked for and hold a word   *)
(* of the query, never one that the scope, the mode or a weight of zero    *)
(* excludes, and none that another one left out should precede; nearby     *)
(* frames are not among the results, belong to a resource that is, and no  *)
(* closer frame of a found resource is left out.                           *)
(***************************************************************************)
MediaFound ==
    media.step = "done" /\ ~media.call.empty =>
        LET c == media.call
            shown == Range(media.items)
            beside == Range(media.nearby)
            units == UnitsOf(c.batches, c.mode, c.scope)
            answers == {u \in units : c.batches.units[u].text > 0 /\ Position(c, u).weight > 0}
            frames == {u \in units \ shown : /\ c.batches.units[u].attr["unit_kinds"] = "frame"
                                             /\ Distance(c.batches, u, shown) # NoTime}
        IN  /\ shown \subseteq answers /\ Cardinality(shown) = Len(media.items)
            /\ Len(media.items) = Min({c.limit, Cardinality(answers)})
            /\ \A i, j \in DOMAIN media.items : i < j => AtLeast(c, media.items[i], media.items[j])
            /\ \A u \in shown, v \in answers \ shown : AtLeast(c, u, v)
            /\ beside \subseteq frames /\ Len(media.nearby) = Min({c.nearby, Cardinality(frames)})
            /\ \A u \in beside : \E s \in shown : c.batches.units[s].resource = c.batches.units[u].resource
            /\ \A u \in beside, v \in frames \ beside : Distance(c.batches, u, shown) <= Distance(c.batches, v, shown)
=============================================================================
