---------------------------- MODULE TimedGrouping ----------------------------
(***************************************************************************)
(* The deterministic grouper of timed text (mdrack_media/grouper.py):      *)
(* group_timed_atoms walks over the atoms of a transcript, one atom per    *)
(* step, collects the boundaries at which a passage may end and closes the *)
(* passage at the best one.                                                *)
(*                                                                         *)
(* An atom has a time range, its speaker, and whether it ends a sentence   *)
(* or holds a line break.  Tokens are counted in the joined text of a      *)
(* passage, so that a passage need not have the tokens of its atoms.       *)
(***************************************************************************)
EXTENDS Integers, Sequences, FiniteSetsExt, Functions

CONSTANTS
    AtomLists,      \* the transcripts asked for
    Policies,       \* the chunking policies asked for
    Counted(_, _, _)    \* the token counter: of the joined texts of atoms i to j

VARIABLE grouping   \* the call of group_timed_atoms

Idle == [pc |-> "idle"]
Init == grouping = Idle

\* TimedTextAtom, TimedChunkingPolicy and _count_tokens.
TranscriptsAssumption ==
    /\ \A atoms \in AtomLists :
          /\ Len(atoms) \in Nat /\ DOMAIN atoms = 1 .. Len(atoms)
          /\ \A k \in DOMAIN atoms :
                atoms[k].start \in Nat /\ atoms[k].end \in Nat /\ atoms[k].start < atoms[k].end
          /\ \A i, j \in DOMAIN atoms : Counted(atoms, i, j) \in Nat
    /\ Policies \subseteq
          [minTokens : Nat, targetTokens : Nat, softTokens : Nat, hardTokens : Nat,
           minDuration : Nat, targetDuration : Nat, softDuration : Nat, hardDuration : Nat,
           mediumPause : Nat, strongPause : Nat]

TokensOf(atoms, i, j) == Counted(atoms, i, j)
EndOf(atoms, i, j) == Max({atoms[k].end : k \in i .. j})
DurationOf(atoms, i, j) == EndOf(atoms, i, j) - atoms[i].start

ExceedsHard(atoms, i, j, policy) ==
    TokensOf(atoms, i, j) > policy.hardTokens \/ DurationOf(atoms, i, j) > policy.hardDuration

\* A passage may end where the next atom starts after everything in it.
SafeBoundary(atoms, i, j) == j = Len(atoms) \/ atoms[j + 1].start >= EndOf(atoms, i, j)

\* _validate_atoms: caller order is kept, and start times never decrease.
OrderedAtoms(atoms) == \A k \in 1 .. Len(atoms) - 1 : atoms[k].start <= atoms[k + 1].start

\* TimedChunkingPolicy: the limits of each axis do not decrease.
ValidPolicy(policy) ==
    /\ 1 <= policy.minTokens /\ policy.minTokens <= policy.targetTokens
    /\ policy.targetTokens <= policy.softTokens /\ policy.softTokens <= policy.hardTokens
    /\ 1 <= policy.minDuration /\ policy.minDuration <= policy.targetDuration
    /\ policy.targetDuration <= policy.softDuration /\ policy.softDuration <= policy.hardDuration
    /\ policy.mediumPause <= policy.strongPause

-----------------------------------------------------------------------------
(* _boundary_score and _select_candidate. *)

Weight(condition, points) == IF condition THEN points ELSE 0
Distance(value, target) == ((IF value > target THEN value - target ELSE target - value) * 10) \div target

PauseScore(gap, policy) ==
    IF gap >= policy.strongPause THEN 35 ELSE Weight(gap >= policy.mediumPause, 15)

BoundaryScore(atoms, i, j, policy, hardRisk) ==
    LET here == atoms[j]
        tokens == TokensOf(atoms, i, j)
        duration == DurationOf(atoms, i, j)
        following == IF j = Len(atoms) THEN 0
                     ELSE LET next == atoms[j + 1]
                          IN  Weight(here.speaker # "none" /\ next.speaker # "none" /\ here.speaker # next.speaker, 45)
                              + PauseScore(next.start - EndOf(atoms, i, j), policy)
    IN  Weight(hardRisk, 100) + following
        + Weight(here.sentence, 40) + Weight(here.line, 15)
        + Weight(tokens >= policy.softTokens \/ duration >= policy.softDuration, 20)
        + Weight(tokens >= policy.targetTokens, 10) + Weight(duration >= policy.targetDuration, 10)
        - Distance(tokens, policy.targetTokens) - Distance(duration, policy.targetDuration)

Candidate(atoms, i, j, policy, hardRisk) ==
    [end |-> j, score |-> BoundaryScore(atoms, i, j, policy, hardRisk),
     tokenDistance |-> Distance(TokensOf(atoms, i, j), policy.targetTokens),
     durationDistance |-> Distance(DurationOf(atoms, i, j), policy.targetDuration)]

Better(x, y) ==
    \/ x.score > y.score
    \/ x.score = y.score /\ \/ x.tokenDistance < y.tokenDistance
                            \/ x.tokenDistance = y.tokenDistance /\
                                 \/ x.durationDistance < y.durationDistance
                                 \/ x.durationDistance = y.durationDistance /\ x.end < y.end

SelectCandidate(candidates) ==
    CHOOSE x \in Range(candidates) : \A y \in Range(candidates) : x = y \/ Better(x, y)

-----------------------------------------------------------------------------
(* group_timed_atoms and _find_boundary. *)

Begin ==
    /\ grouping = Idle
    /\ \E atoms \in AtomLists, policy \in Policies, unsplittable \in {"reject", "flag"} :
          /\ ValidPolicy(policy)
          /\ grouping' = [pc |-> IF OrderedAtoms(atoms) THEN "find" ELSE "atoms_not_ordered",
                          atoms |-> atoms, policy |-> policy, unsplittable |-> unsplittable,
                          start |-> 1, at |-> 1, candidates |-> <<>>, passages |-> <<>>]

\* The passage from start to end is emitted and the next one begins.
Emit(g, end, reason) ==
    [g EXCEPT !.passages = Append(@, [first |-> g.start, last |-> end, reason |-> reason]),
              !.start = end + 1, !.at = end + 1, !.candidates = <<>>]

\* Beyond the hard limit: the last boundary seen is boosted and the best one
\* taken; with none, the passage grows to its first safe boundary.
BeyondHardLimit(g) ==
    LET n == Len(g.candidates)
        boosted == [g.candidates EXCEPT ![n] = Candidate(g.atoms, g.start, @.end, g.policy, TRUE)]
    IN  IF n > 0 THEN Emit(g, SelectCandidate(boosted).end, "hard_limit")
        ELSE IF ~SafeBoundary(g.atoms, g.start, g.at) THEN [g EXCEPT !.at = @ + 1]
        ELSE IF g.unsplittable = "reject" THEN [g EXCEPT !.pc = "unsplittable_hard_limit"]
        ELSE Emit(g, g.at, "unsplittable")

\* Unsafe boundaries are passed over as if they were safe.
WithinLimitsAnywhere(g) ==
    LET next == [g EXCEPT !.candidates = Append(@, Candidate(g.atoms, g.start, g.at, g.policy, FALSE)), !.at = @ + 1]
    IN  IF g.at = Len(g.atoms) \/ ExceedsHard(g.atoms, g.start, g.at + 1, g.policy)
        THEN Emit(g, SelectCandidate(next.candidates).end, "hard_limit") ELSE next

\* A safe boundary inside the window is a candidate; a closing condition
\* ends the passage at the best one so far.
WithinLimits(g) ==
    LET atoms == g.atoms
        policy == g.policy
        tokens == TokensOf(atoms, g.start, g.at)
        duration == DurationOf(atoms, g.start, g.at)
        last == g.at = Len(atoms)
        eligible == tokens >= policy.minTokens /\ duration >= policy.minDuration
        hardRisk == ~last /\ ExceedsHard(atoms, g.start, g.at + 1, policy)
        softMax == tokens >= policy.softTokens \/ duration >= policy.softDuration
        candidates == IF eligible \/ hardRisk \/ softMax \/ last
                      THEN Append(g.candidates, Candidate(atoms, g.start, g.at, policy, hardRisk))
                      ELSE g.candidates
    IN  IF ~SafeBoundary(atoms, g.start, g.at) THEN [g EXCEPT !.at = @ + 1]
        ELSE IF hardRisk THEN Emit(g, SelectCandidate(candidates).end, "hard_limit")
        ELSE IF softMax THEN Emit(g, SelectCandidate(candidates).end, "soft_max")
        ELSE IF last THEN Emit(g, SelectCandidate(candidates).end, "end_of_input")
        ELSE [g EXCEPT !.candidates = candidates, !.at = @ + 1]

FindBoundary ==
    /\ grouping.pc = "find"
    /\ grouping.start <= Len(grouping.atoms)
    /\ grouping' = IF ExceedsHard(grouping.atoms, grouping.start, grouping.at, grouping.policy)
                   THEN BeyondHardLimit(grouping) ELSE WithinLimits(grouping)

\* Every atom is in a passage: the metrics are built and the result returned.
Return ==
    /\ grouping.pc = "find"
    /\ grouping.start > Len(grouping.atoms)
    /\ grouping' = [grouping EXCEPT !.pc = "done"]

Next == Begin \/ FindBoundary \/ Return

Spec == Init /\ [][Next]_grouping

-----------------------------------------------------------------------------
\* Whatever overlaps in the transcript, the passages hold every atom once and
\* in order, do not overlap in time, and stay within the hard limits unless
\* they are marked; the walk never runs past the last atom.
PassagesPartition ==
    grouping # Idle /\ grouping.pc # "atoms_not_ordered" =>
        LET g == grouping
            p == g.passages
            n == Len(p)
        IN  /\ g.start <= g.at /\ (g.start <= Len(g.atoms) => g.at <= Len(g.atoms))
            /\ \A k \in 1 .. n : p[k].first = (IF k = 1 THEN 1 ELSE p[k - 1].last + 1) /\ p[k].first <= p[k].last
            /\ g.pc = "done" => (IF n = 0 THEN 0 ELSE p[n].last) = Len(g.atoms)
            /\ \A k \in 1 .. n - 1 : EndOf(g.atoms, p[k].first, p[k].last) <= g.atoms[p[k + 1].first].start
            /\ \A k \in 1 .. n : ExceedsHard(g.atoms, p[k].first, p[k].last, g.policy) <=> p[k].reason = "unsplittable"

\* Atoms i to j are one component: at no boundary inside are they separable.
Component(atoms, i, j) ==
    /\ i = 1 \/ atoms[i].start >= EndOf(atoms, 1, i - 1)
    /\ \A k \in i .. j - 1 : ~SafeBoundary(atoms, i, k)

\* Only a single atom, or atoms that overlap, can be beyond a hard limit
\* without a place to split (packages/mdrack-media/API.md, rule 7). It does
\* not hold, and no run checks it: a boundary below the soft minima is not a
\* candidate, so that an overlapping pair after it leaves nowhere to split.
UnsplittableIsConnected ==
    grouping # Idle =>
        LET g == grouping
            tooLarge(i, j) == \E a, b \in i .. j : a <= b /\ Component(g.atoms, a, b) /\ ExceedsHard(g.atoms, a, b, g.policy)
        IN  /\ \A k \in DOMAIN g.passages :
                  g.passages[k].reason = "unsplittable" => tooLarge(g.passages[k].first, g.passages[k].last)
            /\ g.pc = "unsplittable_hard_limit" => tooLarge(g.start, g.at)

=============================================================================
