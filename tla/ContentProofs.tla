---------------------------- MODULE ContentProofs ----------------------------
(***************************************************************************)
(* Proofs about what is kept of a content and handed on: the passages of a *)
(* transcript (TimedGrouping), the tables of the first schema              *)
(* (IndexStorage), manifests in files (Manifests) and the archive of       *)
(* artifacts (DurableArchive).  Each part gives an inductive invariant of  *)
(* one component and then what Content promises of it, for every           *)
(* transcript, policy, number of writers, callers and processes.           *)
(***************************************************************************)
EXTENDS Content, FiniteSetTheorems, SequenceTheorems, TLAPS

-----------------------------------------------------------------------------
(***************************************************************************)
(* What holds of every prefix of a sequence is shown by induction over     *)
(* sets of naturals, which rests on the well-founded order of the finite   *)
(* sets of naturals: of the sets 0 .. n the least is the one of the least  *)
(* n.                                                                      *)
(***************************************************************************)

LEMMA LeastNatural ==
    ASSUME NEW T, T \subseteq Nat, T # {}
    PROVE  \E m \in T : \A n \in T : m <= n
<1> DEFINE Below == {0 .. n : n \in T}
<1>1. Below \subseteq FiniteSubsetsOf(Nat)
  <2> SUFFICES ASSUME NEW n \in T
               PROVE  0 .. n \in FiniteSubsetsOf(Nat)
    OBVIOUS
  <2>1. IsFiniteSet(0 .. n) /\ 0 .. n \subseteq Nat
    BY FS_Interval
  <2> QED
    BY <2>1 DEF FiniteSubsetsOf
<1>2. Below # {}
  OBVIOUS
<1>3. PICK B \in Below : \A C \in Below : <<C, B>> \notin StrictSubsetOrdering(Nat)
  <2> HIDE DEF Below
  <2> QED
    BY <1>1, <1>2, FS_StrictSubsetOrderingWellFounded, WFMin
<1>4. PICK m \in T : B = 0 .. m
  OBVIOUS
<1>5. ASSUME NEW n \in T, n < m
      PROVE  FALSE
  <2>1. 0 .. n \in Below /\ 0 .. n \in SUBSET Nat /\ 0 .. m \in SUBSET Nat
    OBVIOUS
  <2>2. 0 .. n \subseteq 0 .. m /\ 0 .. n # 0 .. m
    BY <1>5
  <2>3. <<0 .. n, 0 .. m>> \in StrictSubsetOrdering(Nat)
    BY <2>1, <2>2 DEF StrictSubsetOrdering
  <2> QED
    BY <1>3, <1>4, <2>1, <2>3
<1> QED
  BY <1>5

LEMMA Induction ==
    ASSUME NEW S, 0 \in S, \A n \in Nat : n \in S => n + 1 \in S
    PROVE  Nat \subseteq S
<1> SUFFICES ASSUME Nat \ S # {}
             PROVE  FALSE
  OBVIOUS
<1>1. PICK m \in Nat \ S : \A n \in Nat \ S : m <= n
  BY LeastNatural
<1>2. m # 0 /\ m - 1 \in Nat /\ m - 1 \in S
  BY <1>1
<1> QED
  BY <1>2

-----------------------------------------------------------------------------
(***************************************************************************)
(* The passages of a transcript.  Every candidate lies within the open     *)
(* passage, at a safe boundary and within the hard limits, so whichever of *)
(* them is the best closes the passage well; a passage without a candidate *)
(* is the only one that may be beyond a limit, and ends where it must.     *)
(***************************************************************************)

Reasons == {"hard_limit", "soft_max", "end_of_input", "unsplittable"}
CandidateType == [end : Nat, score : Int, tokenDistance : Int, durationDistance : Int]
PassageType == [first : Nat, last : Nat, reason : Reasons]
GroupingCall ==
    [pc : {"find", "done", "atoms_not_ordered", "unsplittable_hard_limit"},
     atoms : AtomLists, policy : TimedPolicies, unsplittable : {"reject", "flag"},
     start : Nat, at : Nat, candidates : Seq(CandidateType), passages : Seq(PassageType)]

\* A passage begins where the one before it ends, and ends at a safe boundary.
PassageSound(g, k) ==
    LET p == g.passages
        first == p[k].first
        last == p[k].last
    IN  /\ first = (IF k = 1 THEN 1 ELSE p[k - 1].last + 1)
        /\ first <= last /\ last <= Len(g.atoms)
        /\ Timed!SafeBoundary(g.atoms, first, last)
        /\ Timed!ExceedsHard(g.atoms, first, last, g.policy) <=> p[k].reason = "unsplittable"

\* The open passage may end at any candidate.
MayEnd(g, e) ==
    /\ g.start <= e /\ e < g.at
    /\ Timed!SafeBoundary(g.atoms, g.start, e)
    /\ ~Timed!ExceedsHard(g.atoms, g.start, e, g.policy)

Walk(g) ==
    /\ \A k \in 1 .. Len(g.passages) : PassageSound(g, k)
    /\ g.start = (IF Len(g.passages) = 0 THEN 1 ELSE g.passages[Len(g.passages)].last + 1)
    /\ g.start <= g.at /\ (g.start <= Len(g.atoms) => g.at <= Len(g.atoms))
    /\ \A c \in 1 .. Len(g.candidates) : MayEnd(g, g.candidates[c].end)
    /\ g.pc = "done" => g.start > Len(g.atoms)

GroupingInv ==
    grouping # Timed!Idle =>
        /\ grouping \in GroupingCall /\ Timed!ValidPolicy(grouping.policy)
        /\ grouping.pc # "atoms_not_ordered" => Walk(grouping)

\* The invariant is what is claimed, and more: at a safe boundary the next
\* passage starts after everything in this one.
LEMMA GroupingInvPartitions ==
    ASSUME ContentAssumption, GroupingInv
    PROVE  PassagesPartition
<1> SUFFICES ASSUME grouping # Timed!Idle, grouping.pc # "atoms_not_ordered"
             PROVE  LET g == grouping
                        p == g.passages
                        n == Len(p)
                    IN  /\ g.start <= g.at /\ (g.start <= Len(g.atoms) => g.at <= Len(g.atoms))
                        /\ \A k \in 1 .. n : p[k].first = (IF k = 1 THEN 1 ELSE p[k - 1].last + 1) /\ p[k].first <= p[k].last
                        /\ g.pc = "done" => (IF n = 0 THEN 0 ELSE p[n].last) = Len(g.atoms)
                        /\ \A k \in 1 .. n - 1 : Timed!EndOf(g.atoms, p[k].first, p[k].last) <= g.atoms[p[k + 1].first].start
                        /\ \A k \in 1 .. n : Timed!ExceedsHard(g.atoms, p[k].first, p[k].last, g.policy) <=> p[k].reason = "unsplittable"
  BY DEF PassagesPartition, Timed!PassagesPartition
<1> DEFINE p == grouping.passages
           N == Len(grouping.atoms)
<1>1. PICK n : n = Len(p)
  OBVIOUS
<1>2. /\ p \in Seq(PassageType) /\ grouping.start \in Nat /\ grouping.atoms \in AtomLists
      /\ Walk(grouping)
  BY DEF GroupingInv, GroupingCall
<1>3. N \in Nat /\ n \in Nat /\ \A k \in 1 .. n : p[k] \in PassageType
  BY <1>1, <1>2 DEF ContentAssumption, Timed!TranscriptsAssumption
<1>4. /\ \A k \in 1 .. n : PassageSound(grouping, k)
      /\ grouping.start = (IF n = 0 THEN 1 ELSE p[n].last + 1)
      /\ grouping.start <= grouping.at /\ (grouping.start <= N => grouping.at <= N)
      /\ grouping.pc = "done" => grouping.start > N
  BY <1>1, <1>2 DEF Walk
<1>5. \A k \in 1 .. n :
         /\ p[k].first \in Nat /\ p[k].last \in Nat
         /\ p[k].first = (IF k = 1 THEN 1 ELSE p[k - 1].last + 1) /\ p[k].first <= p[k].last /\ p[k].last <= N
         /\ Timed!SafeBoundary(grouping.atoms, p[k].first, p[k].last)
         /\ Timed!ExceedsHard(grouping.atoms, p[k].first, p[k].last, grouping.policy) <=> p[k].reason = "unsplittable"
  BY <1>3, <1>4 DEF PassageSound, PassageType
<1> HIDE DEF p, N
<1>6. grouping.pc = "done" => (IF n = 0 THEN 0 ELSE p[n].last) = N
  BY <1>3, <1>4, <1>5
<1>7. ASSUME NEW k \in 1 .. n - 1
      PROVE  Timed!EndOf(grouping.atoms, p[k].first, p[k].last) <= grouping.atoms[p[k + 1].first].start
  <2>1. k \in 1 .. n /\ k + 1 \in 1 .. n /\ k + 1 # 1 /\ (k + 1) - 1 = k
    BY <1>3
  <2>2. p[k + 1].first = p[k].last + 1 /\ p[k].last # N
    BY ONLY <1>3, <1>5, <2>1
  <2>3. Timed!SafeBoundary(grouping.atoms, p[k].first, p[k].last)
    BY <1>5, <2>1
  <2>4. grouping.atoms[p[k].last + 1].start >= Timed!EndOf(grouping.atoms, p[k].first, p[k].last)
    BY <2>2, <2>3 DEF Timed!SafeBoundary, N
  <2> QED
    BY <2>2, <2>4
<1> QED
  BY <1>1, <1>4, <1>5, <1>6, <1>7 DEF p, N

\* Closing the open passage at a safe boundary.
LEMMA EmitKeeps ==
    ASSUME ContentAssumption, NEW g \in GroupingCall, Walk(g), g.pc = "find", g.start <= Len(g.atoms),
           NEW e \in Nat, g.start <= e, e <= Len(g.atoms), Timed!SafeBoundary(g.atoms, g.start, e),
           NEW reason \in Reasons, Timed!ExceedsHard(g.atoms, g.start, e, g.policy) <=> reason = "unsplittable",
           NEW r, r = Timed!Emit(g, e, reason)
    PROVE  r \in GroupingCall /\ Walk(r) /\ r.policy = g.policy
<1> DEFINE p == g.passages
           new == [first |-> g.start, last |-> e, reason |-> reason]
<1>1. PICK n : n = Len(p)
  OBVIOUS
<1>2. PICK N : N = Len(g.atoms)
  OBVIOUS
<1>3. p \in Seq(PassageType) /\ n \in Nat /\ N \in Nat /\ g.start \in Nat
  BY <1>1, <1>2 DEF GroupingCall, ContentAssumption, Timed!TranscriptsAssumption
<1>4. new \in PassageType
  BY <1>3 DEF PassageType
<1>5. PICK q : q = Append(p, new)
  OBVIOUS
<1>6. q \in Seq(PassageType) /\ Len(q) = n + 1 /\ q[n + 1] = new /\ \A k \in 1 .. n : q[k] = p[k]
  BY <1>1, <1>3, <1>4, <1>5
<1>7. r = [g EXCEPT !.passages = q, !.start = e + 1, !.at = e + 1, !.candidates = <<>>]
  BY <1>5 DEF Timed!Emit
<1>8. <<>> \in Seq(CandidateType) /\ Len(<<>>) = 0 /\ e + 1 \in Nat
  OBVIOUS
<1>9. r \in GroupingCall
  BY ONLY <1>6, <1>7, <1>8, g \in GroupingCall DEF GroupingCall
<1>10. /\ r.pc = g.pc /\ r.atoms = g.atoms /\ r.policy = g.policy /\ r.passages = q
       /\ r.start = e + 1 /\ r.at = e + 1 /\ r.candidates = <<>>
  BY ONLY <1>7, g \in GroupingCall DEF GroupingCall
<1>11. new.first = g.start /\ new.last = e /\ new.reason = reason
  OBVIOUS
<1> HIDE DEF new
<1>12. \A k \in 1 .. n : PassageSound(g, k)
  BY <1>1 DEF Walk
<1>13. g.start = (IF n = 0 THEN 1 ELSE p[n].last + 1)
  BY <1>1 DEF Walk
<1>14. ASSUME NEW k \in 1 .. n PROVE PassageSound(r, k)
  <2>1. q[k] = p[k] /\ (k # 1 => q[k - 1] = p[k - 1])
    BY <1>3, <1>6
  <2> QED
    BY <1>10, <1>12, <2>1 DEF PassageSound
<1>15. PassageSound(r, n + 1)
  <2>1. q[n + 1].first = (IF n + 1 = 1 THEN 1 ELSE q[(n + 1) - 1].last + 1)
    BY ONLY <1>3, <1>6, <1>11, <1>13
  <2> QED
    BY <1>2, <1>6, <1>10, <1>11, <2>1 DEF PassageSound
<1>16. r.start = (IF Len(q) = 0 THEN 1 ELSE q[Len(q)].last + 1)
  BY ONLY <1>3, <1>6, <1>10, <1>11
<1> QED
  <2>1. \A k \in 1 .. n + 1 : PassageSound(r, k)
    BY <1>3, <1>14, <1>15
  <2> QED
    BY <1>2, <1>3, <1>6, <1>8, <1>9, <1>10, <1>16, <2>1 DEF Walk

\* The end of a range of atoms is the end of one of them.
LEMMA EndOfAtoms ==
    ASSUME ContentAssumption, NEW atoms \in AtomLists, NEW i \in DOMAIN atoms, NEW j \in DOMAIN atoms, i <= j
    PROVE  Timed!EndOf(atoms, i, j) \in Nat
<1>1. Len(atoms) \in Nat /\ DOMAIN atoms = 1 .. Len(atoms) /\ \A k \in DOMAIN atoms : atoms[k].end \in Nat
  BY DEF ContentAssumption, Timed!TranscriptsAssumption
<1> DEFINE S == {m \in Nat : i + m <= j => \E k \in i .. i + m : \A l \in i .. i + m : atoms[k].end >= atoms[l].end}
<1>2. 0 \in S
  BY <1>1
<1>3. ASSUME NEW m \in Nat, m \in S PROVE m + 1 \in S
  <2> SUFFICES ASSUME i + (m + 1) <= j
               PROVE  \E k \in i .. i + (m + 1) : \A l \in i .. i + (m + 1) : atoms[k].end >= atoms[l].end
    OBVIOUS
  <2>1. i \in Nat /\ j \in Nat /\ i + m <= j /\ i + (m + 1) \in i .. i + (m + 1)
        /\ i .. i + (m + 1) = (i .. i + m) \cup {i + (m + 1)} /\ i .. i + (m + 1) \subseteq DOMAIN atoms
    BY <1>1
  <2>2. PICK k \in i .. i + m : \A l \in i .. i + m : atoms[k].end >= atoms[l].end
    BY <1>3, <2>1
  <2>3. /\ \A l \in i .. i + (m + 1) : atoms[l].end \in Nat
        /\ k \in i .. i + (m + 1)
    BY <1>1, <2>1
  <2>4. CASE atoms[k].end >= atoms[i + (m + 1)].end
    BY <2>1, <2>2, <2>3, <2>4
  <2>5. CASE atoms[i + (m + 1)].end >= atoms[k].end
    <3>1. \A l \in i .. i + (m + 1) : atoms[i + (m + 1)].end >= atoms[l].end
      BY <2>1, <2>2, <2>3, <2>5
    <3> QED
      BY <2>1, <3>1
  <2> QED
    BY <2>1, <2>3, <2>4, <2>5
<1>4. j - i \in Nat /\ i + (j - i) = j /\ j - i \in S
  <2>1. i \in Nat /\ j \in Nat /\ j - i \in Nat /\ i + (j - i) = j
    BY <1>1
  <2>2. Nat \subseteq S
    <3> HIDE DEF S
    <3> QED
      BY ONLY <1>2, <1>3, Induction
  <2> HIDE DEF S
  <2> QED
    BY ONLY <2>1, <2>2
<1>5. \E k \in i .. j : \A l \in i .. j : atoms[k].end >= atoms[l].end
  <2>1. PICK d \in S : i + d = j
    <3> HIDE DEF S
    <3> QED
      BY ONLY <1>4
  <2>2. i + d <= j
    BY <1>1, <2>1
  <2>3. \E k \in i .. i + d : \A l \in i .. i + d : atoms[k].end >= atoms[l].end
    BY ONLY <2>1, <2>2
  <2> QED
    BY ONLY <2>1, <2>3
<1>6. PICK ends : ends = {atoms[k].end : k \in i .. j}
  OBVIOUS
<1>7. ends \subseteq Nat /\ \E x \in ends : \A y \in ends : x >= y
  <2>1. i .. j \subseteq DOMAIN atoms
    BY <1>1
  <2>2. ends \subseteq Nat
    BY ONLY <1>1, <1>6, <2>1
  <2>3. PICK k \in i .. j : \A l \in i .. j : atoms[k].end >= atoms[l].end
    BY ONLY <1>5
  <2>4. atoms[k].end \in ends /\ \A y \in ends : atoms[k].end >= y
    BY ONLY <1>6, <2>3
  <2> QED
    BY ONLY <2>2, <2>4
<1> QED
  BY <1>6, <1>7 DEF Timed!EndOf, Timed!Max

LEMMA DistanceInteger ==
    ASSUME NEW v \in Int, NEW target \in Nat, target >= 1
    PROVE  Timed!Distance(v, target) \in Int
<1>1. PICK d \in Int : d = (IF v > target THEN v - target ELSE target - v) * 10
  OBVIOUS
<1>2. d \div target \in Int
  BY <1>1
<1> QED
  BY <1>1, <1>2 DEF Timed!Distance

\* A candidate can be compared with every other.
LEMMA CandidateTyped ==
    ASSUME ContentAssumption, NEW atoms \in AtomLists, NEW i \in DOMAIN atoms, NEW j \in DOMAIN atoms, i <= j,
           NEW policy \in TimedPolicies, Timed!ValidPolicy(policy), NEW risk \in BOOLEAN
    PROVE  /\ Timed!Candidate(atoms, i, j, policy, risk) \in CandidateType
           /\ Timed!Candidate(atoms, i, j, policy, risk).end = j
<1>1. /\ DOMAIN atoms = 1 .. Len(atoms) /\ Len(atoms) \in Nat /\ j \in Nat
      /\ \A k \in DOMAIN atoms : atoms[k].start \in Nat
      /\ Counted(atoms, i, j) \in Nat
  BY DEF ContentAssumption, Timed!TranscriptsAssumption
<1>2. /\ policy.targetTokens \in Nat /\ policy.targetTokens >= 1
      /\ policy.targetDuration \in Nat /\ policy.targetDuration >= 1
  <2>1. policy \in [minTokens : Nat, targetTokens : Nat, softTokens : Nat, hardTokens : Nat,
                    minDuration : Nat, targetDuration : Nat, softDuration : Nat, hardDuration : Nat,
                    mediumPause : Nat, strongPause : Nat]
    BY DEF ContentAssumption, Timed!TranscriptsAssumption
  <2> QED
    BY <2>1 DEF Timed!ValidPolicy
<1>3. Timed!TokensOf(atoms, i, j) \in Int /\ Timed!DurationOf(atoms, i, j) \in Int
  <2>1. PICK last \in Nat : last = Timed!EndOf(atoms, i, j)
    BY EndOfAtoms
  <2>2. PICK first \in Nat : first = atoms[i].start
    BY <1>1
  <2> QED
    BY ONLY <1>1, <2>1, <2>2 DEF Timed!TokensOf, Timed!DurationOf
<1>4. /\ Timed!Distance(Timed!TokensOf(atoms, i, j), policy.targetTokens) \in Int
      /\ Timed!Distance(Timed!DurationOf(atoms, i, j), policy.targetDuration) \in Int
  BY <1>2, <1>3, DistanceInteger
<1>5. Timed!BoundaryScore(atoms, i, j, policy, risk) \in Int
  <2>1. PICK far \in Int : far = Timed!Distance(Timed!TokensOf(atoms, i, j), policy.targetTokens)
    BY <1>4
  <2>2. PICK long \in Int : long = Timed!Distance(Timed!DurationOf(atoms, i, j), policy.targetDuration)
    BY <1>4
  <2>3. PICK gap : gap = atoms[j + 1].start - Timed!EndOf(atoms, i, j)
    OBVIOUS
  <2>4. PICK pause \in Int : pause = Timed!PauseScore(gap, policy)
    BY DEF Timed!PauseScore, Timed!Weight
  <2>5. PICK speakers \in Int :
           speakers = Timed!Weight(atoms[j].speaker # "none" /\ atoms[j + 1].speaker # "none"
                                   /\ atoms[j].speaker # atoms[j + 1].speaker, 45)
    BY DEF Timed!Weight
  <2>6. PICK following \in Int : following = IF j = Len(atoms) THEN 0 ELSE speakers + pause
    OBVIOUS
  <2>7. PICK hard \in Int : hard = Timed!Weight(risk, 100)
    BY DEF Timed!Weight
  <2>8. PICK sentence \in Int : sentence = Timed!Weight(atoms[j].sentence, 40)
    BY DEF Timed!Weight
  <2>9. PICK line \in Int : line = Timed!Weight(atoms[j].line, 15)
    BY DEF Timed!Weight
  <2>10. PICK soft \in Int :
            soft = Timed!Weight(Timed!TokensOf(atoms, i, j) >= policy.softTokens
                                \/ Timed!DurationOf(atoms, i, j) >= policy.softDuration, 20)
    BY DEF Timed!Weight
  <2>11. PICK tokens \in Int : tokens = Timed!Weight(Timed!TokensOf(atoms, i, j) >= policy.targetTokens, 10)
    BY DEF Timed!Weight
  <2>12. PICK duration \in Int : duration = Timed!Weight(Timed!DurationOf(atoms, i, j) >= policy.targetDuration, 10)
    BY DEF Timed!Weight
  <2>13. Timed!BoundaryScore(atoms, i, j, policy, risk)
           = hard + following + sentence + line + soft + tokens + duration - far - long
    BY ONLY <2>1, <2>2, <2>3, <2>4, <2>5, <2>6, <2>7, <2>8, <2>9, <2>10, <2>11, <2>12 DEF Timed!BoundaryScore
  <2> QED
    BY ONLY <2>13
<1> QED
  BY <1>1, <1>4, <1>5 DEF Timed!Candidate, CandidateType

\* The order of candidates is total, so one of them is the best.
LEMMA SelectsCandidate ==
    ASSUME NEW s \in Seq(CandidateType), s # <<>>
    PROVE  \E c \in 1 .. Len(s) : Timed!SelectCandidate(s) = s[c]
<1> DEFINE Best(c, m) == \A d \in 1 .. m : s[c] = s[d] \/ Timed!Better(s[c], s[d])
           S == {m \in Nat : m + 1 <= Len(s) => \E c \in 1 .. m + 1 : Best(c, m + 1)}
<1>0. PICK n : n = Len(s)
  OBVIOUS
<1>1. n \in Nat /\ n >= 1 /\ DOMAIN s = 1 .. n /\ \A c \in 1 .. n : s[c] \in CandidateType
  BY <1>0
<1>2. ASSUME NEW x \in CandidateType, NEW y \in CandidateType
      PROVE  x = y \/ Timed!Better(x, y) \/ Timed!Better(y, x)
  <2>1. /\ x.score \in Int /\ x.tokenDistance \in Int /\ x.durationDistance \in Int /\ x.end \in Nat
        /\ y.score \in Int /\ y.tokenDistance \in Int /\ y.durationDistance \in Int /\ y.end \in Nat
    BY DEF CandidateType
  <2>2. x = [end |-> x.end, score |-> x.score, tokenDistance |-> x.tokenDistance, durationDistance |-> x.durationDistance]
    BY ONLY x \in CandidateType DEF CandidateType
  <2>3. y = [end |-> y.end, score |-> y.score, tokenDistance |-> y.tokenDistance, durationDistance |-> y.durationDistance]
    BY ONLY y \in CandidateType DEF CandidateType
  <2>4. x.score = y.score /\ x.tokenDistance = y.tokenDistance /\ x.durationDistance = y.durationDistance /\ x.end = y.end
          => x = y
    BY ONLY <2>2, <2>3
  <2> QED
    BY ONLY <2>1, <2>4 DEF Timed!Better
<1>3. ASSUME NEW x \in CandidateType, NEW y \in CandidateType, NEW z \in CandidateType,
             Timed!Better(x, y), Timed!Better(y, z)
      PROVE  Timed!Better(x, z)
  <2>1. /\ x.score \in Int /\ x.tokenDistance \in Int /\ x.durationDistance \in Int /\ x.end \in Nat
        /\ y.score \in Int /\ y.tokenDistance \in Int /\ y.durationDistance \in Int /\ y.end \in Nat
        /\ z.score \in Int /\ z.tokenDistance \in Int /\ z.durationDistance \in Int /\ z.end \in Nat
    BY DEF CandidateType
  <2>2. x.score >= y.score /\ y.score >= z.score
    BY ONLY <1>3, <2>1 DEF Timed!Better
  <2>3. CASE x.score # y.score \/ y.score # z.score
    BY ONLY <2>1, <2>2, <2>3 DEF Timed!Better
  <2>4. CASE x.score = y.score /\ y.score = z.score
    <3>1. /\ x.score = z.score /\ ~(x.score > y.score) /\ ~(y.score > z.score)
          /\ x.tokenDistance <= y.tokenDistance /\ y.tokenDistance <= z.tokenDistance
      BY ONLY <1>3, <2>1, <2>4 DEF Timed!Better
    <3>2. CASE x.tokenDistance # y.tokenDistance \/ y.tokenDistance # z.tokenDistance
      BY ONLY <2>1, <3>1, <3>2 DEF Timed!Better
    <3>3. CASE x.tokenDistance = y.tokenDistance /\ y.tokenDistance = z.tokenDistance
      <4>1. x.tokenDistance = z.tokenDistance
        BY <3>3
      <4>2. /\ \/ x.durationDistance < y.durationDistance
               \/ x.durationDistance = y.durationDistance /\ x.end < y.end
            /\ \/ y.durationDistance < z.durationDistance
               \/ y.durationDistance = z.durationDistance /\ y.end < z.end
        BY ONLY <1>3, <2>1, <2>4, <3>3 DEF Timed!Better
      <4>3. \/ x.durationDistance < z.durationDistance
            \/ x.durationDistance = z.durationDistance /\ x.end < z.end
        BY ONLY <2>1, <4>2
      <4> QED
        BY ONLY <3>1, <4>1, <4>3 DEF Timed!Better
    <3> QED
      BY <3>2, <3>3
  <2> QED
    BY <2>3, <2>4
<1>4. 0 \in S
  <2>1. 1 .. 0 + 1 = {1}
    OBVIOUS
  <2>2. Best(1, 0 + 1)
    BY <2>1
  <2> QED
    BY <2>1, <2>2
<1>5. ASSUME NEW m \in Nat, m \in S PROVE m + 1 \in S
  <2> SUFFICES ASSUME (m + 1) + 1 <= n
               PROVE  \E c \in 1 .. (m + 1) + 1 : Best(c, (m + 1) + 1)
    BY <1>0
  <2>1. /\ (m + 1) + 1 \in 1 .. (m + 1) + 1 /\ m + 1 <= n
        /\ 1 .. (m + 1) + 1 = (1 .. m + 1) \cup {(m + 1) + 1} /\ 1 .. (m + 1) + 1 \subseteq 1 .. n
    BY <1>1
  <2>2. PICK c \in 1 .. m + 1 : Best(c, m + 1)
    BY <1>0, <1>5, <2>1
  <2>3. PICK new : new = (m + 1) + 1
    OBVIOUS
  <2>4. s[c] \in CandidateType /\ s[new] \in CandidateType /\ \A d \in 1 .. m + 1 : s[d] \in CandidateType
    BY <1>1, <2>1, <2>3
  <2>5. CASE s[c] = s[new] \/ Timed!Better(s[c], s[new])
    <3>1. Best(c, new)
      BY <2>1, <2>2, <2>3, <2>5
    <3> QED
      BY <2>1, <2>3, <3>1
  <2>6. CASE Timed!Better(s[new], s[c])
    <3>1. Best(new, new)
      <4>1. ASSUME NEW d \in 1 .. m + 1 PROVE Timed!Better(s[new], s[d])
        <5>1. s[c] = s[d] \/ Timed!Better(s[c], s[d])
          BY <2>2
        <5> QED
          BY <1>3, <2>4, <2>6, <5>1
      <4> QED
        BY <2>1, <2>3, <4>1
    <3> QED
      BY <2>1, <2>3, <3>1
  <2> QED
    BY <1>2, <2>4, <2>5, <2>6
<1>6. \E c \in 1 .. n : Best(c, n)
  <2>1. Nat \subseteq S
    BY <1>4, <1>5, Induction
  <2>2. n - 1 \in Nat /\ (n - 1) + 1 = n
    BY <1>1
  <2>3. n - 1 \in S
    BY <2>1, <2>2
  <2> QED
    BY <1>0, <2>2, <2>3
<1>7. PICK R : R = Timed!Range(s)
  OBVIOUS
<1>8. \A x : x \in R <=> \E c \in 1 .. n : x = s[c]
  BY <1>1, <1>7 DEF Timed!Range
<1>9. \E x \in R : \A y \in R : x = y \/ Timed!Better(x, y)
  <2>1. PICK c \in 1 .. n : \A d \in 1 .. n : s[c] = s[d] \/ Timed!Better(s[c], s[d])
    BY ONLY <1>6
  <2>2. s[c] \in R
    BY ONLY <1>8
  <2>3. \A y \in R : s[c] = y \/ Timed!Better(s[c], y)
    BY ONLY <1>8, <2>1
  <2> QED
    BY ONLY <2>2, <2>3
<1>10. Timed!SelectCandidate(s) = CHOOSE x \in R : \A y \in R : x = y \/ Timed!Better(x, y)
  BY <1>7 DEF Timed!SelectCandidate
<1>11. Timed!SelectCandidate(s) \in R
  BY <1>9, <1>10
<1> QED
  BY <1>0, <1>8, <1>11


\* What a step within one call has to keep.
StepKept(g, r) == r \in GroupingCall /\ Walk(r) /\ r.policy = g.policy

\* Emitting the best of some candidates at which the passage may end.
LEMMA EmitBestKeeps ==
    ASSUME ContentAssumption, NEW g \in GroupingCall, Walk(g), g.pc = "find", g.start <= Len(g.atoms),
           NEW s \in Seq(CandidateType), Len(s) # 0,
           \A c \in 1 .. Len(s) :
               /\ g.start <= s[c].end /\ s[c].end <= Len(g.atoms)
               /\ Timed!SafeBoundary(g.atoms, g.start, s[c].end)
               /\ ~Timed!ExceedsHard(g.atoms, g.start, s[c].end, g.policy),
           NEW reason \in Reasons, reason # "unsplittable",
           NEW r, r = Timed!Emit(g, Timed!SelectCandidate(s).end, reason)
    PROVE  StepKept(g, r)
<1>1. s # <<>>
  OBVIOUS
<1>2. PICK c \in 1 .. Len(s) : Timed!SelectCandidate(s) = s[c]
  BY <1>1, SelectsCandidate
<1>3. PICK e : e = s[c].end
  OBVIOUS
<1>4. e \in Nat
  <2>1. s[c] \in CandidateType
    OBVIOUS
  <2> QED
    BY <1>3, <2>1 DEF CandidateType
<1>5. /\ g.start <= e /\ e <= Len(g.atoms) /\ Timed!SafeBoundary(g.atoms, g.start, e)
      /\ ~Timed!ExceedsHard(g.atoms, g.start, e, g.policy)
  BY <1>3
<1>6. r = Timed!Emit(g, e, reason)
  BY <1>2, <1>3
<1> QED
  BY <1>4, <1>5, <1>6, EmitKeeps DEF StepKept

\* An open passage: its first atom and the one it is at are atoms.
LEMMA OpenPassage ==
    ASSUME ContentAssumption, NEW g \in GroupingCall, Walk(g), g.start <= Len(g.atoms)
    PROVE  /\ g.atoms \in AtomLists /\ g.policy \in TimedPolicies /\ Len(g.atoms) \in Nat
           /\ DOMAIN g.atoms = 1 .. Len(g.atoms) /\ g.start \in DOMAIN g.atoms /\ g.at \in DOMAIN g.atoms
           /\ g.start \in Nat /\ g.at \in Nat /\ g.start <= g.at /\ g.at <= Len(g.atoms)
           /\ g.candidates \in Seq(CandidateType) /\ Len(g.candidates) \in Nat
<1>1. /\ g.atoms \in AtomLists /\ g.policy \in TimedPolicies /\ g.start \in Nat /\ g.at \in Nat
      /\ g.candidates \in Seq(CandidateType) /\ g.passages \in Seq(PassageType)
  BY DEF GroupingCall
<1>2. Len(g.atoms) \in Nat /\ DOMAIN g.atoms = 1 .. Len(g.atoms) /\ Len(g.candidates) \in Nat /\ Len(g.passages) \in Nat
  <2>1. Len(g.atoms) \in Nat /\ DOMAIN g.atoms = 1 .. Len(g.atoms)
    BY <1>1 DEF ContentAssumption, Timed!TranscriptsAssumption
  <2>2. Len(g.candidates) \in Nat /\ Len(g.passages) \in Nat
    BY ONLY <1>1
  <2> QED
    BY ONLY <2>1, <2>2
<1>3. /\ g.start = (IF Len(g.passages) = 0 THEN 1 ELSE g.passages[Len(g.passages)].last + 1)
      /\ g.start <= g.at /\ g.at <= Len(g.atoms)
  BY DEF Walk
<1>4. Len(g.passages) # 0 => g.passages[Len(g.passages)] \in PassageType
  BY <1>1, <1>2
<1>5. Len(g.passages) # 0 => g.passages[Len(g.passages)].last \in Nat
  BY <1>4 DEF PassageType
<1>6. g.start >= 1
  BY ONLY <1>2, <1>3, <1>5
<1> QED
  BY ONLY <1>1, <1>2, <1>3, <1>6

\* Passing over a boundary, with or without a candidate more.
LEMMA AdvanceKeeps ==
    ASSUME ContentAssumption, NEW g \in GroupingCall, Walk(g), g.pc = "find", g.start <= Len(g.atoms),
           g.at # Len(g.atoms), NEW s \in Seq(CandidateType),
           \A c \in 1 .. Len(s) :
               /\ g.start <= s[c].end /\ s[c].end <= g.at
               /\ Timed!SafeBoundary(g.atoms, g.start, s[c].end)
               /\ ~Timed!ExceedsHard(g.atoms, g.start, s[c].end, g.policy),
           NEW r, r = [g EXCEPT !.candidates = s, !.at = @ + 1]
    PROVE  StepKept(g, r)
<1>1. /\ g.start \in Nat /\ g.at \in Nat /\ g.start <= g.at /\ g.at <= Len(g.atoms) /\ Len(g.atoms) \in Nat
  BY OpenPassage
<1>2. r \in GroupingCall
  <2>1. PICK next \in Nat : next = g.at + 1
    BY <1>1
  <2>2. PICK kinds : kinds = Seq(CandidateType)
    OBVIOUS
  <2>3. s \in kinds
    BY <2>2
  <2>4. r = [g EXCEPT !.candidates = s, !.at = next]
    BY <2>1
  <2> QED
    BY ONLY g \in GroupingCall, <2>2, <2>3, <2>4 DEF GroupingCall
<1>3. /\ r.pc = g.pc /\ r.atoms = g.atoms /\ r.policy = g.policy /\ r.passages = g.passages
      /\ r.start = g.start /\ r.at = g.at + 1 /\ r.candidates = s
  BY ONLY g \in GroupingCall, r = [g EXCEPT !.candidates = s, !.at = @ + 1] DEF GroupingCall
<1>4. \A k \in 1 .. Len(g.passages) : PassageSound(r, k)
  BY <1>3 DEF Walk, PassageSound
<1>5. \A c \in 1 .. Len(s) : MayEnd(r, s[c].end)
  <2> SUFFICES ASSUME NEW c \in 1 .. Len(s) PROVE MayEnd(r, s[c].end)
    OBVIOUS
  <2>1. s[c] \in CandidateType
    OBVIOUS
  <2>2. s[c].end \in Nat
    BY <2>1 DEF CandidateType
  <2>3. g.start <= s[c].end /\ s[c].end < g.at + 1
    BY <1>1, <2>2
  <2> QED
    BY <1>3, <2>3 DEF MayEnd
<1>6. g.start <= g.at + 1 /\ g.at + 1 <= Len(g.atoms)
  BY <1>1
<1> QED
  BY <1>2, <1>3, <1>4, <1>5, <1>6 DEF StepKept, Walk

\* What the candidates of the open passage have in common.
LEMMA CandidatesKept ==
    ASSUME ContentAssumption, NEW g \in GroupingCall, Walk(g), g.start <= Len(g.atoms)
    PROVE  \A c \in 1 .. Len(g.candidates) :
               /\ g.candidates[c].end \in Nat /\ g.start <= g.candidates[c].end /\ g.candidates[c].end < g.at
               /\ Timed!SafeBoundary(g.atoms, g.start, g.candidates[c].end)
               /\ ~Timed!ExceedsHard(g.atoms, g.start, g.candidates[c].end, g.policy)
<1> SUFFICES ASSUME NEW c \in 1 .. Len(g.candidates)
             PROVE  /\ g.candidates[c].end \in Nat /\ g.start <= g.candidates[c].end /\ g.candidates[c].end < g.at
                    /\ Timed!SafeBoundary(g.atoms, g.start, g.candidates[c].end)
                    /\ ~Timed!ExceedsHard(g.atoms, g.start, g.candidates[c].end, g.policy)
  OBVIOUS
<1>1. g.candidates[c] \in CandidateType
  BY OpenPassage
<1>2. g.candidates[c].end \in Nat
  BY <1>1 DEF CandidateType
<1> QED
  BY <1>2 DEF Walk, MayEnd

\* At most one more candidate, at an atom where the passage may end.
LEMMA CandidateAdded ==
    ASSUME ContentAssumption, NEW g \in GroupingCall, Walk(g), g.pc = "find", g.start <= Len(g.atoms),
           Timed!ValidPolicy(g.policy), NEW risk \in BOOLEAN,
           Timed!SafeBoundary(g.atoms, g.start, g.at), ~Timed!ExceedsHard(g.atoms, g.start, g.at, g.policy),
           NEW s, s = Append(g.candidates, Timed!Candidate(g.atoms, g.start, g.at, g.policy, risk))
    PROVE  /\ s \in Seq(CandidateType) /\ Len(s) # 0
           /\ \A c \in 1 .. Len(s) :
                  /\ s[c].end \in Nat /\ g.start <= s[c].end /\ s[c].end <= g.at
                  /\ Timed!SafeBoundary(g.atoms, g.start, s[c].end)
                  /\ ~Timed!ExceedsHard(g.atoms, g.start, s[c].end, g.policy)
<1>1. /\ g.atoms \in AtomLists /\ g.policy \in TimedPolicies /\ g.start \in DOMAIN g.atoms /\ g.at \in DOMAIN g.atoms
      /\ g.start \in Nat /\ g.at \in Nat /\ g.start <= g.at /\ g.candidates \in Seq(CandidateType)
  BY OpenPassage
<1>2. PICK new : new = Timed!Candidate(g.atoms, g.start, g.at, g.policy, risk)
  OBVIOUS
<1>3. new \in CandidateType /\ new.end = g.at
  BY <1>1, <1>2, CandidateTyped
<1>4. PICK n \in Nat : n = Len(g.candidates)
  BY <1>1
<1>5. s \in Seq(CandidateType) /\ Len(s) = n + 1 /\ s[n + 1] = new /\ \A c \in 1 .. n : s[c] = g.candidates[c]
  BY ONLY <1>1, <1>2, <1>3, <1>4, s = Append(g.candidates, Timed!Candidate(g.atoms, g.start, g.at, g.policy, risk))
<1>6. \A c \in 1 .. n :
         /\ g.candidates[c].end \in Nat /\ g.start <= g.candidates[c].end /\ g.candidates[c].end < g.at
         /\ Timed!SafeBoundary(g.atoms, g.start, g.candidates[c].end)
         /\ ~Timed!ExceedsHard(g.atoms, g.start, g.candidates[c].end, g.policy)
  BY <1>4, CandidatesKept
<1>7. ASSUME NEW c \in 1 .. n + 1
      PROVE  /\ s[c].end \in Nat /\ g.start <= s[c].end /\ s[c].end <= g.at
             /\ Timed!SafeBoundary(g.atoms, g.start, s[c].end)
             /\ ~Timed!ExceedsHard(g.atoms, g.start, s[c].end, g.policy)
  <2>1. CASE c \in 1 .. n
    <3>1. s[c].end = g.candidates[c].end
      BY <1>5, <2>1
    <3> QED
      BY <1>1, <1>6, <2>1, <3>1
  <2>2. CASE c = n + 1
    BY <1>1, <1>3, <1>5, <2>2
  <2> QED
    BY <1>4, <2>1, <2>2
<1> QED
  BY <1>4, <1>5, <1>7

\* Beyond the hard limit.
LEMMA BeyondHardLimitKeeps ==
    ASSUME ContentAssumption, NEW g \in GroupingCall, Walk(g), g.pc = "find", g.start <= Len(g.atoms),
           Timed!ValidPolicy(g.policy), Timed!ExceedsHard(g.atoms, g.start, g.at, g.policy),
           NEW r, r = Timed!BeyondHardLimit(g)
    PROVE  StepKept(g, r)
<1>1. /\ g.atoms \in AtomLists /\ g.policy \in TimedPolicies /\ g.start \in DOMAIN g.atoms /\ g.at \in DOMAIN g.atoms
      /\ DOMAIN g.atoms = 1 .. Len(g.atoms) /\ Len(g.atoms) \in Nat
      /\ g.start \in Nat /\ g.at \in Nat /\ g.start <= g.at /\ g.at <= Len(g.atoms)
      /\ g.candidates \in Seq(CandidateType)
  BY OpenPassage
<1>2. PICK n \in Nat : n = Len(g.candidates)
  BY <1>1
<1>3. PICK old : old = g.candidates
  OBVIOUS
<1>4. PICK boosted : boosted = [old EXCEPT ![n] = Timed!Candidate(g.atoms, g.start, @.end, g.policy, TRUE)]
  OBVIOUS
<1>5. r = IF n > 0 THEN Timed!Emit(g, Timed!SelectCandidate(boosted).end, "hard_limit")
          ELSE IF ~Timed!SafeBoundary(g.atoms, g.start, g.at) THEN [g EXCEPT !.at = @ + 1]
          ELSE IF g.unsplittable = "reject" THEN [g EXCEPT !.pc = "unsplittable_hard_limit"]
          ELSE Timed!Emit(g, g.at, "unsplittable")
  BY <1>2, <1>3, <1>4 DEF Timed!BeyondHardLimit
<1>6. CASE n > 0
  <2>1. old \in Seq(CandidateType) /\ Len(old) = n /\ n \in 1 .. n
    BY <1>1, <1>2, <1>3, <1>6
  <2>2. \A c \in 1 .. n :
           /\ old[c].end \in Nat /\ g.start <= old[c].end /\ old[c].end < g.at
           /\ Timed!SafeBoundary(g.atoms, g.start, old[c].end)
           /\ ~Timed!ExceedsHard(g.atoms, g.start, old[c].end, g.policy)
    BY <1>2, <1>3, CandidatesKept
  <2>3. PICK e : e = old[n].end
    OBVIOUS
  <2>4. e \in DOMAIN g.atoms /\ g.start <= e
    BY <1>1, <2>1, <2>2, <2>3
  <2>5. PICK new : new = Timed!Candidate(g.atoms, g.start, e, g.policy, TRUE)
    OBVIOUS
  <2>6. new \in CandidateType /\ new.end = e
    BY <1>1, <2>4, <2>5, CandidateTyped
  <2>7. boosted = [old EXCEPT ![n] = new]
    BY <1>4, <2>3, <2>5
  <2>8. boosted \in Seq(CandidateType) /\ Len(boosted) = n /\ \A c \in 1 .. n : boosted[c] = IF c = n THEN new ELSE old[c]
    BY ONLY <2>1, <2>6, <2>7
  <2>9. ASSUME NEW c \in 1 .. n
        PROVE  boosted[c].end = old[c].end
    BY ONLY <2>3, <2>6, <2>8
  <2>10. \A c \in 1 .. Len(boosted) :
            /\ g.start <= boosted[c].end /\ boosted[c].end <= Len(g.atoms)
            /\ Timed!SafeBoundary(g.atoms, g.start, boosted[c].end)
            /\ ~Timed!ExceedsHard(g.atoms, g.start, boosted[c].end, g.policy)
    BY <1>1, <2>2, <2>8, <2>9
  <2>11. "hard_limit" \in Reasons /\ "hard_limit" # "unsplittable" /\ Len(boosted) # 0
    BY <1>6, <2>8 DEF Reasons
  <2>12. r = Timed!Emit(g, Timed!SelectCandidate(boosted).end, "hard_limit")
    BY <1>5, <1>6
  <2> QED
    BY <2>8, <2>10, <2>11, <2>12, EmitBestKeeps
<1>7. CASE n = 0
  <2>1. CASE ~Timed!SafeBoundary(g.atoms, g.start, g.at)
    <3>1. g.at # Len(g.atoms)
      BY <2>1 DEF Timed!SafeBoundary
    <3>2. r = [g EXCEPT !.at = @ + 1]
      BY <1>5, <1>7, <2>1
    <3>3. g = [g EXCEPT !.candidates = g.candidates]
      BY DEF GroupingCall
    <3>4. r = [g EXCEPT !.candidates = g.candidates, !.at = @ + 1]
      BY <3>2, <3>3 DEF GroupingCall
    <3>5. \A c \in 1 .. Len(g.candidates) : FALSE
      BY <1>2, <1>7
    <3> QED
      BY <1>1, <3>1, <3>4, <3>5, AdvanceKeeps
  <2>2. CASE Timed!SafeBoundary(g.atoms, g.start, g.at) /\ g.unsplittable = "reject"
    <3>1. r = [g EXCEPT !.pc = "unsplittable_hard_limit"]
      BY <1>5, <1>7, <2>2
    <3>2. r \in GroupingCall
      BY ONLY g \in GroupingCall, <3>1 DEF GroupingCall
    <3>3. /\ r.pc = "unsplittable_hard_limit" /\ r.atoms = g.atoms /\ r.policy = g.policy /\ r.passages = g.passages
          /\ r.start = g.start /\ r.at = g.at /\ r.candidates = g.candidates
      BY ONLY g \in GroupingCall, <3>1 DEF GroupingCall
    <3> QED
      BY <3>2, <3>3 DEF StepKept, Walk, MayEnd, PassageSound
  <2>3. CASE Timed!SafeBoundary(g.atoms, g.start, g.at) /\ g.unsplittable # "reject"
    <3>1. r = Timed!Emit(g, g.at, "unsplittable")
      BY <1>5, <1>7, <2>3
    <3>2. "unsplittable" \in Reasons
      BY DEF Reasons
    <3> QED
      BY <1>1, <2>3, <3>1, <3>2, EmitKeeps DEF StepKept
  <2> QED
    BY <2>1, <2>2, <2>3
<1> QED
  BY <1>2, <1>6, <1>7

\* Within the hard limits.
LEMMA WithinLimitsKeeps ==
    ASSUME ContentAssumption, NEW g \in GroupingCall, Walk(g), g.pc = "find", g.start <= Len(g.atoms),
           Timed!ValidPolicy(g.policy), ~Timed!ExceedsHard(g.atoms, g.start, g.at, g.policy),
           NEW r, r = Timed!WithinLimits(g)
    PROVE  StepKept(g, r)
<1>1. /\ g.start \in Nat /\ g.at \in Nat /\ g.start <= g.at /\ g.at <= Len(g.atoms) /\ Len(g.atoms) \in Nat
      /\ g.candidates \in Seq(CandidateType)
  BY OpenPassage
<1>2. PICK last \in BOOLEAN : last <=> g.at = Len(g.atoms)
  OBVIOUS
<1>3. PICK hardRisk \in BOOLEAN :
         hardRisk <=> ~(g.at = Len(g.atoms)) /\ Timed!ExceedsHard(g.atoms, g.start, g.at + 1, g.policy)
  OBVIOUS
<1>4. PICK softMax \in BOOLEAN :
         softMax <=> \/ Timed!TokensOf(g.atoms, g.start, g.at) >= g.policy.softTokens
                     \/ Timed!DurationOf(g.atoms, g.start, g.at) >= g.policy.softDuration
  OBVIOUS
<1>5. PICK eligible \in BOOLEAN :
         eligible <=> /\ Timed!TokensOf(g.atoms, g.start, g.at) >= g.policy.minTokens
                      /\ Timed!DurationOf(g.atoms, g.start, g.at) >= g.policy.minDuration
  OBVIOUS
<1>6. PICK more : more = Append(g.candidates, Timed!Candidate(g.atoms, g.start, g.at, g.policy, hardRisk))
  OBVIOUS
<1>7. PICK candidates : candidates = IF eligible \/ hardRisk \/ softMax \/ last THEN more ELSE g.candidates
  OBVIOUS
<1>8. r = IF ~Timed!SafeBoundary(g.atoms, g.start, g.at) THEN [g EXCEPT !.at = @ + 1]
          ELSE IF hardRisk THEN Timed!Emit(g, Timed!SelectCandidate(candidates).end, "hard_limit")
          ELSE IF softMax THEN Timed!Emit(g, Timed!SelectCandidate(candidates).end, "soft_max")
          ELSE IF last THEN Timed!Emit(g, Timed!SelectCandidate(candidates).end, "end_of_input")
          ELSE [g EXCEPT !.candidates = candidates, !.at = @ + 1]
  BY <1>2, <1>3, <1>4, <1>5, <1>6, <1>7 DEF Timed!WithinLimits
<1>9. CASE ~Timed!SafeBoundary(g.atoms, g.start, g.at)
  <2>1. g.at # Len(g.atoms)
    BY <1>9 DEF Timed!SafeBoundary
  <2>2. r = [g EXCEPT !.at = @ + 1]
    BY <1>8, <1>9
  <2>3. r = [g EXCEPT !.candidates = g.candidates, !.at = @ + 1]
    BY ONLY <2>2, g \in GroupingCall DEF GroupingCall
  <2>4. \A c \in 1 .. Len(g.candidates) :
           /\ g.start <= g.candidates[c].end /\ g.candidates[c].end <= g.at
           /\ Timed!SafeBoundary(g.atoms, g.start, g.candidates[c].end)
           /\ ~Timed!ExceedsHard(g.atoms, g.start, g.candidates[c].end, g.policy)
    BY <1>1, CandidatesKept
  <2> QED
    BY <1>1, <2>1, <2>3, <2>4, AdvanceKeeps
<1>10. CASE Timed!SafeBoundary(g.atoms, g.start, g.at)
  <2>1. /\ more \in Seq(CandidateType) /\ Len(more) # 0
        /\ \A c \in 1 .. Len(more) :
               /\ more[c].end \in Nat /\ g.start <= more[c].end /\ more[c].end <= g.at
               /\ Timed!SafeBoundary(g.atoms, g.start, more[c].end)
               /\ ~Timed!ExceedsHard(g.atoms, g.start, more[c].end, g.policy)
    BY <1>6, <1>10, CandidateAdded
  <2>2. \A c \in 1 .. Len(more) : g.start <= more[c].end /\ more[c].end <= Len(g.atoms)
    BY ONLY <1>1, <2>1
  <2>3. ASSUME NEW reason \in Reasons, reason # "unsplittable", candidates = more,
               r = Timed!Emit(g, Timed!SelectCandidate(candidates).end, reason)
        PROVE  StepKept(g, r)
    BY <2>1, <2>2, <2>3, EmitBestKeeps
  <2>4. /\ "hard_limit" \in Reasons /\ "soft_max" \in Reasons /\ "end_of_input" \in Reasons
        /\ "hard_limit" # "unsplittable" /\ "soft_max" # "unsplittable" /\ "end_of_input" # "unsplittable"
    BY DEF Reasons
  <2>5. CASE hardRisk \/ softMax \/ last
    <3>1. candidates = more
      BY <1>7, <2>5
    <3>2. \E reason \in {"hard_limit", "soft_max", "end_of_input"} :
             r = Timed!Emit(g, Timed!SelectCandidate(candidates).end, reason)
      BY <1>8, <1>10, <2>5
    <3> QED
      BY <2>3, <2>4, <3>1, <3>2
  <2>6. CASE ~(hardRisk \/ softMax \/ last)
    <3>1. r = [g EXCEPT !.candidates = candidates, !.at = @ + 1] /\ g.at # Len(g.atoms)
      BY <1>2, <1>8, <1>10, <2>6
    <3>2. CASE candidates = more
      BY <2>1, <3>1, <3>2, AdvanceKeeps
    <3>3. CASE candidates = g.candidates
      <4>1. \A c \in 1 .. Len(g.candidates) :
               /\ g.start <= g.candidates[c].end /\ g.candidates[c].end <= g.at
               /\ Timed!SafeBoundary(g.atoms, g.start, g.candidates[c].end)
               /\ ~Timed!ExceedsHard(g.atoms, g.start, g.candidates[c].end, g.policy)
        BY <1>1, CandidatesKept
      <4> QED
        BY <1>1, <3>1, <3>3, <4>1, AdvanceKeeps
    <3> QED
      BY <1>7, <3>2, <3>3
  <2> QED
    BY <2>5, <2>6
<1> QED
  BY <1>9, <1>10

LEMMA GroupingInvInit ==
    ASSUME Timed!Init
    PROVE  GroupingInv
BY DEF Timed!Init, GroupingInv

\* A call begins with nothing grouped.
LEMMA GroupingBeginKeeps ==
    ASSUME ContentAssumption, GroupingInv, Timed!Begin
    PROVE  GroupingInv'
<1>1. PICK atoms \in AtomLists, policy \in TimedPolicies, unsplittable \in {"reject", "flag"} :
         /\ Timed!ValidPolicy(policy)
         /\ grouping' = [pc |-> IF Timed!OrderedAtoms(atoms) THEN "find" ELSE "atoms_not_ordered",
                         atoms |-> atoms, policy |-> policy, unsplittable |-> unsplittable,
                         start |-> 1, at |-> 1, candidates |-> <<>>, passages |-> <<>>]
  BY DEF Timed!Begin
<1>2. PICK r : r = grouping'
  OBVIOUS
<1>3. /\ r.pc \in {"find", "atoms_not_ordered"} /\ r.atoms = atoms /\ r.policy = policy
      /\ r.start = 1 /\ r.at = 1 /\ r.candidates = <<>> /\ r.passages = <<>>
  BY <1>1, <1>2
<1>4. r \in GroupingCall
  <2>1. <<>> \in Seq(CandidateType) /\ <<>> \in Seq(PassageType) /\ 1 \in Nat
    OBVIOUS
  <2> QED
    BY <1>1, <1>2, <2>1 DEF GroupingCall
<1>5. Walk(r)
  <2>1. Len(atoms) \in Nat /\ Len(<<>>) = 0
    BY DEF ContentAssumption, Timed!TranscriptsAssumption
  <2> QED
    BY <1>3, <2>1 DEF Walk
<1> QED
  BY <1>1, <1>2, <1>3, <1>4, <1>5 DEF GroupingInv

LEMMA GroupingInvNext ==
    ASSUME ContentAssumption, GroupingInv, Timed!Next
    PROVE  GroupingInv'
<1>1. CASE Timed!Begin
  BY <1>1, GroupingBeginKeeps
<1>2. ASSUME grouping.pc = "find"
      PROVE  /\ grouping # Timed!Idle /\ grouping \in GroupingCall /\ Timed!ValidPolicy(grouping.policy) /\ Walk(grouping)
  <2>1. grouping # Timed!Idle
    BY <1>2 DEF Timed!Idle
  <2> QED
    BY <1>2, <2>1 DEF GroupingInv
<1>3. CASE Timed!FindBoundary
  <2>1. grouping.pc = "find" /\ grouping.start <= Len(grouping.atoms)
    BY <1>3 DEF Timed!FindBoundary
  <2>2. PICK r : r = grouping'
    OBVIOUS
  <2>3. CASE Timed!ExceedsHard(grouping.atoms, grouping.start, grouping.at, grouping.policy)
    <3>1. r = Timed!BeyondHardLimit(grouping)
      BY <1>3, <2>2, <2>3 DEF Timed!FindBoundary
    <3> QED
      BY <1>2, <2>1, <2>2, <2>3, <3>1, BeyondHardLimitKeeps DEF StepKept, GroupingInv
  <2>4. CASE ~Timed!ExceedsHard(grouping.atoms, grouping.start, grouping.at, grouping.policy)
    <3>1. r = Timed!WithinLimits(grouping)
      BY <1>3, <2>2, <2>4 DEF Timed!FindBoundary
    <3> QED
      BY <1>2, <2>1, <2>2, <2>4, <3>1, WithinLimitsKeeps DEF StepKept, GroupingInv
  <2> QED
    BY <2>3, <2>4
<1>4. CASE Timed!Return
  <2>1. grouping.pc = "find" /\ grouping.start > Len(grouping.atoms)
    BY <1>4 DEF Timed!Return
  <2>2. PICK g : g = grouping
    OBVIOUS
  <2>3. PICK r : r = grouping'
    OBVIOUS
  <2>4. g \in GroupingCall /\ Timed!ValidPolicy(g.policy) /\ Walk(g)
    BY <1>2, <2>1, <2>2
  <2>5. r = [g EXCEPT !.pc = "done"]
    BY <1>4, <2>2, <2>3 DEF Timed!Return
  <2>6. r \in GroupingCall
    BY ONLY <2>4, <2>5 DEF GroupingCall
  <2>7. /\ r.atoms = g.atoms /\ r.policy = g.policy /\ r.passages = g.passages
        /\ r.start = g.start /\ r.at = g.at /\ r.candidates = g.candidates
    BY ONLY <2>4, <2>5 DEF GroupingCall
  <2>8. Walk(r)
    BY <2>1, <2>2, <2>4, <2>7 DEF Walk, MayEnd, PassageSound
  <2> QED
    BY <2>3, <2>4, <2>6, <2>7, <2>8 DEF GroupingInv
<1> QED
  BY <1>1, <1>3, <1>4 DEF Timed!Next

\* Whatever overlaps in a transcript, and whatever its tokens count, the
\* passages of group_timed_atoms hold every atom once and in order, end
\* before the next begins, and only a passage marked unsplittable is beyond
\* a hard limit; the walk never runs past the last atom.
THEOREM PassagesAlwaysPartition ==
    ASSUME ContentAssumption
    PROVE  Timed!Spec => []PassagesPartition
<1>1. Timed!Init => GroupingInv
  BY GroupingInvInit
<1>2. GroupingInv /\ [Timed!Next]_grouping => GroupingInv'
  <2>1. CASE UNCHANGED grouping
    BY <2>1 DEF GroupingInv
  <2> QED
    BY <2>1, GroupingInvNext
<1>3. GroupingInv => PassagesPartition
  BY GroupingInvPartitions
<1> QED
  BY <1>1, <1>2, <1>3, PTL DEF Timed!Spec

-----------------------------------------------------------------------------
(***************************************************************************)
(* The tables of the first schema.  A savepoint that is about to be        *)
(* committed holds tables as well linked as the committed ones, whatever   *)
(* the other writers did meanwhile: the number of a preparation is in no   *)
(* row until it is written, so that no chunk takes the id of another, and  *)
(* a profile is only bound to a model whose vectors fit.                   *)
(***************************************************************************)

TableFields == {"files", "sections", "chunks", "fts", "profiles", "embeddings"}
ReplaceFields == {"pc", "id", "logical", "path", "source", "profile", "number", "db"}

\* The rows of a file are those one preparation made of its source.
RowsOf(t, f, n) ==
    /\ {s \in t.sections : s.file = f.id} = Tables!Rows(n, f.id, f.source).sections
    /\ {c \in t.chunks : c.file = f.id} = Tables!Range(Tables!Rows(n, f.id, f.source).chunks)
\* A vector belongs to a chunk and to the one model its profile is bound to.
VectorBound(t, e) ==
    /\ \E c \in t.chunks : c.id = e.chunk
    /\ \E p \in t.profiles : p.name = e.profile
    /\ \A p \in t.profiles : p.name = e.profile => p.fingerprint = e.fingerprint /\ p.dimensions = e.dimensions

FilesApart(t) == \A f, g \in t.files : f.id = g.id \/ f.path = g.path \/ f.logical = g.logical => f = g
RowsPrepared(t, m) == \A f \in t.files : \E n \in 0 .. m - 1 : RowsOf(t, f, n)
RowsOwned(t) == \A x \in t.chunks \cup t.sections : \E f \in t.files : f.id = x.file
ChunksApart(t, m) ==
    /\ \A c, d \in t.chunks : c.id = d.id => c = d
    /\ \A c \in t.chunks : c.id[1] \in 0 .. m - 1
VectorsBound(t) ==
    /\ \A e \in t.embeddings : VectorBound(t, e)
    /\ \A p \in t.profiles : p.dimensions = Dimensions[p.fingerprint]

Linked(t, m) ==
    /\ DOMAIN t = TableFields
    /\ FilesApart(t) /\ RowsPrepared(t, m) /\ RowsOwned(t) /\ ChunksApart(t, m) /\ VectorsBound(t)

\* No chunk has the number of a preparation still to be written.
Fresh(t, n) == \A c \in t.chunks : c.id[1] # n

StorageInv ==
    /\ prepared \in Nat /\ DOMAIN writing = Writers
    /\ Linked(tables, prepared)
    /\ \A w \in Writers :
          /\ writing[w].pc = "commit" => Linked(writing[w].db, prepared)
          /\ writing[w].pc = "replace" =>
                /\ DOMAIN writing[w] = ReplaceFields
                /\ writing[w].number \in 0 .. prepared - 1
                /\ Fresh(tables, writing[w].number)
                /\ \A v \in Writers :
                      /\ writing[v].pc = "commit" => Fresh(writing[v].db, writing[w].number)
                      /\ v # w /\ writing[v].pc = "replace" => writing[v].number # writing[w].number

LEMMA StorageInvLinks ==
    ASSUME StorageInv
    PROVE  TablesLinked
<1>1. PICK t : t = tables
  OBVIOUS
<1>2. FilesApart(t) /\ RowsPrepared(t, prepared) /\ RowsOwned(t) /\ ChunksApart(t, prepared) /\ VectorsBound(t)
  BY <1>1 DEF StorageInv, Linked
<1>3. \A f, g \in t.files : f.id = g.id \/ f.path = g.path \/ f.logical = g.logical => f = g
  BY <1>2 DEF FilesApart
<1>4. \A f \in t.files : \E n \in 0 .. prepared - 1 :
         /\ {s \in t.sections : s.file = f.id} = Tables!Rows(n, f.id, f.source).sections
         /\ {c \in t.chunks : c.file = f.id} = Tables!Range(Tables!Rows(n, f.id, f.source).chunks)
  BY <1>2 DEF RowsPrepared, RowsOf
<1>5. \A x \in t.chunks \cup t.sections : \E f \in t.files : f.id = x.file
  BY <1>2 DEF RowsOwned
<1>6. \A c, d \in t.chunks : c.id = d.id => c = d
  BY <1>2 DEF ChunksApart
<1>7. ASSUME NEW e \in t.embeddings
      PROVE  /\ \E c \in t.chunks : c.id = e.chunk
             /\ {[fingerprint |-> p.fingerprint, dimensions |-> p.dimensions] : p \in {q \in t.profiles : q.name = e.profile}}
                = {[fingerprint |-> e.fingerprint, dimensions |-> e.dimensions]}
  <2>1. VectorBound(t, e)
    BY <1>2 DEF VectorsBound
  <2>2. PICK named : named = {q \in t.profiles : q.name = e.profile}
    OBVIOUS
  <2>3. named # {} /\ \A p \in named : p.fingerprint = e.fingerprint /\ p.dimensions = e.dimensions
    BY <2>1, <2>2 DEF VectorBound
  <2>4. {[fingerprint |-> p.fingerprint, dimensions |-> p.dimensions] : p \in named}
        = {[fingerprint |-> e.fingerprint, dimensions |-> e.dimensions]}
    BY ONLY <2>3
  <2> QED
    BY <2>1, <2>2, <2>4 DEF VectorBound
<1> QED
  BY <1>1, <1>3, <1>4, <1>5, <1>6, <1>7 DEF TablesLinked, Tables!TablesLinked

\* The rows of a preparation belong to its file, and its chunks are apart.
LEMMA RowsOfOne ==
    ASSUME NEW n, NEW id, NEW source, NEW rows, rows = Tables!Rows(n, id, source)
    PROVE  /\ \A s \in rows.sections : s.file = id
           /\ \A c \in Tables!Range(rows.chunks) : c.file = id /\ c.id[1] = n
           /\ \A c, d \in Tables!Range(rows.chunks) : c.id = d.id => c = d
<1>1. \A s \in rows.sections : s.file = id
  BY DEF Tables!Rows
<1>2. PICK chunks : chunks = rows.chunks
  OBVIOUS
<1>3. /\ DOMAIN chunks = DOMAIN source.chunks
      /\ \A k \in DOMAIN chunks : chunks[k].id = <<n, k>> /\ chunks[k].file = id
  BY <1>2 DEF Tables!Rows
<1>4. \A c \in Tables!Range(chunks) : \E k \in DOMAIN chunks : c = chunks[k]
  BY DEF Tables!Range
<1>5. \A c \in Tables!Range(chunks) : c.file = id /\ c.id[1] = n
  BY <1>3, <1>4
<1>6. ASSUME NEW c \in Tables!Range(chunks), NEW d \in Tables!Range(chunks), c.id = d.id
      PROVE  c = d
  <2>1. PICK k \in DOMAIN chunks : c = chunks[k]
    BY <1>4
  <2>2. PICK l \in DOMAIN chunks : d = chunks[l]
    BY <1>4
  <2>3. <<n, k>> = <<n, l>>
    BY <1>3, <1>6, <2>1, <2>2
  <2> QED
    BY <2>1, <2>2, <2>3
<1> QED
  BY <1>1, <1>2, <1>5, <1>6

\* What only grows with the number of preparations, and what only depends on
\* the tables that are linked.
LEMMA LinkedMonotone ==
    ASSUME NEW t, NEW m \in Nat, Linked(t, m)
    PROVE  Linked(t, m + 1)
<1>1. 0 .. m - 1 \subseteq 0 .. (m + 1) - 1
  OBVIOUS
<1> QED
  BY <1>1 DEF Linked, RowsPrepared, ChunksApart

LEMMA SameRowsLinked ==
    ASSUME NEW t, NEW m, Linked(t, m), NEW u, DOMAIN u = TableFields,
           u.files = t.files, u.sections = t.sections, u.chunks = t.chunks,
           u.profiles = t.profiles, u.embeddings = t.embeddings
    PROVE  Linked(u, m)
BY DEF Linked, FilesApart, RowsPrepared, RowsOf, RowsOwned, ChunksApart, VectorsBound, VectorBound

\* The rows derived from a file are gone, with the vectors of its chunks.
LEMMA Cleared ==
    ASSUME NEW t, DOMAIN t = TableFields, NEW id, NEW gone, NEW u, u = Tables!DeleteDerivedRows(t, id, gone)
    PROVE  /\ DOMAIN u = TableFields /\ u.files = t.files /\ u.profiles = t.profiles
           /\ u.sections = {s \in t.sections : s.file # id}
           /\ u.chunks = {c \in t.chunks : c.file # id}
           /\ u.embeddings = {e \in t.embeddings : e.chunk \notin Tables!ChunkIds(t, id)}
<1>1. PICK kept : kept = Tables!SelectSeq(t.fts, LAMBDA r : r.chunk \notin gone)
  OBVIOUS
<1> QED
  BY DEF Tables!DeleteDerivedRows, TableFields

\* What remains bound once a file's chunks are gone.
LEMMA ClearedBound ==
    ASSUME NEW t, NEW m, Linked(t, m), NEW id, NEW u, u.profiles = t.profiles,
           u.chunks = {c \in t.chunks : c.file # id},
           u.embeddings = {e \in t.embeddings : e.chunk \notin Tables!ChunkIds(t, id)}
    PROVE  VectorsBound(u)
<1> SUFFICES ASSUME NEW e \in u.embeddings PROVE \E c \in u.chunks : c.id = e.chunk
  BY DEF Linked, VectorsBound, VectorBound
<1>1. e \in t.embeddings /\ e.chunk \notin Tables!ChunkIds(t, id)
  OBVIOUS
<1>2. PICK c \in t.chunks : c.id = e.chunk
  BY <1>1 DEF Linked, VectorsBound, VectorBound
<1>3. c.file # id
  BY <1>1, <1>2 DEF Tables!ChunkIds
<1> QED
  BY <1>2, <1>3

\* Deleting a file and what was derived from it.
LEMMA DeletedLinked ==
    ASSUME NEW t, NEW m, Linked(t, m), NEW id, NEW u, DOMAIN u = TableFields, u.profiles = t.profiles,
           u.files = {f \in t.files : f.id # id},
           u.sections = {s \in t.sections : s.file # id},
           u.chunks = {c \in t.chunks : c.file # id},
           u.embeddings = {e \in t.embeddings : e.chunk \notin Tables!ChunkIds(t, id)}
    PROVE  Linked(u, m)
<1>1. VectorsBound(u)
  BY ClearedBound
<1>2. FilesApart(u)
  BY DEF Linked, FilesApart
<1>3. RowsPrepared(u, m)
  <2> SUFFICES ASSUME NEW f \in u.files PROVE \E n \in 0 .. m - 1 : RowsOf(u, f, n)
    BY DEF RowsPrepared
  <2>1. f \in t.files /\ f.id # id
    OBVIOUS
  <2>2. PICK n \in 0 .. m - 1 : RowsOf(t, f, n)
    BY <2>1 DEF Linked, RowsPrepared
  <2>3. {s \in u.sections : s.file = f.id} = {s \in t.sections : s.file = f.id}
    BY <2>1
  <2>4. {c \in u.chunks : c.file = f.id} = {c \in t.chunks : c.file = f.id}
    BY <2>1
  <2> QED
    BY <2>2, <2>3, <2>4 DEF RowsOf
<1>4. RowsOwned(u)
  <2> SUFFICES ASSUME NEW x \in u.chunks \cup u.sections PROVE \E f \in u.files : f.id = x.file
    BY DEF RowsOwned
  <2>1. x \in t.chunks \cup t.sections /\ x.file # id
    OBVIOUS
  <2>2. PICK f \in t.files : f.id = x.file
    BY <2>1 DEF Linked, RowsOwned
  <2> QED
    BY <2>1, <2>2
<1>5. ChunksApart(u, m)
  BY DEF Linked, ChunksApart
<1> QED
  BY <1>1, <1>2, <1>3, <1>4, <1>5 DEF Linked

\* What replace_file leaves in its savepoint.
Written(u, t, c) ==
    LET rows == Tables!Rows(c.number, c.id, c.source)
        chunks == Tables!Range(rows.chunks)
        vector(chunk) == [chunk |-> chunk.id, profile |-> c.profile.name, fingerprint |-> c.profile.fingerprint,
                          dimensions |-> Dimensions[c.profile.fingerprint]]
    IN  /\ DOMAIN u = TableFields
        /\ u.files = {f \in t.files : f.id # c.id}
                     \cup {[id |-> c.id, logical |-> c.logical, path |-> c.path, source |-> c.source]}
        /\ u.sections = {s \in t.sections : s.file # c.id} \cup rows.sections
        /\ u.chunks = {x \in t.chunks : x.file # c.id} \cup chunks
        /\ u.profiles = IF Tables!Embeds(c) /\ \A p \in t.profiles : p.name # c.profile.name
                        THEN t.profiles \cup {c.profile} ELSE t.profiles
        /\ u.embeddings = {e \in t.embeddings : e.chunk \notin Tables!ChunkIds(t, c.id)}
                          \cup {vector(chunk) : chunk \in IF Tables!Embeds(c) THEN chunks ELSE {}}

\* The statements of replace_file, one after another.
Savepoint(t, c, gone, rows, cleared, filed, u) ==
    /\ rows = Tables!Rows(c.number, c.id, c.source)
    /\ cleared = Tables!DeleteDerivedRows(t, c.id, gone)
    /\ filed = [Tables!WriteFile(cleared, c) EXCEPT !.sections = @ \cup rows.sections]
    /\ u = Tables!WriteChunks(Tables!EnsureProfile(filed, c), c, rows.chunks)

LEMMA SavepointWritten ==
    ASSUME NEW t, DOMAIN t = TableFields, NEW c, NEW gone, NEW rows, NEW cleared, NEW filed, NEW u,
           Savepoint(t, c, gone, rows, cleared, filed, u)
    PROVE  /\ Written(u, t, c)
           /\ filed.profiles = t.profiles /\ cleared.files = t.files
<1>0. /\ rows = Tables!Rows(c.number, c.id, c.source)
      /\ cleared = Tables!DeleteDerivedRows(t, c.id, gone)
      /\ filed = [Tables!WriteFile(cleared, c) EXCEPT !.sections = @ \cup rows.sections]
      /\ u = Tables!WriteChunks(Tables!EnsureProfile(filed, c), c, rows.chunks)
  BY DEF Savepoint
<1>1. /\ DOMAIN cleared = TableFields /\ cleared.files = t.files /\ cleared.profiles = t.profiles
      /\ cleared.sections = {s \in t.sections : s.file # c.id}
      /\ cleared.chunks = {x \in t.chunks : x.file # c.id}
      /\ cleared.embeddings = {e \in t.embeddings : e.chunk \notin Tables!ChunkIds(t, c.id)}
  BY <1>0, Cleared
<1>2. PICK files : files = {f \in t.files : f.id # c.id}
                           \cup {[id |-> c.id, logical |-> c.logical, path |-> c.path, source |-> c.source]}
  OBVIOUS
<1>3. PICK rewritten : rewritten = Tables!WriteFile(cleared, c)
  OBVIOUS
<1>4. rewritten = [cleared EXCEPT !.files = files]
  BY <1>1, <1>2, <1>3 DEF Tables!WriteFile
<1>5. /\ DOMAIN filed = TableFields /\ filed.files = files /\ filed.profiles = t.profiles
      /\ filed.sections = {s \in t.sections : s.file # c.id} \cup rows.sections
      /\ filed.chunks = cleared.chunks /\ filed.embeddings = cleared.embeddings
  <2>1. filed = [rewritten EXCEPT !.sections = @ \cup rows.sections]
    BY <1>0, <1>3
  <2> QED
    BY ONLY <1>1, <1>4, <2>1 DEF TableFields
<1>6. PICK ensured : ensured = Tables!EnsureProfile(filed, c)
  OBVIOUS
<1>7. PICK profiles : profiles = IF Tables!Embeds(c) /\ \A p \in t.profiles : p.name # c.profile.name
                                 THEN t.profiles \cup {c.profile} ELSE t.profiles
  OBVIOUS
<1>8. /\ DOMAIN ensured = TableFields /\ ensured.files = filed.files /\ ensured.profiles = profiles
      /\ ensured.sections = filed.sections /\ ensured.chunks = filed.chunks /\ ensured.embeddings = filed.embeddings
  <2>1. CASE Tables!Embeds(c) /\ \A p \in t.profiles : p.name # c.profile.name
    <3>1. ensured = [filed EXCEPT !.profiles = @ \cup {c.profile}]
      BY <1>5, <1>6, <2>1 DEF Tables!EnsureProfile
    <3> QED
      BY ONLY <1>5, <1>7, <2>1, <3>1 DEF TableFields
  <2>2. CASE ~(Tables!Embeds(c) /\ \A p \in t.profiles : p.name # c.profile.name)
    <3>1. ensured = filed
      BY <1>5, <1>6, <2>2 DEF Tables!EnsureProfile
    <3> QED
      BY ONLY <1>5, <1>7, <2>2, <3>1
  <2> QED
    BY <2>1, <2>2
<1>9. PICK vectors : vectors = {[chunk |-> chunk.id, profile |-> c.profile.name, fingerprint |-> c.profile.fingerprint,
                                  dimensions |-> Dimensions[c.profile.fingerprint]] :
                                   chunk \in IF Tables!Embeds(c) THEN Tables!Range(rows.chunks) ELSE {}}
  OBVIOUS
<1>10. PICK fts : fts = ensured.fts \o [k \in DOMAIN rows.chunks |-> [chunk |-> rows.chunks[k].id, text |-> rows.chunks[k].text]]
  OBVIOUS
<1>11. u = [ensured EXCEPT !.chunks = @ \cup Tables!Range(rows.chunks), !.fts = fts, !.embeddings = @ \cup vectors]
  BY <1>0, <1>6, <1>9, <1>10 DEF Tables!WriteChunks
<1>12. /\ DOMAIN u = TableFields /\ u.files = files /\ u.profiles = profiles
       /\ u.sections = filed.sections /\ u.chunks = cleared.chunks \cup Tables!Range(rows.chunks)
       /\ u.embeddings = cleared.embeddings \cup vectors
  BY ONLY <1>5, <1>8, <1>11 DEF TableFields
<1> QED
  BY <1>0, <1>1, <1>2, <1>5, <1>7, <1>9, <1>12 DEF Written

\* A file that was written is linked as the others are, if its number is
\* fresh and its path, document, profile and vectors fit.
LEMMA WrittenLinked ==
    ASSUME NEW t, NEW m \in Nat, Linked(t, m), NEW c, c.number \in 0 .. m - 1, Fresh(t, c.number),
           NEW u, Written(u, t, c),
           \A f \in t.files : f.id # c.id => f.path # c.path /\ f.logical # c.logical,
           Tables!Embeds(c) => \A p \in t.profiles : p.name = c.profile.name => p.fingerprint = c.profile.fingerprint,
           Tables!Embeds(c) => Dimensions[c.profile.fingerprint] = c.profile.dimensions
    PROVE  Linked(u, m)
<1>1. PICK rows : rows = Tables!Rows(c.number, c.id, c.source)
  OBVIOUS
<1>2. PICK chunks : chunks = Tables!Range(rows.chunks)
  OBVIOUS
<1>3. PICK new : new = [id |-> c.id, logical |-> c.logical, path |-> c.path, source |-> c.source]
  OBVIOUS
<1>4. PICK vectors : vectors = {[chunk |-> chunk.id, profile |-> c.profile.name, fingerprint |-> c.profile.fingerprint,
                                 dimensions |-> Dimensions[c.profile.fingerprint]] :
                                   chunk \in IF Tables!Embeds(c) THEN chunks ELSE {}}
  OBVIOUS
<1>5. /\ DOMAIN u = TableFields
      /\ u.files = {f \in t.files : f.id # c.id} \cup {new}
      /\ u.sections = {s \in t.sections : s.file # c.id} \cup rows.sections
      /\ u.chunks = {x \in t.chunks : x.file # c.id} \cup chunks
      /\ u.profiles = IF Tables!Embeds(c) /\ \A p \in t.profiles : p.name # c.profile.name
                      THEN t.profiles \cup {c.profile} ELSE t.profiles
      /\ u.embeddings = {e \in t.embeddings : e.chunk \notin Tables!ChunkIds(t, c.id)} \cup vectors
  BY <1>1, <1>2, <1>3, <1>4 DEF Written
<1>6. /\ \A s \in rows.sections : s.file = c.id
      /\ \A x \in chunks : x.file = c.id /\ x.id[1] = c.number
      /\ \A x, y \in chunks : x.id = y.id => x = y
  BY <1>1, <1>2, RowsOfOne
<1>7. new.id = c.id /\ new.logical = c.logical /\ new.path = c.path /\ new.source = c.source
  BY <1>3
<1>8. /\ FilesApart(t) /\ RowsPrepared(t, m) /\ RowsOwned(t) /\ ChunksApart(t, m) /\ VectorsBound(t)
  BY DEF Linked
<1>9. FilesApart(u)
  BY ONLY <1>5, <1>7, <1>8, \A f \in t.files : f.id # c.id => f.path # c.path /\ f.logical # c.logical DEF FilesApart
<1>10. RowsPrepared(u, m)
  <2> SUFFICES ASSUME NEW f \in u.files PROVE \E n \in 0 .. m - 1 : RowsOf(u, f, n)
    BY DEF RowsPrepared
  <2>1. CASE f = new
    <3>1. {s \in u.sections : s.file = f.id} = rows.sections
      BY ONLY <1>5, <1>6, <1>7, <2>1
    <3>2. {x \in u.chunks : x.file = f.id} = chunks
      BY ONLY <1>5, <1>6, <1>7, <2>1
    <3>3. rows = Tables!Rows(c.number, f.id, f.source)
      BY ONLY <1>1, <1>7, <2>1
    <3>4. RowsOf(u, f, c.number)
      BY ONLY <1>2, <3>1, <3>2, <3>3 DEF RowsOf
    <3> QED
      BY <3>4
  <2>2. CASE f # new
    <3>1. f \in t.files /\ f.id # c.id
      BY ONLY <1>5, <2>2, f \in u.files
    <3>2. PICK n \in 0 .. m - 1 : RowsOf(t, f, n)
      BY <1>8, <3>1 DEF RowsPrepared
    <3>3. {s \in u.sections : s.file = f.id} = {s \in t.sections : s.file = f.id}
      BY ONLY <1>5, <1>6, <3>1
    <3>4. {x \in u.chunks : x.file = f.id} = {x \in t.chunks : x.file = f.id}
      BY ONLY <1>5, <1>6, <3>1
    <3>5. RowsOf(u, f, n)
      BY ONLY <3>2, <3>3, <3>4 DEF RowsOf
    <3> QED
      BY <3>5
  <2> QED
    BY <2>1, <2>2
<1>11. RowsOwned(u)
  <2> SUFFICES ASSUME NEW x \in u.chunks \cup u.sections PROVE \E f \in u.files : f.id = x.file
    BY DEF RowsOwned
  <2>1. CASE x.file = c.id
    BY ONLY <1>5, <1>7, <2>1
  <2>2. CASE x.file # c.id
    <3>1. x \in t.chunks \cup t.sections
      BY ONLY <1>5, <1>6, <2>2, x \in u.chunks \cup u.sections
    <3>2. PICK f \in t.files : f.id = x.file
      BY <1>8, <3>1 DEF RowsOwned
    <3> QED
      BY ONLY <1>5, <2>2, <3>2
  <2> QED
    BY <2>1, <2>2
<1>12. ChunksApart(u, m)
  <2>1. ASSUME NEW x \in u.chunks, NEW y \in u.chunks, x.id = y.id PROVE x = y
    <3>1. x \in t.chunks /\ y \in t.chunks => x = y
      BY <1>8, <2>1 DEF ChunksApart
    <3>2. x \in chunks /\ y \in chunks => x = y
      BY <1>6, <2>1
    <3>3. ~(x \in chunks /\ y \in t.chunks) /\ ~(x \in t.chunks /\ y \in chunks)
      BY <1>6, <2>1 DEF Fresh
    <3> QED
      BY ONLY <1>5, <3>1, <3>2, <3>3, <2>1
  <2>2. \A x \in u.chunks : x.id[1] \in 0 .. m - 1
    BY <1>5, <1>6, <1>8 DEF ChunksApart
  <2> QED
    BY <2>1, <2>2 DEF ChunksApart
<1>13. VectorsBound(u)
  <2>1. \A p \in u.profiles : p.dimensions = Dimensions[p.fingerprint]
    BY <1>5, <1>8 DEF VectorsBound
  <2>2. ASSUME NEW e \in u.embeddings PROVE VectorBound(u, e)
    <3>1. CASE e \in vectors
      <4>1. Tables!Embeds(c)
        BY <1>4, <3>1
      <4>2. PICK x \in chunks : e = [chunk |-> x.id, profile |-> c.profile.name, fingerprint |-> c.profile.fingerprint,
                                     dimensions |-> Dimensions[c.profile.fingerprint]]
        BY <1>4, <3>1
      <4>3. e.chunk = x.id /\ e.profile = c.profile.name /\ e.fingerprint = c.profile.fingerprint
            /\ e.dimensions = Dimensions[c.profile.fingerprint]
        BY ONLY <4>2
      <4>4. \E p \in u.profiles : p.name = c.profile.name
        BY ONLY <1>5, <4>1
      <4>5. ASSUME NEW p \in u.profiles, p.name = c.profile.name
            PROVE  p.fingerprint = c.profile.fingerprint
        BY <1>5, <4>1, <4>5
      <4>6. \A p \in u.profiles : p.name = e.profile => p.fingerprint = e.fingerprint /\ p.dimensions = e.dimensions
        BY <2>1, <4>3, <4>5
      <4>7. x \in u.chunks
        BY <1>5
      <4> QED
        BY ONLY <4>3, <4>4, <4>6, <4>7 DEF VectorBound
    <3>2. CASE e \notin vectors
      <4>1. e \in t.embeddings /\ e.chunk \notin Tables!ChunkIds(t, c.id)
        BY ONLY <1>5, <3>2, e \in u.embeddings
      <4>2. VectorBound(t, e)
        BY <1>8, <4>1 DEF VectorsBound
      <4>3. PICK x \in t.chunks : x.id = e.chunk
        BY <4>2 DEF VectorBound
      <4>4. x.file # c.id
        BY <4>1, <4>3 DEF Tables!ChunkIds
      <4>5. x \in u.chunks
        BY ONLY <1>5, <4>3, <4>4
      <4>6. PICK q \in t.profiles : q.name = e.profile
        BY <4>2 DEF VectorBound
      <4>7. u.profiles = t.profiles \/ (u.profiles = t.profiles \cup {c.profile} /\ \A p \in t.profiles : p.name # c.profile.name)
        BY ONLY <1>5
      <4>8. \A p \in u.profiles : p.name = e.profile => p \in t.profiles
        BY ONLY <4>6, <4>7
      <4>9. \A p \in u.profiles : p.name = e.profile => p.fingerprint = e.fingerprint /\ p.dimensions = e.dimensions
        BY <4>2, <4>8 DEF VectorBound
      <4>10. q \in u.profiles
        BY ONLY <4>7, <4>6
      <4> QED
        BY ONLY <4>3, <4>5, <4>6, <4>9, <4>10 DEF VectorBound
    <3> QED
      BY <3>1, <3>2
  <2> QED
    BY <2>1, <2>2 DEF VectorsBound
<1> QED
  BY <1>5, <1>9, <1>10, <1>11, <1>12, <1>13 DEF Linked

\* The chunks of a savepoint are committed ones or have its number.
LEMMA WrittenFresh ==
    ASSUME NEW t, NEW c, NEW u, Written(u, t, c), NEW n, Fresh(t, n), n # c.number
    PROVE  Fresh(u, n)
<1>1. PICK chunks : chunks = Tables!Range(Tables!Rows(c.number, c.id, c.source).chunks)
  OBVIOUS
<1>2. \A x \in chunks : x.id[1] = c.number
  BY <1>1, RowsOfOne
<1>3. u.chunks = {x \in t.chunks : x.file # c.id} \cup chunks
  BY <1>1 DEF Written
<1> QED
  BY <1>2, <1>3 DEF Fresh

LEMMA StorageInvInit ==
    ASSUME Tables!Init
    PROVE  StorageInv
<1>1. /\ tables = Tables!Empty /\ prepared = 0 /\ writing = [w \in Writers |-> Tables!Resting]
  BY DEF Tables!Init
<1>2. /\ DOMAIN tables = TableFields /\ tables.files = {} /\ tables.sections = {} /\ tables.chunks = {}
      /\ tables.profiles = {} /\ tables.embeddings = {}
  BY <1>1 DEF Tables!Empty, TableFields
<1>3. Linked(tables, 0)
  BY <1>2 DEF Linked, FilesApart, RowsPrepared, RowsOwned, ChunksApart, VectorsBound
<1>4. \A w \in Writers : writing[w].pc = "idle"
  BY <1>1 DEF Tables!Resting
<1> QED
  BY <1>1, <1>3, <1>4 DEF StorageInv

\* A step that gives a writer a call that neither replaces nor commits, with
\* tables that are linked and hold no chunk of a preparation to be written.
LEMMA StorageInvRests ==
    ASSUME StorageInv, Linked(tables', prepared), prepared' = prepared, NEW w \in Writers,
           \A v \in Writers : writing[v].pc = "replace" /\ v # w => Fresh(tables', writing[v].number),
           NEW c, c.pc \notin {"replace", "commit"}, writing' = [writing EXCEPT ![w] = c]
    PROVE  StorageInv'
<1>1. /\ DOMAIN writing' = Writers /\ writing'[w] = c
      /\ \A v \in Writers : v # w => writing'[v] = writing[v]
  BY DEF StorageInv
<1>2. prepared' \in Nat /\ Linked(tables', prepared')
  BY DEF StorageInv
<1>3. ASSUME NEW v \in Writers
      PROVE  /\ writing'[v].pc = "commit" => Linked(writing'[v].db, prepared')
             /\ writing'[v].pc = "replace" =>
                   /\ DOMAIN writing'[v] = ReplaceFields
                   /\ writing'[v].number \in 0 .. prepared' - 1
                   /\ Fresh(tables', writing'[v].number)
                   /\ \A x \in Writers :
                         /\ writing'[x].pc = "commit" => Fresh(writing'[x].db, writing'[v].number)
                         /\ x # v /\ writing'[x].pc = "replace" => writing'[x].number # writing'[v].number
  <2>1. CASE v = w
    BY <1>1, <2>1
  <2>2. CASE v # w
    <3>1. writing'[v] = writing[v]
      BY <1>1, <2>2
    <3>2. writing[v].pc = "commit" => Linked(writing[v].db, prepared)
      BY DEF StorageInv
    <3>3. ASSUME writing[v].pc = "replace"
          PROVE  /\ DOMAIN writing[v] = ReplaceFields /\ writing[v].number \in 0 .. prepared - 1
                 /\ Fresh(tables, writing[v].number)
                 /\ \A x \in Writers :
                       /\ writing[x].pc = "commit" => Fresh(writing[x].db, writing[v].number)
                       /\ x # v /\ writing[x].pc = "replace" => writing[x].number # writing[v].number
      BY <3>3 DEF StorageInv
    <3>4. writing[v].pc = "replace" => Fresh(tables', writing[v].number)
      BY <2>2
    <3> QED
      BY ONLY <1>1, <3>1, <3>2, <3>3, <3>4, prepared' = prepared, c.pc \notin {"replace", "commit"}
  <2> QED
    BY <2>1, <2>2
<1> QED
  BY <1>1, <1>2, <1>3 DEF StorageInv, Linked, FilesApart, RowsPrepared, RowsOf, RowsOwned, ChunksApart, VectorsBound, VectorBound, Fresh

\* A preparation takes a number nothing has.
LEMMA PrepareKeeps ==
    ASSUME StorageInv, NEW w \in Writers, Tables!Prepare(w)
    PROVE  StorageInv'
<1>1. PICK c : /\ writing' = [writing EXCEPT ![w] = c] /\ c.pc = "replace" /\ c.number = prepared
               /\ DOMAIN c = ReplaceFields
  <2>1. PICK p \in FilePaths, source \in TableSources, profile \in Profiles \cup {NoProfile}, deleted \in {{}, FilePaths} :
           LET found == Tables!FileByPath(tables, p)
               existing == IF found # {} THEN found ELSE Tables!RenameSource(tables, deleted \ {p}, source)
               id == IF existing = {} THEN prepared ELSE (CHOOSE f \in existing : TRUE).id
               logical == IF existing = {} THEN p ELSE (CHOOSE f \in existing : TRUE).logical
           IN  Tables!Go(w, [pc |-> "replace", id |-> id, logical |-> logical, path |-> p, source |-> source,
                             profile |-> profile, number |-> prepared, db |-> Tables!Empty])
    BY DEF Tables!Prepare
  <2>2. PICK id, logical :
           writing' = [writing EXCEPT ![w] = [pc |-> "replace", id |-> id, logical |-> logical, path |-> p, source |-> source,
                                              profile |-> profile, number |-> prepared, db |-> Tables!Empty]]
    BY <2>1 DEF Tables!Go
  <2>3. PICK c : c = [pc |-> "replace", id |-> id, logical |-> logical, path |-> p, source |-> source,
                      profile |-> profile, number |-> prepared, db |-> Tables!Empty]
    OBVIOUS
  <2>4. c.pc = "replace" /\ c.number = prepared /\ DOMAIN c = ReplaceFields
    BY <2>3 DEF ReplaceFields
  <2> QED
    BY <2>2, <2>3, <2>4
<1>2. tables' = tables /\ prepared' = prepared + 1 /\ prepared \in Nat /\ DOMAIN writing = Writers
  BY DEF Tables!Prepare, StorageInv
<1>3. Linked(tables', prepared')
  BY <1>2, LinkedMonotone DEF StorageInv
<1>4. \A v \in Writers : writing[v].pc = "commit" => Linked(writing[v].db, prepared')
  BY <1>2, LinkedMonotone DEF StorageInv
<1>5. ASSUME NEW t, Linked(t, prepared) PROVE Fresh(t, prepared)
  <2>1. \A x \in t.chunks : x.id[1] \in 0 .. prepared - 1
    BY <1>5 DEF Linked, ChunksApart
  <2> QED
    BY <1>2, <2>1 DEF Fresh
<1>6. /\ writing'[w] = c /\ DOMAIN writing' = Writers
      /\ \A v \in Writers : v # w => writing'[v] = writing[v]
  BY <1>1, <1>2
<1>7. 0 .. prepared - 1 \subseteq 0 .. prepared' - 1 /\ prepared \in 0 .. prepared' - 1 /\ prepared \notin 0 .. prepared - 1
  BY <1>2
<1>8. ASSUME NEW v \in Writers, writing'[v].pc = "replace"
      PROVE  /\ DOMAIN writing'[v] = ReplaceFields
             /\ writing'[v].number \in 0 .. prepared' - 1
             /\ Fresh(tables', writing'[v].number)
             /\ \A x \in Writers :
                   /\ writing'[x].pc = "commit" => Fresh(writing'[x].db, writing'[v].number)
                   /\ x # v /\ writing'[x].pc = "replace" => writing'[x].number # writing'[v].number
  <2>1. \A x \in Writers : writing[x].pc = "replace" => writing[x].number \in 0 .. prepared - 1
    BY DEF StorageInv
  <2>2. CASE v = w
    <3>1. Fresh(tables', prepared)
      BY <1>2, <1>5 DEF StorageInv
    <3>2. ASSUME NEW x \in Writers, writing'[x].pc = "commit" PROVE Fresh(writing'[x].db, prepared)
      <4>1. writing'[x] = writing[x]
        BY <1>1, <1>6, <3>2
      <4> QED
        BY <1>5, <3>2, <4>1 DEF StorageInv
    <3> QED
      BY <1>1, <1>6, <1>7, <2>1, <2>2, <3>1, <3>2
  <2>3. CASE v # w
    <3>1. writing'[v] = writing[v] /\ writing[v].pc = "replace"
      BY <1>6, <1>8, <2>3
    <3>2. /\ DOMAIN writing[v] = ReplaceFields /\ writing[v].number \in 0 .. prepared - 1
          /\ Fresh(tables, writing[v].number)
          /\ \A x \in Writers :
                /\ writing[x].pc = "commit" => Fresh(writing[x].db, writing[v].number)
                /\ x # v /\ writing[x].pc = "replace" => writing[x].number # writing[v].number
      BY <3>1 DEF StorageInv
    <3>3. ASSUME NEW x \in Writers
          PROVE  /\ writing'[x].pc = "commit" => Fresh(writing'[x].db, writing[v].number)
                 /\ x # v /\ writing'[x].pc = "replace" => writing'[x].number # writing[v].number
      <4>1. CASE x = w
        BY <1>1, <1>6, <1>7, <3>2, <4>1
      <4>2. CASE x # w
        BY <1>6, <3>2, <4>2
      <4> QED
        BY <4>1, <4>2
    <3> QED
      BY <1>2, <1>7, <3>1, <3>2, <3>3
  <2> QED
    BY <2>2, <2>3
<1>9. \A v \in Writers : writing'[v].pc = "commit" => Linked(writing'[v].db, prepared')
  BY <1>1, <1>4, <1>6
<1> QED
  BY <1>2, <1>3, <1>6, <1>8, <1>9
  DEF StorageInv, Linked, FilesApart, RowsPrepared, RowsOf, RowsOwned, ChunksApart, VectorsBound, VectorBound, Fresh

\* The savepoint holds what is committed with the file replaced.
LEMMA ReplaceKeeps ==
    ASSUME StorageInv, NEW w \in Writers, Tables!Replace(w)
    PROVE  StorageInv'
<1>1. PICK c : c = writing[w]
  OBVIOUS
<1>2. PICK rows : rows = Tables!Rows(c.number, c.id, c.source)
  OBVIOUS
<1>3. PICK cleared, gone : cleared = Tables!DeleteDerivedRows(tables, c.id, gone) /\ gone = Tables!ChunkIds(tables, c.id)
  OBVIOUS
<1>4. PICK filed : filed = [Tables!WriteFile(cleared, c) EXCEPT !.sections = @ \cup rows.sections]
  OBVIOUS
<1>5. PICK u : u = Tables!WriteChunks(Tables!EnsureProfile(filed, c), c, rows.chunks)
  OBVIOUS
<1>6. /\ c.pc = "replace" /\ tables' = tables /\ prepared' = prepared
      /\ Tables!FileFree(cleared, c) /\ Tables!ProfileFree(filed, c) /\ Tables!VectorsFit(c)
      /\ writing' = [writing EXCEPT ![w] = [c EXCEPT !.pc = "commit", !.db = u]]
  BY <1>1, <1>2, <1>3, <1>4, <1>5 DEF Tables!Replace, Tables!Go
<1>7. /\ DOMAIN writing = Writers /\ prepared \in Nat /\ Linked(tables, prepared) /\ DOMAIN tables = TableFields
      /\ DOMAIN c = ReplaceFields /\ c.number \in 0 .. prepared - 1 /\ Fresh(tables, c.number)
  BY <1>1, <1>6 DEF StorageInv, Linked
<1>8. Written(u, tables, c) /\ filed.profiles = tables.profiles /\ cleared.files = tables.files
  <2>1. Savepoint(tables, c, gone, rows, cleared, filed, u)
    BY <1>2, <1>3, <1>4, <1>5 DEF Savepoint
  <2> QED
    BY ONLY <1>7, <2>1, SavepointWritten
<1>9. /\ \A f \in tables.files : f.id # c.id => f.path # c.path /\ f.logical # c.logical
      /\ Tables!Embeds(c) => \A p \in tables.profiles : p.name = c.profile.name => p.fingerprint = c.profile.fingerprint
      /\ Tables!Embeds(c) => Dimensions[c.profile.fingerprint] = c.profile.dimensions
  BY <1>6, <1>8 DEF Tables!FileFree, Tables!ProfileFree, Tables!VectorsFit
<1>10. Linked(u, prepared)
  BY <1>7, <1>8, <1>9, WrittenLinked
<1>11. PICK d : d = [c EXCEPT !.pc = "commit", !.db = u]
  OBVIOUS
<1>12. d.pc = "commit" /\ d.db = u
  BY <1>7, <1>11 DEF ReplaceFields
<1>13. /\ writing'[w] = d /\ DOMAIN writing' = Writers
       /\ \A v \in Writers : v # w => writing'[v] = writing[v]
  BY <1>6, <1>7, <1>11
<1>14. ASSUME NEW v \in Writers, writing'[v].pc = "replace"
       PROVE  /\ DOMAIN writing'[v] = ReplaceFields
              /\ writing'[v].number \in 0 .. prepared' - 1
              /\ Fresh(tables', writing'[v].number)
              /\ \A x \in Writers :
                    /\ writing'[x].pc = "commit" => Fresh(writing'[x].db, writing'[v].number)
                    /\ x # v /\ writing'[x].pc = "replace" => writing'[x].number # writing'[v].number
  <2>1. v # w /\ writing'[v] = writing[v] /\ writing[v].pc = "replace"
    BY <1>12, <1>13, <1>14
  <2>2. /\ DOMAIN writing[v] = ReplaceFields /\ writing[v].number \in 0 .. prepared - 1
        /\ Fresh(tables, writing[v].number)
        /\ \A x \in Writers :
              /\ writing[x].pc = "commit" => Fresh(writing[x].db, writing[v].number)
              /\ x # v /\ writing[x].pc = "replace" => writing[x].number # writing[v].number
    BY <2>1 DEF StorageInv
  <2>3. writing[v].number # c.number
    BY <1>1, <1>6, <2>1, <2>2
  <2>4. Fresh(u, writing[v].number)
    BY <1>8, <2>2, <2>3, WrittenFresh
  <2>5. ASSUME NEW x \in Writers
        PROVE  /\ writing'[x].pc = "commit" => Fresh(writing'[x].db, writing[v].number)
               /\ x # v /\ writing'[x].pc = "replace" => writing'[x].number # writing[v].number
    <3>1. CASE x = w
      BY <1>12, <1>13, <2>4, <3>1
    <3>2. CASE x # w
      BY <1>13, <2>2, <3>2
    <3> QED
      BY <3>1, <3>2
  <2> QED
    BY <1>6, <2>1, <2>2, <2>5
<1>15. ASSUME NEW v \in Writers, writing'[v].pc = "commit" PROVE Linked(writing'[v].db, prepared')
  <2>1. CASE v = w
    BY <1>6, <1>10, <1>12, <1>13, <2>1
  <2>2. CASE v # w
    BY <1>6, <1>13, <1>15, <2>2 DEF StorageInv
  <2> QED
    BY <2>1, <2>2
<1>16. Linked(tables', prepared') /\ prepared' \in Nat
  BY <1>6, <1>7
<1> QED
  BY <1>13, <1>14, <1>15, <1>16
  DEF StorageInv, Linked, FilesApart, RowsPrepared, RowsOf, RowsOwned, ChunksApart, VectorsBound, VectorBound, Fresh

\* What the other steps do to the tables.
LEMMA WriterStepKeeps ==
    ASSUME StorageInv, NEW w \in Writers,
           Tables!Commit(w) \/ Tables!Abort(w) \/ Tables!FindDeleted(w) \/ Tables!FindDerived(w) \/ Tables!DeleteFile(w)
    PROVE  StorageInv'
<1>1. Linked(tables, prepared) /\ DOMAIN tables = TableFields
  BY DEF StorageInv, Linked
<1>2. \A v \in Writers : writing[v].pc = "replace" => Fresh(tables, writing[v].number)
  BY DEF StorageInv
<1>3. PICK rests : rests = Tables!Resting
  OBVIOUS
<1>4. rests.pc \notin {"replace", "commit"}
  BY <1>3 DEF Tables!Resting
<1>5. CASE Tables!Commit(w)
  <2>1. /\ writing[w].pc = "commit" /\ tables' = writing[w].db /\ prepared' = prepared
        /\ writing' = [writing EXCEPT ![w] = rests]
    BY <1>3, <1>5 DEF Tables!Commit, Tables!Go
  <2>2. Linked(tables', prepared)
    BY <2>1 DEF StorageInv
  <2>3. \A v \in Writers : writing[v].pc = "replace" => Fresh(tables', writing[v].number)
    BY <2>1 DEF StorageInv
  <2> QED
    BY <1>4, <2>1, <2>2, <2>3, StorageInvRests
<1>6. CASE Tables!Abort(w)
  <2>1. /\ tables' = tables /\ prepared' = prepared /\ writing' = [writing EXCEPT ![w] = rests]
    BY <1>3, <1>6 DEF Tables!Abort, Tables!Go
  <2> QED
    BY <1>1, <1>2, <1>4, <2>1, StorageInvRests
<1>7. CASE Tables!FindDeleted(w)
  <2>1. PICK c : /\ tables' = tables /\ prepared' = prepared /\ writing' = [writing EXCEPT ![w] = c]
                 /\ c.pc \notin {"replace", "commit"}
    <3>1. PICK f \in tables.files : Tables!Go(w, [pc |-> "find", id |-> f.id])
      BY <1>7 DEF Tables!FindDeleted
    <3>2. PICK c : c = [pc |-> "find", id |-> f.id]
      OBVIOUS
    <3>3. c.pc = "find" /\ writing' = [writing EXCEPT ![w] = c] /\ tables' = tables /\ prepared' = prepared
      BY <1>7, <3>1, <3>2 DEF Tables!FindDeleted, Tables!Go
    <3> QED
      BY <3>3
  <2> QED
    BY <1>1, <1>2, <2>1, StorageInvRests
<1>8. CASE Tables!FindDerived(w)
  <2>1. PICK c : /\ tables' = tables /\ prepared' = prepared /\ writing' = [writing EXCEPT ![w] = c]
                 /\ c.pc \notin {"replace", "commit"}
    <3>1. PICK c : c = [pc |-> "delete", id |-> writing[w].id, gone |-> Tables!ChunkIds(tables, writing[w].id)]
      OBVIOUS
    <3>2. c.pc = "delete" /\ writing' = [writing EXCEPT ![w] = c] /\ tables' = tables /\ prepared' = prepared
      BY <1>8, <3>1 DEF Tables!FindDerived, Tables!Go
    <3> QED
      BY <3>2
  <2> QED
    BY <1>1, <1>2, <2>1, StorageInvRests
<1>9. CASE Tables!DeleteFile(w)
  <2>1. PICK id : id = writing[w].id
    OBVIOUS
  <2>2. PICK gone : gone = writing[w].gone
    OBVIOUS
  <2>3. PICK t : t = Tables!DeleteDerivedRows(tables, id, gone)
    OBVIOUS
  <2>4. /\ tables' = [t EXCEPT !.files = {f \in @ : f.id # id}] /\ prepared' = prepared
        /\ writing' = [writing EXCEPT ![w] = rests]
    BY <1>3, <1>9, <2>1, <2>2, <2>3 DEF Tables!DeleteFile, Tables!Go
  <2>5. /\ DOMAIN t = TableFields /\ t.files = tables.files /\ t.profiles = tables.profiles
        /\ t.sections = {s \in tables.sections : s.file # id}
        /\ t.chunks = {c \in tables.chunks : c.file # id}
        /\ t.embeddings = {e \in tables.embeddings : e.chunk \notin Tables!ChunkIds(tables, id)}
    BY <1>1, <2>3, Cleared
  <2>6. PICK u : u = tables'
    OBVIOUS
  <2>7. /\ DOMAIN u = TableFields /\ u.files = {f \in tables.files : f.id # id} /\ u.profiles = t.profiles
        /\ u.sections = t.sections /\ u.chunks = t.chunks /\ u.embeddings = t.embeddings
    BY ONLY <2>4, <2>5, <2>6 DEF TableFields
  <2>8. Linked(u, prepared)
    BY <1>1, <2>5, <2>7, DeletedLinked
  <2>9. \A v \in Writers : writing[v].pc = "replace" => Fresh(u, writing[v].number)
    BY <1>2, <2>5, <2>7 DEF Fresh
  <2> QED
    BY <1>4, <2>4, <2>6, <2>8, <2>9, StorageInvRests
<1> QED
  BY <1>5, <1>6, <1>7, <1>8, <1>9

LEMMA RebuildFtsKeeps ==
    ASSUME StorageInv, Tables!RebuildFts
    PROVE  StorageInv'
<1>1. PICK fts : tables' = [tables EXCEPT !.fts = fts]
  BY DEF Tables!RebuildFts
<1>2. writing' = writing /\ prepared' = prepared
  BY DEF Tables!RebuildFts
<1>3. Linked(tables, prepared) /\ DOMAIN tables = TableFields
  BY DEF StorageInv, Linked
<1>4. PICK u : u = tables'
  OBVIOUS
<1>5. /\ DOMAIN u = TableFields /\ u.files = tables.files /\ u.sections = tables.sections /\ u.chunks = tables.chunks
      /\ u.profiles = tables.profiles /\ u.embeddings = tables.embeddings
  BY ONLY <1>1, <1>3, <1>4 DEF TableFields
<1>6. Linked(u, prepared)
  BY <1>3, <1>5, SameRowsLinked
<1>7. \A w \in Writers : writing[w].pc = "replace" => Fresh(u, writing[w].number)
  BY <1>5 DEF StorageInv, Fresh
<1>8. Linked(tables', prepared')
  BY <1>2, <1>4, <1>6
<1>9. \A w \in Writers : writing[w].pc = "replace" => Fresh(tables', writing[w].number)
  BY <1>4, <1>7
<1> QED
  BY <1>2, <1>8, <1>9
  DEF StorageInv, Linked, FilesApart, RowsPrepared, RowsOf, RowsOwned, ChunksApart, VectorsBound, VectorBound, Fresh

\* Whatever writers did to the tables of the first schema, in whatever order
\* their savepoints were written, committed or rolled back (replace_file,
\* delete_file): no two files share a path or a document, the rows of a file
\* are those of one preparation, and nothing is there without its file.
THEOREM TablesStayLinked == Tables!Spec => []TablesLinked
<1>1. Tables!Init => StorageInv
  BY StorageInvInit
<1>2. StorageInv /\ [Tables!Next]_(Tables!storageVars) => StorageInv'
  <2> SUFFICES ASSUME StorageInv, [Tables!Next]_(Tables!storageVars)
               PROVE  StorageInv'
    OBVIOUS
  <2>1. CASE UNCHANGED Tables!storageVars
    BY <2>1
    DEF Tables!storageVars, StorageInv, Linked, FilesApart, RowsPrepared, RowsOf, RowsOwned, ChunksApart, VectorsBound, VectorBound, Fresh
  <2>2. ASSUME NEW w \in Writers,
               \/ Tables!Prepare(w) \/ Tables!Replace(w) \/ Tables!Commit(w) \/ Tables!Abort(w)
               \/ Tables!FindDeleted(w) \/ Tables!FindDerived(w) \/ Tables!DeleteFile(w)
        PROVE  StorageInv'
    BY <2>2, PrepareKeeps, ReplaceKeeps, WriterStepKeeps
  <2>3. CASE Tables!RebuildFts
    BY <2>3, RebuildFtsKeeps
  <2> QED
    BY <2>1, <2>2, <2>3 DEF Tables!Next
<1>3. StorageInv => TablesLinked
  BY StorageInvLinks
<1> QED
  BY <1>1, <1>2, <1>3, PTL DEF Tables!Spec

-----------------------------------------------------------------------------
(***************************************************************************)
(* Manifests in files.  While an export is under way its payload is the    *)
(* manifest of the graph it read, and "written" means that all of it is in *)
(* the temporary file, however short the writes were; the destination is   *)
(* linked once, by the caller that says so.  An inspection that sees no    *)
(* commit since it began has counted the tables of one graph.              *)
(***************************************************************************)

CallFields == {"pc", "op", "res", "options", "batch", "payload", "answer", "linked", "unlinkFailed", "since"}

\* An export e with temporary file t and destination d.
ExportSound(c, e, t, d) ==
    /\ DOMAIN e = CallFields
    /\ e.linked => d # Exchange!None /\ d.by = c
    /\ e.pc = "linked" => e.linked
    /\ e.pc \in {"encoded", "writing", "written"} =>
          /\ e.batch \in HeldGraphs /\ e.options \in Options
          /\ e.payload = Exchange!Encode(e.batch, e.options) /\ ~Exchange!Failed(e.payload) /\ e.payload.bytes \in Nat
    /\ e.pc = "encoded" => t = Exchange!NoText
    /\ e.pc = "writing" => t \in Int
    /\ e.pc = "written" => t = e.payload.bytes
    /\ e.pc # "done" => e.answer = "none"
    /\ e.pc = "done" =>
          /\ e.answer = "exported" => e.linked
          /\ t # Exchange!NoText => e.unlinkFailed \/ e.answer = "crashed"

\* An inspection e when h is held and n commits were made.
InspectSound(e, h, n) ==
    /\ DOMAIN e = CallFields
    /\ e.answer = "inspected" => e.pc = "done"
    /\ e.pc = "counting" =>
          /\ e.res \in Resources /\ e.since \in Nat /\ e.since <= n
          /\ n = e.since =>
                /\ h[e.res].graph # Exchange!None /\ Len(e.batch) \in 0 .. 3
                /\ LET all == Exchange!Counts(h[e.res].graph)
                   IN  e.batch \in Seq(Exchange!Range(all)) /\ \A i \in 1 .. Len(e.batch) : e.batch[i] = all[i]
    /\ e.answer = "inspected" /\ e.payload # Exchange!None => e.batch = e.payload

HeldSound(h) ==
    \A r \in Resources :
        /\ DOMAIN h[r] = {"live", "graph"}
        /\ h[r].graph # Exchange!None => h[r].live /\ h[r].graph \in HeldGraphs

DestSound(d) ==
    d # Exchange!None =>
        /\ d.batch \in HeldGraphs /\ d.options \in Options
        /\ d.bytes = d.payload.bytes
        /\ d.payload = Exchange!Encode(d.batch, d.options) /\ ~Exchange!Failed(d.payload)

CallSound(c, e, t, d, h, n) ==
    /\ e.pc = "idle" => e = Exchange!Idle /\ t = Exchange!NoText
    /\ e.pc # "idle" => DOMAIN e = CallFields
    /\ e.op = "export" => ExportSound(c, e, t, d)
    /\ e.op = "inspect" => InspectSound(e, h, n)

ExchangeInv ==
    /\ DOMAIN held = Resources /\ DOMAIN temps = Callers /\ DOMAIN call = Callers /\ commits \in Nat
    /\ HeldSound(held) /\ DestSound(dest)
    /\ \A c \in Callers : CallSound(c, call[c], temps[c], dest, held, commits)

LEMMA ExchangeInvComplete ==
    ASSUME ExchangeInv
    PROVE  Exchange!ExportsComplete
<1>1. dest # Exchange!None =>
         /\ dest.bytes = dest.payload.bytes
         /\ dest.payload = Exchange!Encode(dest.batch, dest.options)
  BY DEF ExchangeInv, DestSound
<1>2. ASSUME NEW c \in Callers
      PROVE  /\ call[c].op = "export" /\ call[c].linked => dest # Exchange!None /\ dest.by = c
             /\ call[c].op = "export" /\ call[c].pc = "done" =>
                   /\ call[c].answer = "exported" => call[c].linked
                   /\ temps[c] # Exchange!NoText => call[c].unlinkFailed \/ call[c].answer = "crashed"
             /\ call[c].op = "inspect" /\ call[c].answer = "inspected" /\ call[c].payload # Exchange!None =>
                   call[c].batch = call[c].payload
  <2>1. CallSound(c, call[c], temps[c], dest, held, commits)
    BY DEF ExchangeInv
  <2> QED
    BY ONLY <2>1 DEF CallSound, ExportSound, InspectSound
<1>3. \A r \in Resources : held[r].graph # Exchange!None => held[r].live
  BY DEF ExchangeInv, HeldSound
<1> QED
  BY <1>1, <1>2, <1>3 DEF Exchange!ExportsComplete

\* What a call has is its own, except that a destination may be linked and
\* the catalog may take a commit.
LEMMA OthersSound ==
    ASSUME NEW c, NEW e, NEW t, NEW d, NEW h, NEW n \in Nat, CallSound(c, e, t, d, h, n),
           NEW d2, d2 = d \/ d = Exchange!None, NEW h2, NEW n2, (h2 = h /\ n2 = n) \/ n2 = n + 1
    PROVE  CallSound(c, e, t, d2, h2, n2)
<1>1. e.op = "export" => ExportSound(c, e, t, d2)
  BY DEF CallSound, ExportSound
<1>2. ASSUME e.op = "inspect" PROVE InspectSound(e, h2, n2)
  <2>1. InspectSound(e, h, n)
    BY <1>2 DEF CallSound
  <2>2. CASE h2 = h /\ n2 = n
    BY <2>1, <2>2
  <2>3. CASE n2 = n + 1
    <3>1. e.pc = "counting" => e.since \in Nat /\ e.since <= n2 /\ n2 # e.since
      BY <2>1, <2>3 DEF InspectSound
    <3> QED
      BY ONLY <2>1, <3>1 DEF InspectSound
  <2> QED
    BY <2>2, <2>3
<1> QED
  BY <1>1, <1>2 DEF CallSound

\* A step of one caller, and one of the catalog alone.
LEMMA CallerStep ==
    ASSUME ExchangeInv, NEW c \in Callers, DOMAIN call' = Callers, DOMAIN temps' = Callers, DOMAIN held' = Resources,
           \A x \in Callers : x # c => call'[x] = call[x] /\ temps'[x] = temps[x],
           dest' = dest \/ dest = Exchange!None, (held' = held /\ commits' = commits) \/ commits' = commits + 1,
           HeldSound(held'), DestSound(dest'),
           CallSound(c, call'[c], temps'[c], dest', held', commits')
    PROVE  ExchangeInv'
<1>1. ASSUME NEW x \in Callers
      PROVE  CallSound(x, call'[x], temps'[x], dest', held', commits')
  <2>1. CASE x = c
    BY <2>1
  <2>2. CASE x # c
    <3>1. CallSound(x, call[x], temps[x], dest, held, commits) /\ commits \in Nat
      BY DEF ExchangeInv
    <3>2. CallSound(x, call[x], temps[x], dest', held', commits')
      BY <3>1, OthersSound
    <3> QED
      BY <2>2, <3>2
  <2> QED
    BY <2>1, <2>2
<1>2. commits' \in Nat
  BY DEF ExchangeInv
<1> QED
  BY <1>1, <1>2 DEF ExchangeInv, HeldSound, DestSound, CallSound, ExportSound, InspectSound

LEMMA CatalogStep ==
    ASSUME ExchangeInv, call' = call, temps' = temps, dest' = dest, commits' = commits + 1,
           DOMAIN held' = Resources, HeldSound(held')
    PROVE  ExchangeInv'
<1>1. ASSUME NEW x \in Callers
      PROVE  CallSound(x, call[x], temps[x], dest, held', commits')
  <2>1. CallSound(x, call[x], temps[x], dest, held, commits) /\ commits \in Nat
    BY DEF ExchangeInv
  <2> QED
    BY <2>1, OthersSound
<1>2. commits' \in Nat
  BY DEF ExchangeInv
<1> QED
  BY <1>1, <1>2 DEF ExchangeInv, HeldSound, DestSound, CallSound, ExportSound, InspectSound

\* What a write of the catalog leaves.
LEMMA PutSound ==
    ASSUME NEW h, DOMAIN h = Resources, HeldSound(h), NEW r, NEW b \in HeldGraphs,
           NEW h2, h2 = [h EXCEPT ![r] = [live |-> TRUE, graph |-> b]]
    PROVE  DOMAIN h2 = Resources /\ HeldSound(h2)
<1>1. PICK new : new = [live |-> TRUE, graph |-> b]
  OBVIOUS
<1>2. DOMAIN new = {"live", "graph"} /\ new.live /\ new.graph = b
  BY <1>1
<1>3. DOMAIN h2 = Resources /\ \A x \in Resources : h2[x] = IF x = r THEN new ELSE h[x]
  BY <1>1
<1> QED
  BY <1>2, <1>3 DEF HeldSound

LEMMA DropSound ==
    ASSUME NEW h, DOMAIN h = Resources, HeldSound(h), NEW r,
           NEW h2, h2 = [h EXCEPT ![r] = [live |-> FALSE, graph |-> Exchange!None]]
    PROVE  DOMAIN h2 = Resources /\ HeldSound(h2)
<1>1. PICK new : new = [live |-> FALSE, graph |-> Exchange!None]
  OBVIOUS
<1>2. DOMAIN new = {"live", "graph"} /\ new.graph = Exchange!None
  BY <1>1
<1>3. DOMAIN h2 = Resources /\ \A x \in Resources : h2[x] = IF x = r THEN new ELSE h[x]
  BY <1>1
<1> QED
  BY <1>2, <1>3 DEF HeldSound

LEMMA PublishKeeps ==
    ASSUME ContentAssumption, ExchangeInv, NEW b \in Graphs, Exchange!Publish(b)
    PROVE  ExchangeInv'
<1>1. PICK g : g = Exchange!ManifestValue(Exchange!Canonical(b))
  OBVIOUS
<1>2. g \in HeldGraphs
  BY <1>1 DEF ContentAssumption, Exchange!HeldIn, Exchange!Publish
<1>3. /\ held' = [held EXCEPT ![b.resource.id] = [live |-> TRUE, graph |-> g]] /\ commits' = commits + 1
      /\ call' = call /\ temps' = temps /\ dest' = dest
  BY <1>1 DEF Exchange!Publish, Exchange!Put, Exchange!Files
<1>4. DOMAIN held' = Resources /\ HeldSound(held')
  BY <1>2, <1>3, PutSound DEF ExchangeInv
<1> QED
  BY <1>3, <1>4, CatalogStep

LEMMA WithdrawKeeps ==
    ASSUME ExchangeInv, NEW r \in Resources, Exchange!Withdraw(r)
    PROVE  ExchangeInv'
<1>1. /\ held' = [held EXCEPT ![r].graph = Exchange!None] /\ commits' = commits + 1
      /\ call' = call /\ temps' = temps /\ dest' = dest
  BY DEF Exchange!Withdraw, Exchange!Files
<1>2. DOMAIN held = Resources /\ HeldSound(held)
  BY DEF ExchangeInv
<1>3. PICK new : new = [held[r] EXCEPT !.graph = Exchange!None]
  OBVIOUS
<1>4. DOMAIN new = {"live", "graph"} /\ new.graph = Exchange!None
  BY <1>2, <1>3 DEF HeldSound
<1>5. DOMAIN held' = Resources /\ \A x \in Resources : held'[x] = IF x = r THEN new ELSE held[x]
  BY <1>1, <1>2, <1>3
<1>6. HeldSound(held')
  BY <1>2, <1>4, <1>5 DEF HeldSound
<1> QED
  BY <1>1, <1>5, <1>6, CatalogStep

SameCall(r, e) ==
    /\ DOMAIN r = CallFields
    /\ r.op = e.op /\ r.res = e.res /\ r.options = e.options /\ r.batch = e.batch /\ r.payload = e.payload
    /\ r.linked = e.linked /\ r.since = e.since

\* A step of an export that leaves the catalog alone.
LEMMA ExporterStep ==
    ASSUME ExchangeInv, NEW c \in Callers, NEW e2, call' = [call EXCEPT ![c] = e2],
           NEW t2, temps' = [temps EXCEPT ![c] = t2] \/ (temps' = temps /\ t2 = temps[c]),
           held' = held /\ commits' = commits, dest' = dest \/ dest = Exchange!None, DestSound(dest'),
           e2.op = "export", e2.pc # "idle", ExportSound(c, e2, t2, dest')
    PROVE  ExchangeInv'
<1>1. /\ DOMAIN held = Resources /\ DOMAIN temps = Callers /\ DOMAIN call = Callers /\ HeldSound(held)
  BY DEF ExchangeInv
<1>2. /\ DOMAIN call' = Callers /\ DOMAIN temps' = Callers /\ call'[c] = e2 /\ temps'[c] = t2
      /\ \A x \in Callers : x # c => call'[x] = call[x] /\ temps'[x] = temps[x]
  BY <1>1
<1>3. CallSound(c, call'[c], temps'[c], dest', held', commits')
  BY <1>2 DEF CallSound, ExportSound
<1>4. DOMAIN held' = Resources /\ HeldSound(held')
  BY <1>1
<1> QED
  BY <1>2, <1>3, <1>4, CallerStep

LEMMA ExportStepKeeps ==
    ASSUME ExchangeInv, NEW c \in Callers, Exchange!ExportStep(c)
    PROVE  ExchangeInv'
<1>1. PICK e : e = call[c]
  OBVIOUS
<1>2. PICK t : t = temps[c]
  OBVIOUS
<1>3. e.op = "export" /\ DOMAIN call = Callers
  BY <1>1 DEF ExchangeInv, Exchange!ExportStep, Exchange!CreateTemporary, Exchange!Write, Exchange!Link, Exchange!LinkRefused,
     Exchange!Unlink, Exchange!StepFails, Exchange!Discard, Exchange!DiscardFails, Exchange!At
<1>4. ExportSound(c, e, t, dest) /\ DestSound(dest) /\ DOMAIN e = CallFields
  BY <1>1, <1>2, <1>3 DEF ExchangeInv, CallSound, ExportSound
<1>5. CASE Exchange!CreateTemporary(c)
  <2>1. PICK e2 : e2 = [e EXCEPT !.pc = "writing"]
    OBVIOUS
  <2>2. /\ e.pc = "encoded" /\ call' = [call EXCEPT ![c] = e2] /\ temps' = [temps EXCEPT ![c] = 0]
        /\ held' = held /\ commits' = commits /\ dest' = dest
    BY <1>1, <1>5, <2>1 DEF Exchange!CreateTemporary, Exchange!At, Exchange!Goto, Exchange!Catalog
  <2>3. SameCall(e2, e) /\ e2.pc = "writing" /\ e2.answer = e.answer
    BY ONLY <1>4, <2>1 DEF SameCall, CallFields
  <2>4. ExportSound(c, e2, 0, dest')
    BY ONLY <1>4, <2>2, <2>3 DEF ExportSound, SameCall
  <2>5. e2.op = "export" /\ e2.pc # "idle"
    BY <1>3, <2>3 DEF SameCall
  <2> QED
    BY <1>4, <2>2, <2>4, <2>5, ExporterStep
<1>6. CASE Exchange!Write(c)
  <2>1. PICK rest : rest = e.payload.bytes - t
    OBVIOUS
  <2>2. PICK n \in {(rest + 1) \div 2, rest} :
           /\ temps' = [temps EXCEPT ![c] = @ + n]
           /\ Exchange!Goto(c, IF n = rest THEN "written" ELSE "writing")
    BY <1>1, <1>2, <1>6, <2>1 DEF Exchange!Write, Exchange!Remaining
  <2>3. PICK pc : pc = IF n = rest THEN "written" ELSE "writing"
    OBVIOUS
  <2>4. PICK e2 : e2 = [e EXCEPT !.pc = pc]
    OBVIOUS
  <2>5. PICK t2 : t2 = t + n
    OBVIOUS
  <2>6. /\ e.pc = "writing" /\ held' = held /\ commits' = commits /\ dest' = dest
    BY <1>1, <1>6 DEF Exchange!Write, Exchange!At, Exchange!Catalog
  <2>7. call' = [call EXCEPT ![c] = e2] /\ temps' = [temps EXCEPT ![c] = t2]
    BY <1>1, <1>2, <2>2, <2>3, <2>4, <2>5 DEF Exchange!Goto
  <2>8. SameCall(e2, e) /\ e2.pc = pc /\ e2.answer = e.answer
    BY ONLY <1>4, <2>4 DEF SameCall, CallFields
  <2>9. t \in Int /\ e.payload.bytes \in Nat
    BY <1>4, <2>6 DEF ExportSound
  <2>10. rest \in Int
    BY ONLY <2>1, <2>9
  <2>11. (rest + 1) \div 2 \in Int
    BY ONLY <2>10
  <2>12. n \in Int
    BY ONLY <2>10, <2>11, n \in {(rest + 1) \div 2, rest}
  <2>13. t2 \in Int /\ (n = rest => t2 = e.payload.bytes)
    BY ONLY <2>1, <2>5, <2>9, <2>10, <2>12
  <2>14. pc \in {"writing", "written"} /\ (pc = "written" => t2 = e.payload.bytes)
    BY ONLY <2>3, <2>13
  <2>15. ExportSound(c, e2, t2, dest')
    BY ONLY <1>4, <2>6, <2>8, <2>13, <2>14 DEF ExportSound, SameCall
  <2>16. e2.op = "export" /\ e2.pc # "idle"
    BY <1>3, <2>8, <2>14 DEF SameCall
  <2> QED
    BY <1>4, <2>6, <2>7, <2>15, <2>16, ExporterStep
<1>7. CASE Exchange!Link(c)
  <2>1. PICK e2 : e2 = [e EXCEPT !.pc = "linked", !.linked = TRUE]
    OBVIOUS
  <2>2. PICK d : d = [by |-> c, bytes |-> t, payload |-> e.payload, batch |-> e.batch, options |-> e.options]
    OBVIOUS
  <2>3. /\ e.pc = "written" /\ dest = Exchange!None /\ dest' = d
        /\ temps' = temps /\ held' = held /\ commits' = commits
    BY <1>1, <1>2, <1>7, <2>2 DEF Exchange!Link, Exchange!At, Exchange!Catalog
  <2>4. call' = [call EXCEPT ![c] = e2]
    BY <1>1, <1>7, <2>1 DEF Exchange!Link
  <2>5. /\ e2.pc = "linked" /\ e2.linked /\ DOMAIN e2 = CallFields /\ e2.op = e.op /\ e2.answer = e.answer
    BY ONLY <1>4, <2>1 DEF CallFields
  <2>6. d.by = c /\ d.bytes = t /\ d.payload = e.payload /\ d.batch = e.batch /\ d.options = e.options /\ d # Exchange!None
    <3>1. "by" \in DOMAIN d /\ DOMAIN Exchange!None = {}
      BY <2>2 DEF Exchange!None
    <3> QED
      BY <2>2, <3>1
  <2>7. DestSound(dest')
    BY ONLY <1>4, <2>3, <2>6 DEF DestSound, ExportSound
  <2>8. ExportSound(c, e2, t, dest')
    BY ONLY <1>4, <2>3, <2>5, <2>6 DEF ExportSound
  <2>9. e2.op = "export" /\ e2.pc # "idle"
    BY <1>3, <2>5
  <2> QED
    BY <1>2, <2>3, <2>4, <2>7, <2>8, <2>9, ExporterStep
<1>8. CASE Exchange!LinkRefused(c) \/ Exchange!StepFails(c)
  <2>1. PICK e2 : e2 = [e EXCEPT !.pc = "failing"]
    OBVIOUS
  <2>2. /\ e.pc # "done" /\ call' = [call EXCEPT ![c] = e2] /\ temps' = temps /\ held' = held /\ commits' = commits /\ dest' = dest
    BY <1>1, <1>8, <2>1 DEF Exchange!LinkRefused, Exchange!StepFails, Exchange!At, Exchange!Goto, Exchange!Catalog, Exchange!Files
  <2>3. SameCall(e2, e) /\ e2.pc = "failing" /\ e2.answer = e.answer
    BY ONLY <1>4, <2>1 DEF SameCall, CallFields
  <2>4. ExportSound(c, e2, t, dest')
    BY ONLY <1>4, <2>2, <2>3 DEF ExportSound, SameCall
  <2>5. e2.op = "export" /\ e2.pc # "idle"
    BY <1>3, <2>3 DEF SameCall
  <2> QED
    BY <1>2, <1>4, <2>2, <2>4, <2>5, ExporterStep
<1>9. CASE Exchange!Unlink(c) \/ Exchange!Discard(c)
  <2>1. PICK answer : /\ answer \in {"exported", "manifest_output_unavailable"} /\ (answer = "exported" => e.pc = "linked")
                      /\ Exchange!Answer(c, answer)
    BY <1>1, <1>9 DEF Exchange!Unlink, Exchange!Discard, Exchange!At
  <2>2. PICK e2 : e2 = [e EXCEPT !.pc = "done", !.answer = answer]
    OBVIOUS
  <2>3. /\ call' = [call EXCEPT ![c] = e2] /\ temps' = [temps EXCEPT ![c] = Exchange!NoText]
        /\ held' = held /\ commits' = commits /\ dest' = dest
    BY <1>1, <1>9, <2>1, <2>2 DEF Exchange!Unlink, Exchange!Discard, Exchange!Answer, Exchange!Catalog
  <2>4. SameCall(e2, e) /\ e2.pc = "done" /\ e2.answer = answer
    BY ONLY <1>4, <2>2 DEF SameCall, CallFields
  <2>5. ExportSound(c, e2, Exchange!NoText, dest')
    BY ONLY <1>4, <2>1, <2>3, <2>4 DEF ExportSound, SameCall
  <2>6. e2.op = "export" /\ e2.pc # "idle"
    BY <1>3, <2>4 DEF SameCall
  <2> QED
    BY <1>4, <2>3, <2>5, <2>6, ExporterStep
<1>10. CASE Exchange!DiscardFails(c)
  <2>1. PICK e2 : e2 = [e EXCEPT !.pc = "done", !.answer = "manifest_output_unavailable", !.unlinkFailed = TRUE]
    OBVIOUS
  <2>2. call' = [call EXCEPT ![c] = e2] /\ temps' = temps /\ held' = held /\ commits' = commits /\ dest' = dest
    BY <1>1, <1>10, <2>1 DEF Exchange!DiscardFails, Exchange!Catalog, Exchange!Files
  <2>3. SameCall(e2, e) /\ e2.pc = "done" /\ e2.answer = "manifest_output_unavailable" /\ e2.unlinkFailed
    BY ONLY <1>4, <2>1 DEF SameCall, CallFields
  <2>4. ExportSound(c, e2, t, dest')
    BY ONLY <1>4, <2>2, <2>3 DEF ExportSound, SameCall
  <2>5. e2.op = "export" /\ e2.pc # "idle"
    BY <1>3, <2>3 DEF SameCall
  <2> QED
    BY <1>2, <1>4, <2>2, <2>4, <2>5, ExporterStep
<1> QED
  BY <1>5, <1>6, <1>7, <1>8, <1>9, <1>10 DEF Exchange!ExportStep

\* The graph is read, encoded and decoded again.
LEMMA ExportKeeps ==
    ASSUME ContentAssumption, ExchangeInv, NEW c \in Callers, NEW r \in Resources, NEW o \in Options, Exchange!Export(c, r, o)
    PROVE  ExchangeInv'
<1>1. PICK b : b = held[r].graph
  OBVIOUS
<1>2. PICK p : p = Exchange!Encode(b, o)
  OBVIOUS
<1>3. PICK new : new = [Exchange!NewCall(c, "export", r, o) EXCEPT !.batch = b]
  OBVIOUS
<1>4. PICK e2 : e2 = IF b = Exchange!None THEN [new EXCEPT !.answer = "resource_not_found"]
                     ELSE IF Exchange!Failed(p) THEN [new EXCEPT !.answer = p.error]
                     ELSE IF Exchange!Failed(Exchange!Decode(p)) THEN [new EXCEPT !.answer = Exchange!Decode(p).error]
                     ELSE [new EXCEPT !.pc = "encoded", !.payload = p]
  OBVIOUS
<1>5. /\ call[c].pc = "idle" /\ call' = [call EXCEPT ![c] = e2]
      /\ temps' = temps /\ dest' = dest /\ held' = held /\ commits' = commits
  BY <1>1, <1>2, <1>3, <1>4 DEF Exchange!Export, Exchange!Catalog, Exchange!Files
<1>6. temps[c] = Exchange!NoText /\ HeldSound(held) /\ DestSound(dest)
  BY <1>5 DEF ExchangeInv, CallSound
<1>7. b # Exchange!None => b \in HeldGraphs
  BY <1>1, <1>6 DEF HeldSound
<1>8. /\ DOMAIN new = CallFields /\ new.pc = "done" /\ new.op = "export" /\ new.options = o /\ new.batch = b
      /\ new.answer = "none" /\ ~new.linked
  BY ONLY <1>3 DEF Exchange!NewCall, CallFields
<1>9. CASE e2 = [new EXCEPT !.pc = "encoded", !.payload = p] /\ b # Exchange!None /\ ~Exchange!Failed(p)
  <2>1. /\ DOMAIN e2 = CallFields /\ e2.pc = "encoded" /\ e2.op = "export" /\ e2.options = o /\ e2.batch = b
        /\ e2.payload = p /\ e2.answer = "none" /\ ~e2.linked
    BY ONLY <1>8, <1>9 DEF CallFields
  <2>2. p.bytes \in Nat
    BY <1>2, <1>7, <1>9 DEF ContentAssumption, Exchange!HeldIn
  <2>3. ExportSound(c, e2, temps[c], dest')
    BY ONLY <1>2, <1>6, <1>7, <1>9, <2>1, <2>2, o \in Options DEF ExportSound
  <2> QED
    BY <1>5, <1>6, <2>1, <2>3, ExporterStep
<1>10. CASE \E answer : answer # "exported" /\ e2 = [new EXCEPT !.answer = answer]
  <2>1. PICK answer : answer # "exported" /\ e2 = [new EXCEPT !.answer = answer]
    BY <1>10
  <2>2. /\ DOMAIN e2 = CallFields /\ e2.pc = "done" /\ e2.op = "export" /\ e2.answer = answer /\ ~e2.linked
    BY ONLY <1>8, <2>1 DEF CallFields
  <2>3. ExportSound(c, e2, temps[c], dest')
    BY ONLY <1>6, <2>1, <2>2 DEF ExportSound
  <2> QED
    BY <1>5, <1>6, <2>2, <2>3, ExporterStep
<1>11. Exchange!Failed(p) => p.error \in {"invalid_graph", "payload_too_large"}
  <2>1. PICK x : x = Exchange!Error("invalid_graph")
    OBVIOUS
  <2>2. PICK y : y = Exchange!Error("payload_too_large")
    OBVIOUS
  <2>3. x.error = "invalid_graph" /\ y.error = "payload_too_large"
    BY <2>1, <2>2 DEF Exchange!Error
  <2>4. p = x \/ p = y \/ "error" \notin DOMAIN p
    BY <1>2, <2>1, <2>2 DEF Exchange!Encode
  <2> QED
    BY <2>3, <2>4 DEF Exchange!Failed
<1>12. b # Exchange!None /\ ~Exchange!Failed(p) /\ Exchange!Failed(Exchange!Decode(p)) => Exchange!Decode(p).error # "exported"
  BY <1>2, <1>7 DEF ContentAssumption, Exchange!HeldIn
<1> QED
  BY <1>4, <1>9, <1>10, <1>11, <1>12

\* What Imported makes of a payload is held.
LEMMA ImportKeeps ==
    ASSUME ContentAssumption, ExchangeInv, NEW c \in Callers, NEW p,
           ~Exchange!Failed(Exchange!Imported(p)) => Exchange!ManifestValue(Exchange!Imported(p)) \in HeldGraphs,
           Exchange!Import(c, p)
    PROVE  ExchangeInv'
<1>1. PICK b : b = Exchange!Imported(p)
  OBVIOUS
<1>2. PICK new : new = Exchange!NewCall(c, "import", Exchange!None, Exchange!None)
  OBVIOUS
<1>3. DOMAIN new = CallFields /\ new.pc = "done" /\ new.op = "import"
  BY ONLY <1>2 DEF Exchange!NewCall, CallFields
<1>4. /\ temps' = temps /\ dest' = dest /\ DOMAIN call = Callers /\ DOMAIN temps = Callers
      /\ DOMAIN held = Resources /\ HeldSound(held) /\ DestSound(dest')
  BY DEF Exchange!Import, Exchange!Files, ExchangeInv, DestSound
<1>5. ASSUME NEW e2, call' = [call EXCEPT ![c] = e2], DOMAIN e2 = CallFields, e2.pc = "done", e2.op = "import",
             (held' = held /\ commits' = commits) \/ commits' = commits + 1, DOMAIN held' = Resources, HeldSound(held')
      PROVE  ExchangeInv'
  <2>1. CallSound(c, e2, temps[c], dest', held', commits')
    BY ONLY <1>5 DEF CallSound
  <2>2. call'[c] = e2 /\ temps'[c] = temps[c] /\ DOMAIN call' = Callers /\ DOMAIN temps' = Callers
        /\ \A x \in Callers : x # c => call'[x] = call[x] /\ temps'[x] = temps[x]
    BY <1>4, <1>5
  <2>3. CallSound(c, call'[c], temps'[c], dest', held', commits')
    BY <2>1, <2>2
  <2> QED
    BY <1>4, <1>5, <2>2, <2>3, CallerStep
<1>6. CASE Exchange!Failed(b)
  <2>1. PICK e2 : e2 = [new EXCEPT !.answer = b.error, !.payload = p]
    OBVIOUS
  <2>2. call' = [call EXCEPT ![c] = e2] /\ held' = held /\ commits' = commits
    BY <1>1, <1>2, <1>6, <2>1 DEF Exchange!Import, Exchange!Catalog
  <2>3. DOMAIN e2 = CallFields /\ e2.pc = "done" /\ e2.op = "import"
    BY ONLY <1>3, <2>1 DEF CallFields
  <2> QED
    BY <1>4, <1>5, <2>2, <2>3
<1>7. CASE ~Exchange!Failed(b)
  <2>1. PICK e2 : e2 = [new EXCEPT !.answer = "imported", !.payload = p, !.batch = b, !.res = b.resource.id]
    OBVIOUS
  <2>2. PICK g : g = Exchange!ManifestValue(b)
    OBVIOUS
  <2>3. /\ call' = [call EXCEPT ![c] = e2] /\ commits' = commits + 1
        /\ held' = [held EXCEPT ![b.resource.id] = [live |-> TRUE, graph |-> g]]
    BY <1>1, <1>2, <1>7, <2>1, <2>2 DEF Exchange!Import, Exchange!Put
  <2>4. DOMAIN e2 = CallFields /\ e2.pc = "done" /\ e2.op = "import"
    BY ONLY <1>3, <2>1 DEF CallFields
  <2>5. g \in HeldGraphs
    BY <1>1, <1>7, <2>2
  <2>6. DOMAIN held' = Resources /\ HeldSound(held')
    BY <1>4, <2>3, <2>5, PutSound
  <2> QED
    BY <1>5, <2>3, <2>4, <2>6
<1> QED
  BY <1>6, <1>7

\* A deletion is of no export and no inspection.
LEMMA DeletionKeeps ==
    ASSUME ExchangeInv, NEW c \in Callers,
           Exchange!DeleteWrite(c) \/ \E r \in Resources : Exchange!DeleteRead(c, r) \/ Exchange!DeleteLive(c, r)
    PROVE  ExchangeInv'
<1>1. /\ DOMAIN call = Callers /\ DOMAIN temps = Callers /\ DOMAIN held = Resources /\ HeldSound(held) /\ DestSound(dest)
      /\ CallSound(c, call[c], temps[c], dest, held, commits)
  BY DEF ExchangeInv
<1>2. temps' = temps /\ dest' = dest
  BY DEF Exchange!DeleteWrite, Exchange!DeleteRead, Exchange!DeleteLive, Exchange!Files
<1>3. ASSUME NEW e2, call' = [call EXCEPT ![c] = e2], DOMAIN e2 = CallFields, e2.pc # "idle", e2.op \in {"delete", "delete_live"},
             (held' = held /\ commits' = commits) \/ commits' = commits + 1, DOMAIN held' = Resources, HeldSound(held')
      PROVE  ExchangeInv'
  <2>1. CallSound(c, e2, temps[c], dest', held', commits')
    BY ONLY <1>3 DEF CallSound
  <2>2. call'[c] = e2 /\ temps'[c] = temps[c] /\ DOMAIN call' = Callers /\ DOMAIN temps' = Callers
        /\ \A x \in Callers : x # c => call'[x] = call[x] /\ temps'[x] = temps[x]
    BY <1>1, <1>2, <1>3
  <2>3. CallSound(c, call'[c], temps'[c], dest', held', commits')
    BY <2>1, <2>2
  <2>4. DestSound(dest')
    BY <1>1, <1>2
  <2> QED
    BY <1>2, <1>3, <2>2, <2>3, <2>4, CallerStep
<1>4. CASE Exchange!DeleteWrite(c)
  <2>1. PICK e : e = call[c]
    OBVIOUS
  <2>2. PICK e2 : e2 = [e EXCEPT !.pc = "done", !.answer = "deleted"]
    OBVIOUS
  <2>3. PICK r : r = e.res
    OBVIOUS
  <2>4. /\ e.op = "delete" /\ e.pc = "deleting" /\ call' = [call EXCEPT ![c] = e2] /\ commits' = commits + 1
        /\ held' = [held EXCEPT ![r] = [live |-> FALSE, graph |-> Exchange!None]]
    BY <1>4, <2>1, <2>2, <2>3 DEF Exchange!DeleteWrite, Exchange!At, Exchange!Drop, Exchange!Answer
  <2>5. DOMAIN e = CallFields
    BY <1>1, <2>1, <2>4 DEF CallSound
  <2>6. DOMAIN e2 = CallFields /\ e2.pc = "done" /\ e2.op = "delete"
    BY ONLY <2>2, <2>4, <2>5 DEF CallFields
  <2>7. DOMAIN held' = Resources /\ HeldSound(held')
    BY <1>1, <2>4, DropSound
  <2> QED
    BY <1>3, <2>4, <2>6, <2>7
<1>5. ASSUME NEW r \in Resources, Exchange!DeleteRead(c, r) PROVE ExchangeInv'
  <2>1. PICK new : new = Exchange!NewCall(c, "delete", r, Exchange!None)
    OBVIOUS
  <2>2. DOMAIN new = CallFields /\ new.pc = "done" /\ new.op = "delete"
    BY ONLY <2>1 DEF Exchange!NewCall, CallFields
  <2>3. PICK e2 : e2 = IF held[r].graph = Exchange!None THEN [new EXCEPT !.answer = "absent"] ELSE [new EXCEPT !.pc = "deleting"]
    OBVIOUS
  <2>4. call' = [call EXCEPT ![c] = e2] /\ held' = held /\ commits' = commits
    BY <1>5, <2>1, <2>3 DEF Exchange!DeleteRead, Exchange!Catalog
  <2>5. DOMAIN e2 = CallFields /\ e2.pc # "idle" /\ e2.op = "delete"
    BY ONLY <2>2, <2>3 DEF CallFields
  <2> QED
    BY <1>1, <1>3, <2>4, <2>5
<1>6. ASSUME NEW r \in Resources, Exchange!DeleteLive(c, r) PROVE ExchangeInv'
  <2>1. PICK new : new = Exchange!NewCall(c, "delete_live", r, Exchange!None)
    OBVIOUS
  <2>2. DOMAIN new = CallFields /\ new.pc = "done" /\ new.op = "delete_live"
    BY ONLY <2>1 DEF Exchange!NewCall, CallFields
  <2>3. PICK answer : answer = IF held[r].live THEN "deleted" ELSE "absent"
    OBVIOUS
  <2>4. PICK e2 : e2 = [new EXCEPT !.answer = answer]
    OBVIOUS
  <2>5. /\ call' = [call EXCEPT ![c] = e2] /\ commits' = commits + 1
        /\ held' = [held EXCEPT ![r] = [live |-> FALSE, graph |-> Exchange!None]]
    BY <1>6, <2>1, <2>3, <2>4 DEF Exchange!DeleteLive, Exchange!Drop
  <2>6. DOMAIN e2 = CallFields /\ e2.pc # "idle" /\ e2.op = "delete_live"
    BY ONLY <2>2, <2>4 DEF CallFields
  <2>7. DOMAIN held' = Resources /\ HeldSound(held')
    BY <1>1, <2>5, DropSound
  <2> QED
    BY <1>3, <2>5, <2>6, <2>7
<1> QED
  BY <1>4, <1>5, <1>6

\* An inspection counts one table after another.
LEMMA CountedNext ==
    ASSUME NEW g, NEW all, all = Exchange!Counts(g), NEW s \in Seq(Exchange!Range(all)), Len(s) \in 0 .. 3,
           \A i \in 1 .. Len(s) : s[i] = all[i], NEW n, n = Len(s) + 1, NEW s2, s2 = Append(s, all[n])
    PROVE  /\ s2 \in Seq(Exchange!Range(all)) /\ Len(s2) = n /\ \A i \in 1 .. Len(s2) : s2[i] = all[i]
           /\ n = 4 => s2 = all
<1>1. PICK R : R = Exchange!Range(all)
  OBVIOUS
<1>2. DOMAIN all = 1 .. 4 /\ Len(all) = 4
  BY DEF Exchange!Counts
<1>3. n \in 1 .. 4 /\ all[n] \in R
  BY <1>1, <1>2 DEF Exchange!Range
<1>4. s2 \in Seq(R) /\ Len(s2) = n /\ s2[n] = all[n] /\ \A i \in 1 .. Len(s) : s2[i] = s[i]
  BY ONLY <1>1, <1>3, s \in Seq(Exchange!Range(all)), n = Len(s) + 1, s2 = Append(s, all[n])
<1>5. \A i \in 1 .. n : s2[i] = all[i]
  <2> SUFFICES ASSUME NEW i \in 1 .. n PROVE s2[i] = all[i]
    OBVIOUS
  <2>1. i = n \/ i \in 1 .. Len(s)
    BY <1>3
  <2> QED
    BY <1>4, <2>1
<1>6. all \in Seq(R)
  <2>1. PICK w, x, y, z : all = <<w, x, y, z>>
    BY DEF Exchange!Counts
  <2>2. R = {w, x, y, z}
    BY <1>1, <1>2, <2>1 DEF Exchange!Range
  <2> QED
    BY ONLY <2>1, <2>2
<1>7. n = 4 => s2 = all
  BY ONLY <1>2, <1>4, <1>5, <1>6
<1> QED
  BY <1>1, <1>4, <1>5, <1>7

LEMMA InspectKeeps ==
    ASSUME ExchangeInv, NEW c \in Callers,
           Exchange!InspectCount(c) \/ \E r \in Resources : Exchange!Inspect(c, r)
    PROVE  ExchangeInv'
<1>1. /\ DOMAIN call = Callers /\ DOMAIN temps = Callers /\ DOMAIN held = Resources /\ HeldSound(held) /\ DestSound(dest)
      /\ CallSound(c, call[c], temps[c], dest, held, commits) /\ commits \in Nat
  BY DEF ExchangeInv
<1>2. temps' = temps /\ dest' = dest /\ held' = held /\ commits' = commits
  BY DEF Exchange!InspectCount, Exchange!Inspect, Exchange!Files, Exchange!Catalog
<1>3. ASSUME NEW e2, DOMAIN call' = Callers, call'[c] = e2, \A x \in Callers : x # c => call'[x] = call[x],
             e2.pc # "idle", e2.op = "inspect", InspectSound(e2, held, commits)
      PROVE  ExchangeInv'
  <2>1. CallSound(c, e2, temps[c], dest, held, commits)
    BY ONLY <1>3 DEF CallSound, InspectSound
  <2>2. CallSound(c, call'[c], temps'[c], dest', held', commits')
    BY <1>2, <1>3, <2>1
  <2>3. DOMAIN held' = Resources /\ HeldSound(held') /\ DestSound(dest') /\ DOMAIN temps' = Callers
        /\ \A x \in Callers : x # c => call'[x] = call[x] /\ temps'[x] = temps[x]
    BY <1>1, <1>2, <1>3
  <2> QED
    BY <1>2, <1>3, <2>2, <2>3, CallerStep
<1>4. ASSUME NEW r \in Resources, Exchange!Inspect(c, r) PROVE ExchangeInv'
  <2>1. PICK new : new = Exchange!NewCall(c, "inspect", r, Exchange!None)
    OBVIOUS
  <2>2. /\ DOMAIN new = CallFields /\ new.pc = "done" /\ new.op = "inspect" /\ new.answer = "none"
        /\ new.res = r /\ new.since = commits
    BY ONLY <2>1 DEF Exchange!NewCall, CallFields
  <2>3. PICK e2 : e2 = IF held[r].graph = Exchange!None THEN [new EXCEPT !.answer = "resource_not_found"]
                       ELSE [new EXCEPT !.pc = "counting", !.batch = <<>>]
    OBVIOUS
  <2>4. call' = [call EXCEPT ![c] = e2]
    BY <1>4, <2>1, <2>3 DEF Exchange!Inspect
  <2>5. CASE held[r].graph = Exchange!None
    <3>1. DOMAIN e2 = CallFields /\ e2.pc = "done" /\ e2.op = "inspect" /\ e2.answer = "resource_not_found"
      BY ONLY <2>2, <2>3, <2>5 DEF CallFields
    <3>2. InspectSound(e2, held, commits)
      BY ONLY <3>1 DEF InspectSound
    <3> QED
      BY <1>1, <1>3, <2>4, <3>1, <3>2
  <2>6. CASE held[r].graph # Exchange!None
    <3>1. /\ DOMAIN e2 = CallFields /\ e2.pc = "counting" /\ e2.op = "inspect" /\ e2.answer = "none"
          /\ e2.batch = <<>> /\ e2.res = r /\ e2.since = commits
      BY ONLY <2>2, <2>3, <2>6 DEF CallFields
    <3>2. e2.batch \in Seq(Exchange!Range(Exchange!Counts(held[e2.res].graph))) /\ Len(e2.batch) = 0
      BY <3>1
    <3>3. InspectSound(e2, held, commits)
      BY ONLY <1>1, <2>6, <3>1, <3>2, r \in Resources DEF InspectSound
    <3> QED
      BY <1>1, <1>3, <2>4, <3>1, <3>3
  <2> QED
    BY <2>5, <2>6
<1>5. CASE Exchange!InspectCount(c)
  <2>1. PICK e : e = call[c]
    OBVIOUS
  <2>2. e.op = "inspect" /\ e.pc = "counting"
    BY <1>5, <2>1 DEF Exchange!InspectCount, Exchange!At
  <2>3. InspectSound(e, held, commits)
    BY <1>1, <2>1, <2>2 DEF CallSound
  <2>4. PICK r : r = e.res
    OBVIOUS
  <2>5. PICK n : n = Len(e.batch) + 1
    OBVIOUS
  <2>6. PICK count : count = IF held[r].graph = Exchange!None THEN 0 ELSE Exchange!Counts(held[r].graph)[n]
    OBVIOUS
  <2>7. PICK batch : batch = Append(e.batch, count)
    OBVIOUS
  <2>8. PICK pc : pc = IF n = 4 THEN "done" ELSE "counting"
    OBVIOUS
  <2>9. PICK answer : answer = IF n = 4 THEN "inspected" ELSE "none"
    OBVIOUS
  <2>10. PICK payload : payload = IF commits = e.since THEN Exchange!Counts(held[r].graph) ELSE Exchange!None
    OBVIOUS
  <2>11. PICK e2 : e2 = [e EXCEPT !.batch = batch, !.pc = pc, !.answer = answer, !.payload = payload]
    OBVIOUS
  <2>12. DOMAIN e = CallFields /\ r \in Resources /\ e.since \in Nat /\ e.since <= commits
    BY <2>2, <2>3, <2>4 DEF InspectSound
  <2>13. /\ DOMAIN e2 = CallFields /\ e2.op = "inspect" /\ e2.res = r /\ e2.since = e.since /\ e2.batch = batch
         /\ e2.pc = pc /\ e2.answer = answer /\ e2.payload = payload
    BY ONLY <2>2, <2>4, <2>11, <2>12 DEF CallFields
  <2>14. call' = [call EXCEPT ![c] = e2]
    <3>1. call' = [call EXCEPT ![c].batch = batch, ![c].pc = pc, ![c].answer = answer, ![c].payload = payload]
      BY <1>5, <2>1, <2>4, <2>5, <2>6, <2>7, <2>8, <2>9, <2>10 DEF Exchange!InspectCount
    <3> QED
      BY ONLY <1>1, <2>1, <2>11, <3>1
  <2>15. CASE commits # e.since
    <3>1. InspectSound(e2, held, commits)
      BY ONLY <2>8, <2>9, <2>10, <2>12, <2>13, <2>15 DEF InspectSound
    <3> QED
      BY <1>1, <1>3, <2>8, <2>13, <2>14, <3>1
  <2>16. CASE commits = e.since
    <3>1. PICK all : all = Exchange!Counts(held[r].graph)
      OBVIOUS
    <3>2. /\ held[r].graph # Exchange!None /\ Len(e.batch) \in 0 .. 3 /\ e.batch \in Seq(Exchange!Range(all))
          /\ \A i \in 1 .. Len(e.batch) : e.batch[i] = all[i]
      BY <2>2, <2>3, <2>4, <2>16, <3>1 DEF InspectSound
    <3>3. batch = Append(e.batch, all[n])
      BY <2>6, <2>7, <3>1, <3>2
    <3>4. /\ batch \in Seq(Exchange!Range(all)) /\ Len(batch) = n /\ \A i \in 1 .. Len(batch) : batch[i] = all[i]
          /\ n = 4 => batch = all
      BY <2>5, <3>1, <3>2, <3>3, CountedNext
    <3>5. n \in 1 .. 4
      BY <2>5, <3>2
    <3>6. InspectSound(e2, held, commits)
      BY ONLY <2>8, <2>9, <2>10, <2>12, <2>13, <2>16, <3>1, <3>2, <3>4, <3>5 DEF InspectSound
    <3> QED
      BY <1>1, <1>3, <2>8, <2>13, <2>14, <3>6
  <2> QED
    BY <2>15, <2>16
<1> QED
  BY <1>4, <1>5

LEMMA CallerCrashKeeps ==
    ASSUME ExchangeInv, NEW c \in Callers, Exchange!Crash(c)
    PROVE  ExchangeInv'
<1>1. /\ DOMAIN call = Callers /\ DOMAIN temps = Callers /\ DOMAIN held = Resources /\ HeldSound(held) /\ DestSound(dest)
      /\ CallSound(c, call[c], temps[c], dest, held, commits)
  BY DEF ExchangeInv
<1>2. PICK e : e = call[c]
  OBVIOUS
<1>3. PICK e2 : e2 = [e EXCEPT !.pc = "done", !.answer = "crashed"]
  OBVIOUS
<1>4. /\ e.pc \notin {"idle", "done"} /\ call' = [call EXCEPT ![c] = e2]
      /\ temps' = temps /\ dest' = dest /\ held' = held /\ commits' = commits
  BY <1>2, <1>3 DEF Exchange!Crash, Exchange!Files, Exchange!Catalog
<1>5. DOMAIN e = CallFields
  BY <1>1, <1>2, <1>4 DEF CallSound
<1>6. SameCall(e2, e) /\ e2.pc = "done" /\ e2.answer = "crashed"
  BY ONLY <1>3, <1>5 DEF SameCall, CallFields
<1>7. e.op = "export" => ExportSound(c, e2, temps[c], dest)
  <2>1. e.op = "export" => ExportSound(c, e, temps[c], dest)
    BY <1>1, <1>2 DEF CallSound
  <2> QED
    BY ONLY <1>6, <2>1 DEF ExportSound, SameCall
<1>8. e.op = "inspect" => InspectSound(e2, held, commits)
  BY ONLY <1>6 DEF InspectSound, SameCall
<1>9. CallSound(c, e2, temps[c], dest, held, commits)
  BY ONLY <1>6, <1>7, <1>8 DEF CallSound, SameCall
<1>10. /\ DOMAIN call' = Callers /\ call'[c] = e2 /\ DOMAIN temps' = Callers
       /\ \A x \in Callers : x # c => call'[x] = call[x] /\ temps'[x] = temps[x]
  BY <1>1, <1>4
<1>11. CallSound(c, call'[c], temps'[c], dest', held', commits') /\ DOMAIN held' = Resources /\ HeldSound(held') /\ DestSound(dest')
  BY <1>1, <1>4, <1>9, <1>10
<1> QED
  BY <1>4, <1>10, <1>11, CallerStep

LEMMA ExchangeInvInit ==
    ASSUME Exchange!Init
    PROVE  ExchangeInv
<1>1. /\ held = [r \in Resources |-> [live |-> FALSE, graph |-> Exchange!None]] /\ commits = 0 /\ dest = Exchange!None
      /\ temps = [c \in Callers |-> Exchange!NoText] /\ call = [c \in Callers |-> Exchange!Idle]
  BY DEF Exchange!Init
<1>2. HeldSound(held)
  BY <1>1 DEF HeldSound
<1>3. \A c \in Callers : CallSound(c, call[c], temps[c], dest, held, commits)
  BY <1>1 DEF CallSound, Exchange!Idle
<1> QED
  BY <1>1, <1>2, <1>3 DEF ExchangeInv, DestSound

LEMMA ExchangeInvNext ==
    ASSUME ContentAssumption, ExchangeInv, Exchange!Next
    PROVE  ExchangeInv'
<1>1. CASE \E b \in Graphs : Exchange!Publish(b)
  BY <1>1, PublishKeeps
<1>2. CASE \E r \in Resources : Exchange!Withdraw(r)
  BY <1>2, WithdrawKeeps
<1>3. ASSUME NEW c \in Callers, Exchange!ImportFile(c) \/ Exchange!ImportBytes(c) PROVE ExchangeInv'
  <2>1. CASE Exchange!ImportFile(c)
    <3>1. dest # Exchange!None /\ Exchange!Import(c, dest.payload)
      BY <2>1 DEF Exchange!ImportFile
    <3>2. PICK p : p = dest.payload
      OBVIOUS
    <3>3. /\ dest.batch \in HeldGraphs /\ dest.options \in Options
          /\ p = Exchange!Encode(dest.batch, dest.options) /\ ~Exchange!Failed(p)
      BY <3>1, <3>2 DEF ExchangeInv, DestSound
    <3>4. ~Exchange!Failed(Exchange!Imported(p)) => Exchange!ManifestValue(Exchange!Imported(p)) \in HeldGraphs
      BY <3>3 DEF ContentAssumption, Exchange!HeldIn
    <3> QED
      BY <3>1, <3>2, <3>4, ImportKeeps
  <2>2. CASE Exchange!ImportBytes(c)
    <3>1. PICK p \in Payloads : Exchange!Import(c, p)
      BY <2>2 DEF Exchange!ImportBytes
    <3>2. ~Exchange!Failed(Exchange!Imported(p)) => Exchange!ManifestValue(Exchange!Imported(p)) \in HeldGraphs
      BY DEF ContentAssumption, Exchange!HeldIn
    <3> QED
      BY <3>1, <3>2, ImportKeeps
  <2> QED
    BY <1>3, <2>1, <2>2
<1>4. ASSUME NEW c \in Callers, Exchange!ExportStep(c) PROVE ExchangeInv'
  BY <1>4, ExportStepKeeps
<1>5. ASSUME NEW c \in Callers, Exchange!Crash(c) PROVE ExchangeInv'
  BY <1>5, CallerCrashKeeps
<1>6. ASSUME NEW c \in Callers,
             Exchange!DeleteWrite(c) \/ \E r \in Resources : Exchange!DeleteRead(c, r) \/ Exchange!DeleteLive(c, r)
      PROVE  ExchangeInv'
  BY <1>6, DeletionKeeps
<1>7. ASSUME NEW c \in Callers, Exchange!InspectCount(c) \/ \E r \in Resources : Exchange!Inspect(c, r)
      PROVE  ExchangeInv'
  BY <1>7, InspectKeeps
<1>8. ASSUME NEW c \in Callers, NEW r \in Resources, NEW o \in Options, Exchange!Export(c, r, o) PROVE ExchangeInv'
  BY <1>8, ExportKeeps
<1> QED
  BY <1>1, <1>2, <1>3, <1>4, <1>5, <1>6, <1>7, <1>8 DEF Exchange!Next

\* Whatever short writes, failures, crashes and other exports to the same
\* name came between (export_file), what is linked is one complete manifest
\* of the graph the export read, only the caller that linked it says so, and
\* a temporary file remains only where it could not be removed; an undisturbed
\* inspection counts one graph.
THEOREM ExportsAlwaysComplete ==
    ASSUME ContentAssumption
    PROVE  Exchange!Spec => []Exchange!ExportsComplete
<1>1. Exchange!Init => ExchangeInv
  BY ExchangeInvInit
<1>2. ExchangeInv /\ [Exchange!Next]_(Exchange!manifestVars) => ExchangeInv'
  <2> SUFFICES ASSUME ExchangeInv, [Exchange!Next]_(Exchange!manifestVars)
               PROVE  ExchangeInv'
    OBVIOUS
  <2>1. CASE UNCHANGED Exchange!manifestVars
    BY <2>1 DEF Exchange!manifestVars, ExchangeInv, HeldSound, DestSound, CallSound, ExportSound, InspectSound
  <2> QED
    BY <2>1, ExchangeInvNext
<1>3. ExchangeInv => Exchange!ExportsComplete
  BY ExchangeInvComplete
<1> QED
  BY <1>1, <1>2, <1>3, PTL DEF Exchange!Spec
-----------------------------------------------------------------------------
(***************************************************************************)
(* The archive.  That an entry is whole when retain reads it back rests on *)
(* what the stage held when it was renamed, and that no call is refused on *)
(* a provisioned archive on the marker never changing once it is whole.    *)
(* ArchiveInv adds what a call knows at each place.                        *)
(***************************************************************************)

ArchivePCs == {"idle", "mark", "marking", "recognize", "look", "stage", "write", "publish", "reread", "read"}
ArchiveCall ==
    [pc : ArchivePCs, artifact : Artifacts \cup {Archive!Nothing}, retain : BOOLEAN, provisioned : BOOLEAN,
     answer : Artifacts \cup {Archive!Nothing, Archive!Refused}]

ArchiveType ==
    /\ marker \in {"absent", "partial", "whole"}
    /\ entries \in [Artifacts -> Artifacts \cup {Archive!Missing, Archive!Damaged}]
    /\ stages \in [Hosts -> Artifacts \cup {Archive!Missing, "partial"}]
    /\ left \in Nat
    /\ calling \in [Hosts -> ArchiveCall]
    /\ promised \in SUBSET Artifacts
    /\ archiveMishaps \in Nat

\* Entries are whole, promises kept and stages counted.
EntriesInv ==
    /\ \A a \in Artifacts : entries[a] \in {Archive!Missing, a, Archive!Damaged} /\ (entries[a] = Archive!Damaged => archiveMishaps > 0)
    /\ \A a \in promised : marker = "whole" /\ entries[a] # Archive!Missing
    /\ left <= archiveMishaps

\* What a call knows at each place.
KnownAt(h) ==
    LET c == calling[h] IN
    /\ c.pc # "idle" => c.artifact \in Artifacts
    /\ c.pc \in {"look", "stage", "write", "publish", "reread", "read"} \/ c.provisioned => marker = "whole"
    /\ c.pc \in {"mark", "marking"} => ~c.provisioned
    /\ c.pc \in {"look", "stage", "write", "publish", "reread"} => c.retain
    /\ c.pc \notin {"write", "publish", "reread"} => stages[h] = Archive!Missing
    /\ c.pc = "read" => ~c.retain
    /\ c.pc = "publish" => stages[h] = c.artifact
    /\ c.pc = "reread" => entries[c.artifact] # Archive!Missing
    /\ c.pc = "idle" /\ c # Archive!Idle =>
          c.answer \in {c.artifact} \cup (IF c.retain /\ c.provisioned /\ archiveMishaps = 0 THEN {} ELSE {Archive!Refused})

ArchiveInv == ArchiveType /\ EntriesInv /\ \A h \in Hosts : KnownAt(h)

\* The invariant is what is claimed, and more.
LEMMA ArchiveInvSound == ArchiveInv => Archive!ArchiveSound
<1> SUFFICES ASSUME ArchiveInv PROVE Archive!ArchiveSound
  OBVIOUS
<1>1. \A a \in promised : marker = "whole" /\ (entries[a] = a \/ (entries[a] = Archive!Damaged /\ archiveMishaps > 0))
  BY DEF ArchiveInv, ArchiveType, EntriesInv
<1>2. /\ \A a \in Artifacts : entries[a] \in {Archive!Missing, a, Archive!Damaged}
      /\ left <= archiveMishaps
  BY DEF ArchiveInv, EntriesInv
<1>3. ASSUME NEW h \in Hosts, Archive!At(h, "idle")
      PROVE  /\ stages[h] = Archive!Missing
             /\ calling[h] # Archive!Idle =>
                   LET c == calling[h] IN
                   c.answer \in {c.artifact} \cup (IF c.retain /\ c.provisioned /\ archiveMishaps = 0 THEN {} ELSE {Archive!Refused})
  <2>1. KnownAt(h) /\ calling[h].pc = "idle"
    BY <1>3 DEF ArchiveInv, Archive!At
  <2>2. stages[h] = Archive!Missing
    BY <2>1 DEF KnownAt
  <2>3. calling[h] # Archive!Idle =>
           calling[h].answer \in {calling[h].artifact} \cup
              (IF calling[h].retain /\ calling[h].provisioned /\ archiveMishaps = 0 THEN {} ELSE {Archive!Refused})
    BY <2>1, Zenon DEF KnownAt
  <2> QED
    BY <2>2, <2>3
<1> QED
  BY <1>1, <1>2, <1>3, Zenon DEF Archive!ArchiveSound

\* It holds of a new archive.
LEMMA ArchiveInit == Archive!Init => ArchiveInv
<1> SUFFICES ASSUME Archive!Init PROVE ArchiveInv
  OBVIOUS
<1>1. Archive!Idle \in ArchiveCall
  BY DEF Archive!Idle, ArchiveCall, ArchivePCs
<1>2. ArchiveType
  BY <1>1 DEF Archive!Init, ArchiveType
<1>3. EntriesInv
  BY DEF Archive!Init, EntriesInv, Archive!Missing, Archive!Damaged
<1>4. ASSUME NEW h \in Hosts PROVE KnownAt(h)
  BY DEF Archive!Init, KnownAt, Archive!Idle
<1> QED
  BY <1>2, <1>3, <1>4 DEF ArchiveInv

\* A step of one call: others keep what they know as long as the marker and the
\* entries stay and mishaps are counted.
LEMMA OtherHostsKeep ==
  ASSUME ArchiveInv, NEW h \in Hosts,
         \A i \in Hosts \ {h} : calling'[i] = calling[i] /\ stages'[i] = stages[i],
         marker = "whole" => marker' = "whole",
         \A a \in Artifacts : entries[a] # Archive!Missing => entries'[a] # Archive!Missing,
         archiveMishaps' = 0 => archiveMishaps = 0,
         ArchiveType', EntriesInv', KnownAt(h)'
  PROVE  ArchiveInv'
<1>1. ASSUME NEW i \in Hosts \ {h} PROVE KnownAt(i)'
  <2>1. KnownAt(i) /\ calling'[i] = calling[i] /\ stages'[i] = stages[i]
    BY <1>1 DEF ArchiveInv
  <2> QED
    BY <2>1 DEF KnownAt
<1> QED
  BY <1>1 DEF ArchiveInv

USE DEF Archive!Missing, Archive!Damaged, Archive!Nothing, Archive!Refused

\* Go and Answer change one call, and of it only these fields.
LEMMA GoFields ==
  ASSUME ArchiveType, NEW h \in Hosts, NEW pc \in ArchivePCs, Archive!Go(h, pc)
  PROVE  /\ calling' \in [Hosts -> ArchiveCall]
         /\ \A i \in Hosts \ {h} : calling'[i] = calling[i]
         /\ calling'[h].pc = pc /\ calling'[h].artifact = calling[h].artifact
         /\ calling'[h].retain = calling[h].retain /\ calling'[h].provisioned = calling[h].provisioned
BY DEF ArchiveType, ArchiveCall, Archive!Go

LEMMA AnswerFields ==
  ASSUME ArchiveType, NEW h \in Hosts, NEW x \in Artifacts \cup {Archive!Nothing, Archive!Refused}, Archive!Answer(h, x)
  PROVE  /\ calling' \in [Hosts -> ArchiveCall]
         /\ \A i \in Hosts \ {h} : calling'[i] = calling[i]
         /\ calling'[h].pc = "idle" /\ calling'[h].answer = x /\ calling'[h].artifact = calling[h].artifact
         /\ calling'[h].retain = calling[h].retain /\ calling'[h].provisioned = calling[h].provisioned
<1>1. calling \in [Hosts -> ArchiveCall] /\ calling[h] \in ArchiveCall
  BY DEF ArchiveType
<1>2. PICK r : r = [calling[h] EXCEPT !.pc = "idle", !.answer = x]
  OBVIOUS
<1>3. /\ r \in ArchiveCall
      /\ r.pc = "idle" /\ r.answer = x /\ r.artifact = calling[h].artifact
      /\ r.retain = calling[h].retain /\ r.provisioned = calling[h].provisioned
  BY <1>1, <1>2 DEF ArchiveCall, ArchivePCs
<1>4. calling' = [calling EXCEPT ![h] = r]
  BY <1>1, <1>2 DEF Archive!Answer
<1> QED
  BY <1>1, <1>3, <1>4

\* Opening the archive.
LEMMA OpensKeep ==
  ASSUME Archive!DigestsApart, ArchiveInv, NEW h \in Hosts, Archive!Open(h) \/ Archive!CreateMarker(h) \/ Archive!WriteMarker(h) \/ Archive!Recognize(h)
  PROVE  ArchiveInv'
<1> USE DEF ArchiveInv
<1>0. ArchiveType /\ KnownAt(h)
  OBVIOUS
<1>1. CASE Archive!Open(h)
  <2>1. PICK a \in Artifacts, retain \in BOOLEAN :
           LET next == IF marker # "absent" THEN "recognize" ELSE IF retain THEN "mark" ELSE "idle"
           IN  calling' = [calling EXCEPT ![h] = [pc |-> next, artifact |-> a, retain |-> retain, provisioned |-> marker = "whole",
                                                  answer |-> IF next = "idle" THEN Archive!Refused ELSE Archive!Nothing]]
    BY <1>1 DEF Archive!Open
  <2> DEFINE next == IF marker # "absent" THEN "recognize" ELSE IF retain THEN "mark" ELSE "idle"
             c == [pc |-> next, artifact |-> a, retain |-> retain, provisioned |-> marker = "whole",
                   answer |-> IF next = "idle" THEN Archive!Refused ELSE Archive!Nothing]
  <2>2. c \in ArchiveCall
    BY DEF ArchiveCall, ArchivePCs
  <2>3. calling' = [calling EXCEPT ![h] = c] /\ UNCHANGED <<marker, entries, stages, left, promised, archiveMishaps>>
    BY <1>1, <2>1 DEF Archive!Open
  <2>4. calling'[h] = c /\ stages[h] = Archive!Missing
    BY <1>0, <1>1, <2>3 DEF ArchiveType, Archive!Open, Archive!At, KnownAt
  <2>5. KnownAt(h)'
    <3> DEFINE d == calling'[h]
    <3>0. d = c
      BY <2>4
    <3>a. /\ c.pc = next /\ c.artifact = a /\ c.retain = retain /\ c.provisioned = (marker = "whole")
          /\ c.answer = IF next = "idle" THEN Archive!Refused ELSE Archive!Nothing
      BY Zenon
    <3>1. /\ d.pc = next /\ d.artifact = a /\ (d.retain <=> retain) /\ (d.provisioned <=> marker = "whole")
          /\ d.answer = IF next = "idle" THEN Archive!Refused ELSE Archive!Nothing
      BY <3>0, <3>a, Zenon
    <3>2. next \in {"recognize", "mark", "idle"} /\ (next # "recognize" <=> marker = "absent") /\ (next = "idle" => ~retain)
      BY <1>0 DEF ArchiveType
    <3>3. stages'[h] = Archive!Missing /\ marker' = marker
      BY <2>3, <2>4
    <3> HIDE DEF d, next
    <3>4. /\ d.pc # "idle" => d.artifact \in Artifacts
          /\ d.pc \in {"look", "stage", "write", "publish", "reread", "read"} \/ d.provisioned => marker' = "whole"
          /\ d.pc \in {"mark", "marking"} => ~d.provisioned
          /\ d.pc \notin {"look", "stage", "write", "publish", "reread", "read"}
          /\ d.pc = "idle" => d.answer = Archive!Refused /\ ~d.retain
      BY <3>1, <3>2, <3>3
    <3> QED
      BY <3>3, <3>4 DEF KnownAt, d
  <2> QED
    <3>1. ArchiveType'
      BY <1>0, <2>2, <2>3 DEF ArchiveType
    <3>2. EntriesInv'
      BY <2>3 DEF EntriesInv
    <3>3. \A i \in Hosts \ {h} : calling'[i] = calling[i]
      BY <1>0, <2>3 DEF ArchiveType
    <3> QED
      BY <2>3, <2>5, <3>1, <3>2, <3>3, OtherHostsKeep
<1>2. CASE Archive!CreateMarker(h)
  <2>1. PICK pc \in {"marking", "recognize"} : Archive!Go(h, pc)
    BY <1>2 DEF Archive!CreateMarker
  <2>2. /\ calling[h].pc = "mark" /\ marker' \in {"absent", "partial", "whole"} /\ (marker = "whole" => marker' = "whole")
        /\ UNCHANGED <<entries, stages, left, promised, archiveMishaps>>
    BY <1>0, <1>2 DEF Archive!CreateMarker, Archive!At, ArchiveType
  <2>3. /\ calling' \in [Hosts -> ArchiveCall] /\ \A i \in Hosts \ {h} : calling'[i] = calling[i]
        /\ calling'[h].pc = pc /\ calling'[h].artifact = calling[h].artifact
        /\ calling'[h].retain = calling[h].retain /\ calling'[h].provisioned = calling[h].provisioned
    BY <1>0, <2>1, GoFields DEF ArchivePCs
  <2>4. ArchiveType' /\ EntriesInv'
    BY <1>0, <2>2, <2>3 DEF ArchiveType, EntriesInv
  <2>5. KnownAt(h)'
    BY <1>0, <2>2, <2>3 DEF KnownAt
  <2> QED
    BY <2>2, <2>3, <2>4, <2>5, OtherHostsKeep
<1>3. CASE Archive!WriteMarker(h)
  <2>1. Archive!Go(h, "recognize") /\ calling[h].pc = "marking" /\ marker' = "whole"
        /\ UNCHANGED <<entries, stages, left, promised, archiveMishaps>>
    BY <1>3 DEF Archive!WriteMarker, Archive!At
  <2>2. /\ calling' \in [Hosts -> ArchiveCall] /\ \A i \in Hosts \ {h} : calling'[i] = calling[i]
        /\ calling'[h].pc = "recognize" /\ calling'[h].artifact = calling[h].artifact
    BY <1>0, <2>1, GoFields DEF ArchivePCs
  <2>3. ArchiveType' /\ EntriesInv'
    BY <1>0, <2>1, <2>2 DEF ArchiveType, EntriesInv
  <2>4. KnownAt(h)'
    BY <1>0, <2>1, <2>2 DEF KnownAt
  <2> QED
    BY <2>1, <2>2, <2>3, <2>4, OtherHostsKeep
<1>4. CASE Archive!Recognize(h)
  <2>1. calling[h].pc = "recognize" /\ UNCHANGED <<marker, entries, stages, left, promised, archiveMishaps>>
    BY <1>4 DEF Archive!Recognize, Archive!At
  <2>2. EntriesInv'
    BY <2>1 DEF EntriesInv
  <2>3. CASE marker = "whole"
    <3>1. PICK pc \in {"look", "read"} : Archive!Go(h, pc) /\ (pc = "look" <=> calling[h].retain)
      BY <1>4, <2>3 DEF Archive!Recognize
    <3>2. /\ calling' \in [Hosts -> ArchiveCall] /\ \A i \in Hosts \ {h} : calling'[i] = calling[i]
          /\ calling'[h].pc = pc /\ calling'[h].artifact = calling[h].artifact /\ calling'[h].retain = calling[h].retain
      BY <1>0, <3>1, GoFields DEF ArchivePCs
    <3>3. ArchiveType'
      BY <1>0, <2>1, <3>2 DEF ArchiveType
    <3>4. KnownAt(h)'
      BY <1>0, <2>1, <2>3, <3>1, <3>2 DEF KnownAt
    <3> QED
      BY <2>1, <2>2, <3>2, <3>3, <3>4, OtherHostsKeep
  <2>4. CASE marker # "whole"
    <3>1. Archive!Answer(h, Archive!Refused)
      BY <1>4, <2>4 DEF Archive!Recognize
    <3>2. /\ calling' \in [Hosts -> ArchiveCall] /\ \A i \in Hosts \ {h} : calling'[i] = calling[i]
          /\ calling'[h].pc = "idle" /\ calling'[h].answer = Archive!Refused
          /\ calling'[h].provisioned = calling[h].provisioned
      BY <1>0, <3>1, AnswerFields
    <3>3. ArchiveType'
      BY <1>0, <2>1, <3>2 DEF ArchiveType
    <3>4. KnownAt(h)'
      BY <1>0, <2>1, <2>4, <3>2 DEF KnownAt
    <3> QED
      BY <2>1, <2>2, <3>2, <3>3, <3>4, OtherHostsKeep
  <2> QED
    BY <2>3, <2>4
<1> QED
  BY <1>1, <1>2, <1>3, <1>4

\* Retaining and reading: an answer other than Refused is the artifact.
LEMMA RetainKeeps ==
  ASSUME Archive!DigestsApart, ArchiveInv, NEW h \in Hosts,
         Archive!Look(h) \/ Archive!MakeStage(h) \/ Archive!WriteStage(h) \/ Archive!Publish(h) \/ Archive!Reread(h) \/ Archive!ReadBytes(h)
  PROVE  ArchiveInv'
<1> USE DEF ArchiveInv
<1> DEFINE a == calling[h].artifact
<1>0. ArchiveType /\ EntriesInv /\ KnownAt(h)
  OBVIOUS
<1>1. calling[h].pc # "idle" /\ a \in Artifacts
  BY <1>0 DEF KnownAt, Archive!Look, Archive!MakeStage, Archive!WriteStage, Archive!Publish, Archive!Reread, Archive!ReadBytes, Archive!At
<1>2. CASE Archive!Look(h) /\ entries[a] = Archive!Missing
  <2>1. calling[h].pc = "look" /\ Archive!Go(h, "stage") /\ UNCHANGED <<marker, entries, stages, left, promised, archiveMishaps>>
    BY <1>2 DEF Archive!Look, Archive!At
  <2>2. /\ calling' \in [Hosts -> ArchiveCall] /\ \A i \in Hosts \ {h} : calling'[i] = calling[i]
        /\ calling'[h].pc = "stage" /\ calling'[h].artifact = a /\ calling'[h].retain = calling[h].retain
    BY <1>0, <2>1, GoFields DEF ArchivePCs
  <2>3. ArchiveType' /\ EntriesInv'
    BY <1>0, <2>1, <2>2 DEF ArchiveType, EntriesInv
  <2>4. KnownAt(h)'
    BY <1>0, <1>1, <2>1, <2>2 DEF KnownAt
  <2> QED
    BY <2>1, <2>2, <2>3, <2>4, OtherHostsKeep
<1>3. CASE Archive!MakeStage(h)
  <2>1. /\ calling[h].pc = "stage" /\ Archive!Go(h, "write") /\ stages' = [stages EXCEPT ![h] = "partial"]
        /\ UNCHANGED <<marker, entries, left, promised, archiveMishaps>>
    BY <1>3 DEF Archive!MakeStage, Archive!At
  <2>2. /\ calling' \in [Hosts -> ArchiveCall] /\ \A i \in Hosts \ {h} : calling'[i] = calling[i]
        /\ calling'[h].pc = "write" /\ calling'[h].artifact = a /\ calling'[h].retain = calling[h].retain
    BY <1>0, <2>1, GoFields DEF ArchivePCs
  <2>3. ArchiveType' /\ EntriesInv' /\ \A i \in Hosts \ {h} : stages'[i] = stages[i]
    BY <1>0, <2>1, <2>2 DEF ArchiveType, EntriesInv
  <2>4. KnownAt(h)'
    BY <1>0, <1>1, <2>1, <2>2 DEF KnownAt
  <2> QED
    BY <2>1, <2>2, <2>3, <2>4, OtherHostsKeep
<1>4. CASE Archive!WriteStage(h)
  <2>1. /\ calling[h].pc = "write" /\ Archive!Go(h, "publish") /\ stages' = [stages EXCEPT ![h] = a]
        /\ UNCHANGED <<marker, entries, left, promised, archiveMishaps>>
    BY <1>4 DEF Archive!WriteStage, Archive!At
  <2>2. /\ calling' \in [Hosts -> ArchiveCall] /\ \A i \in Hosts \ {h} : calling'[i] = calling[i]
        /\ calling'[h].pc = "publish" /\ calling'[h].artifact = a /\ calling'[h].retain = calling[h].retain
    BY <1>0, <2>1, GoFields DEF ArchivePCs
  <2>3. ArchiveType' /\ EntriesInv' /\ stages'[h] = a /\ \A i \in Hosts \ {h} : stages'[i] = stages[i]
    BY <1>0, <1>1, <2>1, <2>2 DEF ArchiveType, EntriesInv
  <2>4. KnownAt(h)'
    BY <1>0, <1>1, <2>1, <2>2, <2>3 DEF KnownAt
  <2> QED
    BY <2>1, <2>2, <2>3, <2>4, OtherHostsKeep
<1>5. CASE Archive!Publish(h)
  <2>1. calling[h].pc = "publish" /\ Archive!Go(h, "reread") /\ UNCHANGED <<marker, left, promised, archiveMishaps>> /\ stages[h] = a
    BY <1>0, <1>5 DEF Archive!Publish, Archive!At, KnownAt
  <2>2. /\ calling' \in [Hosts -> ArchiveCall] /\ \A i \in Hosts \ {h} : calling'[i] = calling[i]
        /\ calling'[h].pc = "reread" /\ calling'[h].artifact = a /\ calling'[h].retain = calling[h].retain
    BY <1>0, <2>1, GoFields DEF ArchivePCs
  <2>3. /\ entries' \in [Artifacts -> Artifacts \cup {Archive!Missing, Archive!Damaged}] /\ stages' \in [Hosts -> Artifacts \cup {Archive!Missing, "partial"}]
        /\ entries'[a] # Archive!Missing
        /\ \A x \in Artifacts : entries'[x] = entries[x] \/ (x = a /\ entries'[x] = a /\ entries[x] = Archive!Missing)
        /\ \A i \in Hosts \ {h} : stages'[i] = stages[i]
    BY <1>0, <1>1, <1>5, <2>1 DEF Archive!Publish, ArchiveType, Archive!DigestsApart
  <2>4. ArchiveType'
    BY <1>0, <2>1, <2>2, <2>3 DEF ArchiveType
  <2>5. EntriesInv'
    BY <1>0, <1>1, <2>1, <2>3 DEF ArchiveType, EntriesInv, Archive!DigestsApart
  <2>6. KnownAt(h)'
    BY <1>0, <1>1, <2>1, <2>2, <2>3 DEF KnownAt
  <2>7. \A x \in Artifacts : entries[x] # Archive!Missing => entries'[x] # Archive!Missing
    BY <2>3
  <2> QED
    BY <2>1, <2>2, <2>3, <2>4, <2>5, <2>6, <2>7, OtherHostsKeep
\* The calls that end.
<1>6. CASE (Archive!Look(h) /\ entries[a] # Archive!Missing) \/ Archive!Reread(h) \/ Archive!ReadBytes(h)
  <2>1. PICK x \in {a, Archive!Refused} : Archive!Answer(h, x) /\ (x = a => entries[a] = a) /\ (x # a => entries[a] # a)
    <3>1. Archive!Refused # a /\ Archive!Missing # a
      BY <1>1 DEF Archive!DigestsApart
    <3>2. CASE Archive!Look(h) /\ entries[a] # Archive!Missing
      BY <3>1, <3>2 DEF Archive!Look, Archive!Read
    <3>3. CASE Archive!Reread(h)
      BY <3>1, <3>3 DEF Archive!Reread, Archive!Read
    <3>4. CASE Archive!ReadBytes(h)
      BY <3>1, <3>4 DEF Archive!ReadBytes, Archive!Read
    <3> QED
      BY <1>6, <3>2, <3>3, <3>4
  <2>2. /\ UNCHANGED <<marker, entries, left, archiveMishaps>>
        /\ stages' = stages \/ stages' = [stages EXCEPT ![h] = Archive!Missing]
        /\ promised' \in {promised, promised \cup {a}} /\ (promised' # promised => entries[a] = a)
        /\ calling[h].pc \in {"look", "reread", "read"}
    BY <1>1, <1>6 DEF Archive!Look, Archive!Reread, Archive!ReadBytes, Archive!Read, Archive!At, Archive!DigestsApart
  <2>3. /\ calling' \in [Hosts -> ArchiveCall] /\ \A i \in Hosts \ {h} : calling'[i] = calling[i]
        /\ calling'[h].pc = "idle" /\ calling'[h].answer = x /\ calling'[h].artifact = a
        /\ calling'[h].retain = calling[h].retain /\ calling'[h].provisioned = calling[h].provisioned
    BY <1>0, <1>1, <2>1, AnswerFields
  <2>4. marker = "whole" /\ stages'[h] = Archive!Missing /\ \A i \in Hosts \ {h} : stages'[i] = stages[i]
    <3>1. stages[h] = Archive!Missing \/ stages' = [stages EXCEPT ![h] = Archive!Missing]
      BY <1>0, <1>6 DEF KnownAt, Archive!Look, Archive!Reread, Archive!ReadBytes, Archive!At
    <3>2. marker = "whole"
      BY <1>0, <2>2 DEF KnownAt
    <3> QED
      BY <1>0, <2>2, <3>1, <3>2 DEF ArchiveType
  <2>5. ArchiveType'
    BY <1>0, <1>1, <2>2, <2>3 DEF ArchiveType
  <2>6. EntriesInv'
    BY <1>0, <1>1, <2>2, <2>4 DEF EntriesInv, ArchiveType, Archive!DigestsApart
  <2>7. x = Archive!Refused => archiveMishaps # 0 \/ ~calling[h].retain
    <3>1. CASE calling[h].pc = "read"
      BY <1>0, <3>1 DEF KnownAt
    <3>2. CASE calling[h].pc # "read"
      <4>1. entries[a] # Archive!Missing
        BY <1>0, <1>6, <3>2 DEF KnownAt, Archive!Look, Archive!Reread, Archive!ReadBytes, Archive!At
      <4> QED
        BY <1>0, <1>1, <2>1, <4>1 DEF EntriesInv, ArchiveType, Archive!DigestsApart
    <3> QED
      BY <3>1, <3>2
  <2>8. KnownAt(h)'
    BY <1>0, <2>1, <2>2, <2>3, <2>4, <2>7 DEF KnownAt
  <2> QED
    BY <2>2, <2>3, <2>4, <2>5, <2>6, <2>8, OtherHostsKeep
<1> QED
  BY <1>2, <1>3, <1>4, <1>5, <1>6

\* What goes wrong is counted.
LEMMA MishapsKeep ==
  ASSUME Archive!DigestsApart, ArchiveInv, NEW h \in Hosts, Archive!Fails(h) \/ Archive!Dies(h)
  PROVE  ArchiveInv'
<1> USE DEF ArchiveInv
<1>0. ArchiveType /\ EntriesInv /\ KnownAt(h)
  OBVIOUS
<1>1. /\ archiveMishaps' = archiveMishaps + 1 /\ UNCHANGED <<marker, entries, promised>>
      /\ stages' = [stages EXCEPT ![h] = Archive!Missing] /\ left' \in {left, left + 1}
  BY DEF Archive!Fails, Archive!Dies, Archive!Mishap
<1>2. /\ calling' \in [Hosts -> ArchiveCall] /\ \A i \in Hosts \ {h} : calling'[i] = calling[i]
      /\ calling'[h].pc = "idle"
      /\ calling'[h] # Archive!Idle => calling'[h].answer = Archive!Refused /\ calling'[h].provisioned = calling[h].provisioned
      /\ calling'[h] = Archive!Idle => ~calling'[h].provisioned
  <2>1. CASE Archive!Fails(h)
    <3>1. Archive!Answer(h, Archive!Refused)
      BY <2>1 DEF Archive!Fails
    <3> QED
      BY <1>0, <3>1, AnswerFields DEF Archive!Idle
  <2>2. CASE Archive!Dies(h)
    BY <1>0, <2>2 DEF Archive!Dies, Archive!Idle, ArchiveType, ArchiveCall, ArchivePCs
  <2> QED
    BY <2>1, <2>2
<1>3. archiveMishaps' \in Nat /\ left' \in Nat /\ left' <= archiveMishaps' /\ archiveMishaps' # 0 /\ archiveMishaps' > 0
  BY <1>0, <1>1 DEF ArchiveType, EntriesInv
<1>4. ArchiveType'
  BY <1>0, <1>1, <1>2, <1>3 DEF ArchiveType
<1>5. EntriesInv'
  BY <1>0, <1>1, <1>3 DEF EntriesInv
<1>6. stages'[h] = Archive!Missing /\ \A i \in Hosts \ {h} : stages'[i] = stages[i]
  BY <1>0, <1>1 DEF ArchiveType
<1>7. KnownAt(h)'
  BY <1>0, <1>1, <1>2, <1>3, <1>6 DEF KnownAt
<1> QED
  BY <1>1, <1>2, <1>3, <1>4, <1>5, <1>6, <1>7, OtherHostsKeep

LEMMA DamageKeeps ==
  ASSUME Archive!DigestsApart, ArchiveInv, NEW a \in Artifacts, Archive!Damage(a)
  PROVE  ArchiveInv'
<1> USE DEF ArchiveInv
<1>0. ArchiveType /\ EntriesInv
  OBVIOUS
<1>1. /\ archiveMishaps' = archiveMishaps + 1 /\ UNCHANGED <<marker, stages, left, calling, promised>>
      /\ entries' = [entries EXCEPT ![a] = Archive!Damaged]
  BY DEF Archive!Damage, Archive!Mishap
<1>2. archiveMishaps' \in Nat /\ archiveMishaps' > 0 /\ archiveMishaps' # 0 /\ left <= archiveMishaps'
  BY <1>0, <1>1 DEF ArchiveType, EntriesInv
<1>3. \A x \in Artifacts : entries'[x] = entries[x] \/ entries'[x] = Archive!Damaged
  BY <1>0, <1>1 DEF ArchiveType
<1>4. ArchiveType'
  BY <1>0, <1>1, <1>2 DEF ArchiveType
<1>5. EntriesInv'
  BY <1>0, <1>1, <1>2, <1>3 DEF EntriesInv, ArchiveType
<1>6. ASSUME NEW h \in Hosts PROVE KnownAt(h)'
  <2>1. KnownAt(h)
    OBVIOUS
  <2>2. calling[h].pc = "reread" => calling[h].artifact \in Artifacts
    BY <2>1 DEF KnownAt
  <2> QED
    BY <1>1, <1>2, <1>3, <2>1, <2>2 DEF KnownAt
<1> QED
  BY <1>4, <1>5, <1>6

\* The invariant is inductive.
LEMMA ArchiveNext == ASSUME Archive!DigestsApart PROVE ArchiveInv /\ [Archive!Next]_(Archive!archiveVars) => ArchiveInv'
<1> SUFFICES ASSUME ArchiveInv, [Archive!Next]_(Archive!archiveVars) PROVE ArchiveInv'
  OBVIOUS
<1>1. CASE Archive!Next
  BY <1>1, OpensKeep, RetainKeeps, MishapsKeep, DamageKeeps DEF Archive!Next
<1>2. CASE UNCHANGED Archive!archiveVars
  BY <1>2 DEF Archive!archiveVars, ArchiveInv, ArchiveType, EntriesInv, KnownAt
<1> QED
  BY <1>1, <1>2

(***************************************************************************)
(* DurableArtifactStore: for any processes, artifacts, races, crashes and  *)
(* errors, a returned reference stays readable until its entry is damaged, *)
(* nobody is given other bytes, a stage is left only by a mishap, and      *)
(* calls do not refuse one another on a provisioned archive.               *)
(***************************************************************************)
THEOREM ArchiveAlwaysSound == ASSUME Archive!DigestsApart PROVE Archive!Spec => []Archive!ArchiveSound
BY ArchiveInit, ArchiveNext, ArchiveInvSound, PTL DEF Archive!Spec


\* What exports and the archive leave behind is whole, whatever failed,
\* crashed or came between (export_file, DurableArtifactStore).
THEOREM FilesStayWhole ==
    ASSUME ContentAssumption
    PROVE  Exchange!Spec /\ Archive!Spec => []FilesWhole
<1>1. Archive!DigestsApart
  BY DEF ContentAssumption
<1>2. Archive!Spec => []Archive!ArchiveSound
  BY <1>1, ArchiveAlwaysSound
<1>3. Exchange!Spec => []Exchange!ExportsComplete
  BY ExportsAlwaysComplete
<1>4. Exchange!ExportsComplete /\ Archive!ArchiveSound => FilesWhole
  BY DEF FilesWhole
<1> QED
  BY <1>2, <1>3, <1>4, PTL

=============================================================================
