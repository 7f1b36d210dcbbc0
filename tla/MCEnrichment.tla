---------------------------- MODULE MCEnrichment ----------------------------
(***************************************************************************)
(* Small instances of Enrichment for TLC: one resource with an OCR text, a *)
(* caption made from it and a summary on top of the caption.               *)
(***************************************************************************)
EXTENDS Enrichment, TLC

CONSTANTS w1, w2, r1, s1, top, ocr, cap, a, b, x, y, lex, dense, g1, g2, raw1, raw2, m1, m2

Parts(f) == [s \in Slots |-> IF s \in DOMAIN f THEN f[s] ELSE None]

P(rev, mat) == [rev |-> rev, mat |-> mat, form |-> lex]

T(api, parts, remove, reads, manual) ==
    [api |-> api, parts |-> Parts(parts), remove |-> remove, reads |-> reads,
     manual |-> manual, gen |-> g1, raw |-> raw1, meta |-> None]

NoParts == [s \in {} |-> None]

Ocr(api, rev, mat, manual) == T(api, ocr :> P(rev, mat), {}, {}, manual)
Caption(rev) == T("prepared", cap :> P(rev, x), {}, {ocr}, FALSE)
NoText(manual) == T("no_text", NoParts, {ocr}, {}, manual)
Producer(api, gen, raw, rev, meta) ==
    [T(api, top :> P(rev, x), {}, {}, FALSE) EXCEPT !.gen = gen, !.raw = raw, !.meta = meta]
Rescan == [T("rescan", NoParts, {}, {}, FALSE) EXCEPT !.gen = g2, !.raw = raw2]

\* Enrichments, producers, an image, a reindex file and rescans against each other.
RaceTemplates ==
    {Ocr("prepared", a, x, FALSE), Ocr("prepared", b, y, TRUE), Caption(b), NoText(FALSE),
     Producer("producer", g1, raw1, a, m1), Producer("image", g1, raw1, b, None),
     Producer("producer", g2, raw2, b, m2), T("reindex_file", ocr :> P(a, y), {}, {}, FALSE),
     Rescan,
     \* a transcript and the whole-resource text made of it
     T("producer", (ocr :> P(b, x)) @@ (cap :> P(b, y)), {}, {ocr}, FALSE)}

Out(parts, deps, indep, manual) ==
    [s \in Slots |->
        IF s \in DOMAIN parts
        THEN [rev |-> parts[s].rev, mat |-> parts[s].mat, form |-> lex, gen |-> g1,
              dep |-> [d \in Slots |-> IF s \in DOMAIN deps /\ d = deps[s] THEN parts[d].rev ELSE None],
              indep |-> s \in indep, manual |-> s \in manual]
        ELSE None]

G(parts, deps, indep, manual, meta, legacy) ==
    [gen |-> g1, raw |-> raw1, meta |-> meta,
     out |-> Out(parts, deps, indep, manual), legacy |-> legacy]

ChainGraph ==
    G((ocr :> P(a, x)) @@ (cap :> P(a, x)) @@ (top :> P(a, x)), (cap :> ocr) @@ (top :> cap),
      {}, {}, m1, {})
ManualGraph == G((top :> P(a, x)) @@ (ocr :> P(b, y)), NoParts, {}, {ocr}, m2, {})
LegacyGraph == G(cap :> P(a, x), NoParts, {cap}, {}, None, {top})

RaceImports == {ChainGraph, ManualGraph, LegacyGraph}

\* The workers are interchangeable.
Symmetry == Permutations(Workers)
=============================================================================
