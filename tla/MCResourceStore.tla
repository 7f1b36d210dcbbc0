-------------------------- MODULE MCResourceStore --------------------------
(***************************************************************************)
(* Small instances of ResourceStore for TLC.                               *)
(***************************************************************************)
EXTENDS ResourceStore, TLC

CONSTANTS c1, c2, r1, r2, s1, s2, p1, p2, u1, u2, t1, t2, e1, i1, i2, f1, f2

Row(p, t) == [rep |-> p, text |-> t]

Batch(r, s, reps, units, idents, vec, facets) ==
    [res |-> r, src |-> s, reps |-> reps,
     unit |-> [u \in Units |-> IF u \in DOMAIN units THEN units[u] ELSE None],
     space |-> [e \in Spaces |-> IF e \in DOMAIN idents THEN idents[e] ELSE None],
     vec |-> vec, facets |-> facets]

NoIdents == [e \in {} |-> None]

A1 == Batch(r1, s1, {p1}, u1 :> Row(p1, t1), e1 :> i1, {<<u1, e1>>}, {f1})
A2 == Batch(r1, s1, {p1}, (u1 :> Row(p1, t2)) @@ (u2 :> Row(p1, t1)), NoIdents, {}, {f2})

(***************************************************************************)
(* One client, many shapes of batch: what sequences of writes do to the    *)
(* tables.                                                                 *)
(***************************************************************************)
TableBatches ==
    { \* r1 with text and a vector, then corrected to other text, another facet
      A1, A2,
      \* r1 moved to another source
      Batch(r1, s2, {p1}, u1 :> Row(p1, t1), NoIdents, {}, {}),
      \* r2 competes for r1's source, for r1's unit id, and redefines the space
      Batch(r2, s1, {p2}, u2 :> Row(p2, NoText), e1 :> i1, {<<u2, e1>>}, {f1}),
      Batch(r2, s2, {p2}, u1 :> Row(p2, t1), NoIdents, {}, {f1}),
      Batch(r2, s2, {p2}, u2 :> Row(p2, t1), e1 :> i2, {}, {}),
      \* refused by validation: a unit with neither text nor vector
      Batch(r2, s2, {p2}, u2 :> Row(p2, NoText), NoIdents, {}, {}) }

(***************************************************************************)
(* Two clients on one resource: what their calls do to each other.         *)
(***************************************************************************)
RaceBatches == {A1, A2}

-----------------------------------------------------------------------------
(***************************************************************************)
(* The two are one run: a behaviour has one client and all batches, or two *)
(* clients on one resource.                                                *)
(***************************************************************************)
VARIABLE setup

CONSTANT RaceTokens   \* bound: calls of a race start below it

Alone == pc'[c2] = "idle" /\ snap'[c2] = None /\ view'[c2] = None

Racing ==
    /\ \A c \in Clients :
          /\ pc[c] = "idle" /\ pc'[c] = "queued" => minted < RaceTokens
          /\ view'[c] # None => view'[c].res = r1
          /\ req'[c] # None => req'[c].res \in {r1, None} /\ req'[c].batch \in RaceBatches \cup {None}

MCInit == Init /\ setup \in {"tables", "race"}

MCNext ==
    /\ setup' = setup
    /\ \/ setup = "tables" /\ (\E c \in {c1} : Start(c) \/ Step(c) \/ Crash(c)) /\ Alone
       \/ setup = "race" /\ Next /\ Racing

MCSpec == MCInit /\ [][MCNext]_<<vars, setup>>
=============================================================================
