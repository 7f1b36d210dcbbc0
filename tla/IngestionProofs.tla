--------------------------- MODULE IngestionProofs ---------------------------
(***************************************************************************)
(* Proofs about media on their way into the catalog: the calls that ingest *)
(* one file (MediaIngestion), the threads that prepare images              *)
(* (ImagePreparation) and the graphs of timed media (MediaBatches).  Each  *)
(* part gives an inductive invariant of one component and then what        *)
(* Ingestion promises of it, for every number of callers, threads,         *)
(* contents and keys, and for every limit, text and vector.                *)
(***************************************************************************)
EXTENDS Ingestion, FiniteSetTheorems, SequenceTheorems, TLAPS

-----------------------------------------------------------------------------
(***************************************************************************)
(* Ingestion calls.  A claim is a generation with the bytes it stands for: *)
(* one the catalog ever held, or one a call in progress is about to        *)
(* publish.  The point is that no two claims give one generation to two    *)
(* contents; what a call reads, prepares and writes keeps this whatever    *)
(* the file and the other callers do in between.                           *)
(***************************************************************************)

Generations == ({"uuid"} \X Nat) \cup ({"sha"} \X Contents)
Refs == {Ref} \cup {q.ref : q \in Requests}
Output == {Nothing} \cup [from : Contents, gen : Generations]
Graph == [raw : Contents, ref : Refs, gen : Generations, tok : Nat, out : [Calls!Slots -> Output]]

Prepared == {"check", "confirm", "write", "reread", "finish"}
Going == {"capture", "read", "decode", "prepare"} \cup Prepared

GoingCall ==
    [pc : Going, api : {"image", "native", "rescan"}, ref : Refs, texts : BOOLEAN, titled : BOOLEAN,
     content : Contents \cup {Nothing}, snap : Graph \cup {Nothing}, snapLife : Nat,
     cur : Graph \cup {Nothing}, gen : Generations \cup {Nothing}, tries : Nat, wrote : BOOLEAN]
Answers == {"published", "source_changed", "stale", "conflict", "failed", "native_decode_failed"}
EndedCall == [pc : {"done"}, api : {"image", "native", "rescan"}, answer : Answers, wrote : BOOLEAN]

CallsTypeOK ==
    /\ file \in Contents
    /\ graph \in Graph \cup {Nothing}
    /\ token \in Nat /\ life \in Nat /\ uuids \in Nat
    /\ call \in [Callers -> {Calls!Idle} \cup GoingCall \cup EndedCall]
    /\ temps \in SUBSET Callers /\ tools \in SUBSET Callers
    /\ named \in SUBSET (Generations \X Contents)

\* A claim of a call: what it has captured and the generation it prepared.
Claim(c) == <<call[c].gen, call[c].content>>
Claims == named \cup {Claim(c) : c \in {d \in Callers : call[d].pc \in Prepared}}

OneContent == \A p, q \in Claims : p[1] = q[1] => p[2] = q[2]
Named == \A p \in Claims : p[1] = <<"sha", p[2]>> \/ \E n \in 1 .. uuids : p[1] = <<"uuid", n>>

\* A graph that is or was the catalog's.
Authentic(g) ==
    g # Nothing =>
        /\ <<g.gen, g.raw>> \in named
        /\ \A s \in Calls!Slots : g.out[s] # Nothing => g.out[s] = [from |-> g.raw, gen |-> g.gen]

\* What a call knows by where it is.
Captured(r) == r.pc \in {"decode", "prepare"} \cup Prepared \/ (r.pc = "read" /\ r.api = "image")
CallKnows(r) ==
    /\ Captured(r) => r.content \in Contents
    /\ r.pc \in Prepared => r.gen \in Generations
    /\ r.pc \in Going => /\ Authentic(r.snap) /\ Authentic(r.cur)
                         /\ r.snap # Nothing => r.cur # Nothing

CallsInv ==
    /\ CallsTypeOK
    /\ OneContent /\ Named
    /\ Authentic(graph)
    /\ \A c \in Callers : CallKnows(call[c])
    /\ Calls!NothingLeftBehind

\* A call in progress has the full record.
LEMMA GoingShape ==
    ASSUME CallsTypeOK, NEW c \in Callers, call[c].pc \notin {"idle", "done"}
    PROVE  call[c] \in GoingCall /\ call[c].pc \in Going
<1>1. call[c] \in {Calls!Idle} \cup GoingCall \cup EndedCall
  BY DEF CallsTypeOK
<1>2. call[c] # Calls!Idle
  BY DEF Calls!Idle
<1>3. call[c] \notin EndedCall
  BY DEF EndedCall
<1> QED
  BY <1>1, <1>2, <1>3 DEF GoingCall

\* A step that writes nothing to the catalog and leaves call c as r.
LEMMA CallStep ==
    ASSUME CallsInv, NEW c \in Callers, NEW r \in GoingCall \cup EndedCall,
           call' = [call EXCEPT ![c] = r],
           UNCHANGED <<file, graph, token, life, named>>,
           uuids' \in Nat, uuids <= uuids',
           CallKnows(r),
           r.pc \in Prepared =>
               /\ \A p \in Claims : p[1] = r.gen => p[2] = r.content
               /\ r.gen = <<"sha", r.content>> \/ \E n \in 1 .. uuids' : r.gen = <<"uuid", n>>,
           temps' \in SUBSET Callers, tools' \in SUBSET Callers,
           Calls!NothingLeftBehind'
    PROVE  CallsInv'
<1>0. CallsTypeOK /\ call'[c] = r /\ \A d \in Callers \ {c} : call'[d] = call[d]
  BY DEF CallsInv, CallsTypeOK
<1> USE named' = named /\ graph' = graph
<1>1. CallsTypeOK'
  BY <1>0 DEF CallsTypeOK
<1>2. \A p \in Claims' : p \in Claims \/ (r.pc \in Prepared /\ p = <<r.gen, r.content>>)
  BY <1>0 DEF Claims, Claim
<1>3. OneContent'
  BY <1>2 DEF CallsInv, OneContent
<1>4. Named'
  <2>1. 1 .. uuids \subseteq 1 .. uuids'
    BY <1>0 DEF CallsTypeOK
  <2>2. SUFFICES ASSUME NEW p \in Claims'
                 PROVE  p[1] = <<"sha", p[2]>> \/ \E n \in 1 .. uuids' : p[1] = <<"uuid", n>>
    BY DEF Named
  <2> QED
    BY <1>2, <2>1 DEF CallsInv, Named
<1>5. Authentic(graph)'
  BY DEF CallsInv, Authentic
<1>6. \A d \in Callers : CallKnows(call[d])'
  <2> SUFFICES ASSUME NEW d \in Callers
               PROVE  CallKnows(call[d])'
    OBVIOUS
  <2>1. call'[d] = r \/ (call'[d] = call[d] /\ CallKnows(call[d]))
    BY <1>0 DEF CallsInv
  <2>2. PICK s : s = call'[d]
    OBVIOUS
  <2>3. CallKnows(s)
    BY <2>1, <2>2
  <2>4. CallKnows(s)'
    BY <2>3 DEF CallKnows, Captured, Authentic
  <2> QED
    BY <2>2, <2>4 DEF CallKnows, Captured, Authentic
<1> QED
  BY <1>1, <1>3, <1>4, <1>5, <1>6 DEF CallsInv

\* A call ends: its copy of the file goes, and it claims nothing any more.
LEMMA CallEnds ==
    ASSUME CallsInv, NEW c \in Callers, call[c] \in GoingCall, NEW a \in Answers, Calls!End(c, a),
           UNCHANGED <<file, graph, token, life, named, uuids>>,
           tools' \subseteq tools, c \notin tools'
    PROVE  CallsInv'
<1>1. PICK r : r = [pc |-> "done", api |-> call[c].api, answer |-> a, wrote |-> call[c].wrote]
  OBVIOUS
<1>2. r \in EndedCall /\ r.pc = "done"
  BY <1>1 DEF GoingCall, EndedCall
<1>3. call' = [call EXCEPT ![c] = r] /\ temps' = temps \ {c}
  BY <1>1 DEF Calls!End, Calls!Go
<1>4. CallKnows(r) /\ r.pc \notin Prepared
  BY <1>2 DEF CallKnows, Captured, Prepared, Going
<1>5. call'[c] = r /\ \A d \in Callers \ {c} : call'[d] = call[d]
  BY <1>3 DEF CallsInv, CallsTypeOK
<1>6. temps \in SUBSET Callers /\ tools \in SUBSET Callers /\ uuids \in Nat
  BY DEF CallsInv, CallsTypeOK
<1>7. Calls!NothingLeftBehind'
  BY <1>3, <1>5, <1>6 DEF CallsInv, Calls!NothingLeftBehind
<1>8. /\ UNCHANGED <<file, graph, token, life, named>> /\ uuids' \in Nat /\ uuids <= uuids'
      /\ temps' \in SUBSET Callers /\ tools' \in SUBSET Callers /\ r \in GoingCall \cup EndedCall
  BY <1>2, <1>3, <1>6
<1> QED
  BY <1>3, <1>4, <1>7, <1>8, CallStep

\* A call moves on with what it has.
LEMMA CallMoves ==
    ASSUME CallsInv, NEW c \in Callers, call[c] \in GoingCall, NEW r \in GoingCall,
           call' = [call EXCEPT ![c] = r],
           UNCHANGED <<file, graph, token, life, named, uuids>>,
           temps' \subseteq temps \cup {c}, tools' \subseteq tools, c \notin tools',
           CallKnows(r),
           r.pc \in Prepared =>
               call[c].pc \in Prepared /\ r.gen = call[c].gen /\ r.content = call[c].content
    PROVE  CallsInv'
<1>1. call'[c] = r /\ \A d \in Callers \ {c} : call'[d] = call[d]
  BY DEF CallsInv, CallsTypeOK
<1>2. temps \in SUBSET Callers /\ tools \in SUBSET Callers /\ uuids \in Nat
  BY DEF CallsInv, CallsTypeOK
<1>3. r.pc \notin {"idle", "done"}
  BY DEF GoingCall, Going, Prepared
<1>4. Calls!NothingLeftBehind'
  BY <1>1, <1>2, <1>3 DEF CallsInv, Calls!NothingLeftBehind
<1>5. ASSUME r.pc \in Prepared
      PROVE  /\ \A p \in Claims : p[1] = r.gen => p[2] = r.content
             /\ r.gen = <<"sha", r.content>> \/ \E n \in 1 .. uuids' : r.gen = <<"uuid", n>>
  <2>1. Claim(c) \in Claims /\ Claim(c) = <<r.gen, r.content>>
    BY <1>5 DEF Claims, Claim
  <2> QED
    BY <2>1 DEF CallsInv, OneContent, Named
<1>6. /\ UNCHANGED <<file, graph, token, life, named>> /\ uuids' \in Nat /\ uuids <= uuids'
      /\ temps' \in SUBSET Callers /\ tools' \in SUBSET Callers /\ r \in GoingCall \cup EndedCall
  BY <1>2
<1> QED
  BY <1>4, <1>5, <1>6, CallStep

\* A call in progress without a decoder process has none.
LEMMA NoTool ==
    ASSUME CallsInv, NEW c \in Callers, call[c].pc # "decode"
    PROVE  c \notin tools
  BY DEF CallsInv, Calls!NothingLeftBehind

LEMMA StartKeeps ==
    ASSUME IngestionAssumption, CallsInv, NEW c \in Callers, Calls!Start(c)
    PROVE  CallsInv'
<1>1. PICK q \in Requests : call' = [call EXCEPT ![c] = Calls!Begin(q)]
  BY DEF Calls!Start, Calls!Go
<1>2. PICK r : r = Calls!Begin(q)
  OBVIOUS
<1>3. q.api \in {"image", "native", "rescan"} /\ q.texts \in BOOLEAN /\ q.titled \in BOOLEAN /\ q.ref \in Refs
  BY DEF IngestionAssumption, Calls!RequestsAssumption, Refs
<1>4. /\ r \in GoingCall /\ r.pc \in {"capture", "read"} /\ (r.pc = "read" => r.api # "image")
      /\ r.snap = Nothing /\ r.cur = Nothing
  BY <1>2, <1>3 DEF Calls!Begin, GoingCall, Going
<1>5. CallKnows(r) /\ r.pc \notin Prepared
  BY <1>4 DEF CallKnows, Captured, Prepared, Authentic
<1>6. call'[c] = r /\ \A d \in Callers \ {c} : call'[d] = call[d]
  BY <1>1, <1>2 DEF CallsInv, CallsTypeOK
<1>7. c \notin tools /\ c \notin temps
  BY DEF Calls!Start, CallsInv, Calls!NothingLeftBehind
<1>8. temps' = temps /\ tools' = tools /\ temps \in SUBSET Callers /\ tools \in SUBSET Callers /\ uuids \in Nat
  BY DEF Calls!Start, CallsInv, CallsTypeOK
<1>9. Calls!NothingLeftBehind'
  BY <1>6, <1>7, <1>8 DEF CallsInv, Calls!NothingLeftBehind
<1>10. /\ UNCHANGED <<file, graph, token, life, named>> /\ uuids' \in Nat /\ uuids <= uuids'
       /\ temps' \in SUBSET Callers /\ tools' \in SUBSET Callers /\ r \in GoingCall \cup EndedCall
       /\ call' = [call EXCEPT ![c] = r]
  BY <1>1, <1>2, <1>4, <1>8 DEF Calls!Start, Calls!Catalog
<1> QED
  BY <1>5, <1>9, <1>10, CallStep

LEMMA CaptureKeeps ==
    ASSUME CallsInv, NEW c \in Callers, Calls!Capture(c)
    PROVE  CallsInv'
<1>1. PICK r : r = [call[c] EXCEPT !.content = file,
                                   !.pc = IF call[c].api = "image" THEN "read"
                                          ELSE IF call[c].api = "native" THEN "decode" ELSE "prepare"]
  OBVIOUS
<1>2. call[c] \in GoingCall /\ call[c].pc = "capture"
  BY GoingShape DEF CallsInv, Calls!Capture
<1>3. file \in Contents
  BY DEF CallsInv, CallsTypeOK
<1>4. r \in GoingCall /\ r.pc \notin Prepared
  <2>1. PICK q \in {"read", "decode", "prepare"} : r = [call[c] EXCEPT !.content = file, !.pc = q]
    BY <1>1
  <2>2. r.pc = q /\ q \in Going /\ q \notin Prepared
    BY <1>2, <2>1 DEF GoingCall, Going, Prepared
  <2>3. r \in GoingCall
    BY <1>2, <1>3, <2>1, <2>2 DEF GoingCall
  <2> QED
    BY <2>2, <2>3
<1>5. CallKnows(r)
  <2>1. Authentic(call[c].snap) /\ Authentic(call[c].cur) /\ (call[c].snap # Nothing => call[c].cur # Nothing)
    BY <1>2 DEF CallsInv, CallKnows, Going
  <2>2. r.snap = call[c].snap /\ r.cur = call[c].cur /\ r.content = file
    BY <1>1, <1>2 DEF GoingCall
  <2> QED
    BY <2>1, <2>2, <1>3, <1>4 DEF CallKnows
<1>6. c \notin tools
  BY <1>2, NoTool
<1>7. /\ call' = [call EXCEPT ![c] = r] /\ UNCHANGED <<file, graph, token, life, named, uuids>>
      /\ temps' \subseteq temps \cup {c} /\ tools' \subseteq tools /\ c \notin tools'
  BY <1>1, <1>6 DEF Calls!Capture, Calls!Go, Calls!Catalog
<1> QED
  BY <1>2, <1>4, <1>5, <1>7, CallMoves

LEMMA ReadKeeps ==
    ASSUME CallsInv, NEW c \in Callers, Calls!Read(c)
    PROVE  CallsInv'
<1>1. PICK r : r = [call[c] EXCEPT !.snap = graph, !.cur = graph, !.snapLife = life,
                                   !.pc = IF call[c].api = "image" THEN "prepare" ELSE "capture"]
  OBVIOUS
<1>2. call[c] \in GoingCall /\ call[c].pc = "read"
  BY GoingShape DEF CallsInv, Calls!Read
<1>3. graph \in Graph \cup {Nothing} /\ life \in Nat
  BY DEF CallsInv, CallsTypeOK
<1>4. r \in GoingCall /\ r.pc \in {"prepare", "capture"} /\ (r.pc = "prepare" => r.api = "image") /\ r.content = call[c].content
      /\ r.api = call[c].api /\ r.snap = graph /\ r.cur = graph
  <2>1. PICK q \in {"prepare", "capture"} :
           /\ r = [call[c] EXCEPT !.snap = graph, !.cur = graph, !.snapLife = life, !.pc = q]
           /\ q = "prepare" => call[c].api = "image"
    BY <1>1
  <2>2. /\ r.pc = q /\ r.api = call[c].api /\ r.content = call[c].content
        /\ r.snap = graph /\ r.cur = graph
    BY <1>2, <2>1 DEF GoingCall
  <2>3. r \in GoingCall
    BY <1>2, <1>3, <2>1 DEF GoingCall, Going
  <2> QED
    BY <2>1, <2>2, <2>3
<1>5. CallKnows(r)
  BY <1>2, <1>4 DEF CallsInv, CallKnows, Captured, Prepared
<1>6. c \notin tools
  BY <1>2, NoTool
<1>7. /\ call' = [call EXCEPT ![c] = r] /\ UNCHANGED <<file, graph, token, life, named, uuids>>
      /\ temps' \subseteq temps \cup {c} /\ tools' \subseteq tools /\ c \notin tools'
  BY <1>1, <1>6 DEF Calls!Read, Calls!Go, Calls!Catalog
<1>8. r.pc \notin Prepared
  BY <1>4 DEF Prepared
<1> QED
  BY <1>2, <1>4, <1>5, <1>7, <1>8, CallMoves

LEMMA RunToolKeeps ==
    ASSUME CallsInv, NEW c \in Callers, Calls!RunTool(c)
    PROVE  CallsInv'
<1>1. /\ UNCHANGED <<file, graph, token, life, named, uuids, call, temps>>
      /\ tools' = tools \cup {c} /\ call[c].pc = "decode"
  BY DEF Calls!RunTool, Calls!Catalog
<1>2. Claims' = Claims
  BY <1>1 DEF Claims, Claim
<1>3. CallsTypeOK' /\ OneContent' /\ Named' /\ Authentic(graph)'
  BY <1>1, <1>2 DEF CallsInv, CallsTypeOK, OneContent, Named, Authentic
<1>4. \A d \in Callers : CallKnows(call[d])'
  BY <1>1 DEF CallsInv, CallKnows, Captured, Authentic
<1>5. Calls!NothingLeftBehind'
  BY <1>1 DEF CallsInv, Calls!NothingLeftBehind
<1> QED
  BY <1>3, <1>4, <1>5 DEF CallsInv

\* What a call had keeps being known when only its place changes.
LEMMA PlaceChanges ==
    ASSUME CallsInv, NEW c \in Callers, call[c] \in GoingCall,
           NEW p \in Going \ {"read", "capture"}, NEW r, r = [call[c] EXCEPT !.pc = p],
           Captured(call[c]), p \in Prepared => call[c].pc \in Prepared
    PROVE  /\ r \in GoingCall /\ CallKnows(r)
           /\ r.pc = p /\ r.gen = call[c].gen /\ r.content = call[c].content
<1>1. /\ r \in GoingCall /\ r.pc = p /\ r.gen = call[c].gen /\ r.content = call[c].content
      /\ r.snap = call[c].snap /\ r.cur = call[c].cur
  BY DEF GoingCall
<1>2. CallKnows(call[c]) /\ call[c].pc \in Going
  BY DEF CallsInv, GoingCall
<1>3. CallKnows(r)
  BY <1>1, <1>2 DEF CallKnows
<1> QED
  BY <1>1, <1>3

LEMMA ToolEndsKeeps ==
    ASSUME CallsInv, NEW c \in Callers, Calls!ToolEnds(c)
    PROVE  CallsInv'
<1>1. call[c].pc = "decode" /\ tools' = tools \ {c}
  BY DEF CallsInv, Calls!ToolEnds, Calls!NothingLeftBehind
<1>2. call[c] \in GoingCall /\ Captured(call[c])
  BY <1>1, GoingShape DEF CallsInv, Captured
<1>3. UNCHANGED <<file, graph, token, life, named, uuids>> /\ tools' \subseteq tools /\ c \notin tools'
  BY <1>1 DEF Calls!ToolEnds, Calls!Catalog
<1>4. CASE Calls!End(c, "native_decode_failed")
  <2>1. "native_decode_failed" \in Answers
    BY DEF Answers
  <2> QED
    BY <1>2, <1>3, <1>4, <2>1, CallEnds
<1>5. CASE Calls!Go(c, [call[c] EXCEPT !.pc = "prepare"]) /\ UNCHANGED temps
  <2>1. PICK r : r = [call[c] EXCEPT !.pc = "prepare"]
    OBVIOUS
  <2>2. "prepare" \in Going \ {"read", "capture"} /\ "prepare" \notin Prepared
    BY DEF Going, Prepared
  <2>4. r \in GoingCall /\ CallKnows(r) /\ r.pc \notin Prepared
    BY <1>2, <2>1, <2>2, PlaceChanges
  <2>3. call' = [call EXCEPT ![c] = r] /\ temps' \subseteq temps \cup {c}
    BY <1>5, <2>1 DEF Calls!Go
  <2> QED
    BY <1>2, <1>3, <2>3, <2>4, CallMoves
<1> QED
  BY <1>4, <1>5 DEF Calls!ToolEnds

\* What SameSource finds in the snapshot is a claim of the catalog.
LEMMA SourceClaimed ==
    ASSUME CallsInv, NEW c \in Callers, call[c] \in GoingCall, Calls!SameSource(call[c])
    PROVE  /\ <<call[c].snap.gen, call[c].content>> \in named
           /\ call[c].snap.gen \in Generations
<1>1. CallKnows(call[c]) /\ call[c].pc \in Going
  BY DEF CallsInv, GoingCall
<1>2. call[c].snap # Nothing /\ call[c].snap.raw = call[c].content
  BY DEF Calls!SameSource
<1>3. call[c].snap \in Graph
  BY <1>2 DEF GoingCall
<1> QED
  BY <1>1, <1>2, <1>3 DEF CallKnows, Authentic, Graph

\* The generation a call prepares claims its bytes against every other claim.
LEMMA GenerationClaims ==
    ASSUME CallsInv, NEW c \in Callers, call[c] \in GoingCall, call[c].content \in Contents,
           uuids' = IF Calls!NeedsGeneration(call[c]) THEN uuids + 1 ELSE uuids,
           NEW g, g = Calls!Generation(call[c])
    PROVE  /\ g \in Generations
           /\ \A p \in Claims : p[1] = g => p[2] = call[c].content
           /\ g = <<"sha", call[c].content>> \/ \E n \in 1 .. uuids' : g = <<"uuid", n>>
<1>1. uuids \in Nat
  BY DEF CallsInv, CallsTypeOK
<1>2. CASE Calls!SameSource(call[c])
  <2>1. g = call[c].snap.gen /\ uuids' = uuids
    BY <1>2 DEF Calls!Generation, Calls!NeedsGeneration
  <2>2. <<g, call[c].content>> \in Claims /\ g \in Generations
    BY <1>2, <2>1, SourceClaimed DEF Claims
  <2> QED
    BY <2>1, <2>2 DEF CallsInv, OneContent, Named
<1>3. CASE ~Calls!SameSource(call[c]) /\ call[c].api = "native"
  <2>1. g = <<"sha", call[c].content>>
    BY <1>3 DEF Calls!Generation
  <2>2. ASSUME NEW p \in Claims, p[1] = g
        PROVE  p[2] = call[c].content
    <3>1. p[1] = <<"sha", p[2]>> \/ \E n \in 1 .. uuids : p[1] = <<"uuid", n>>
      BY DEF CallsInv, Named
    <3> QED
      BY <2>1, <2>2, <3>1
  <2> QED
    BY <2>1, <2>2 DEF Generations
<1>4. CASE ~Calls!SameSource(call[c]) /\ call[c].api # "native"
  <2>1. g = <<"uuid", uuids + 1>> /\ uuids' = uuids + 1
    BY <1>4 DEF Calls!Generation, Calls!NeedsGeneration
  <2>2. ASSUME NEW p \in Claims
        PROVE  p[1] # g
    <3>1. p[1] = <<"sha", p[2]>> \/ \E n \in 1 .. uuids : p[1] = <<"uuid", n>>
      BY DEF CallsInv, Named
    <3> QED
      BY <1>1, <2>1, <3>1
  <2>3. uuids + 1 \in 1 .. uuids' /\ uuids + 1 \in Nat
    BY <1>1, <2>1
  <2> QED
    BY <2>1, <2>2, <2>3 DEF Generations
<1> QED
  BY <1>2, <1>3, <1>4

LEMMA PrepareKeeps ==
    ASSUME CallsInv, NEW c \in Callers, Calls!Prepare(c)
    PROVE  CallsInv'
<1>1. call[c] \in GoingCall /\ call[c].pc = "prepare" /\ Captured(call[c])
  BY GoingShape DEF CallsInv, Calls!Prepare, Captured
<1>2. UNCHANGED <<file, graph, token, life, named>> /\ UNCHANGED tools /\ c \notin tools
  BY <1>1, NoTool DEF Calls!Prepare, Calls!Catalog
<1>3. /\ CallKnows(call[c]) /\ call[c].content \in Contents /\ uuids \in Nat
      /\ temps \in SUBSET Callers /\ tools \in SUBSET Callers
  BY <1>1 DEF CallsInv, CallKnows, CallsTypeOK
<1>4. ASSUME NEW g, temps' = temps,
             uuids' = IF Calls!NeedsGeneration(call[c]) THEN uuids + 1 ELSE uuids,
             g = Calls!Generation(call[c]),
             call' = [call EXCEPT ![c] = [call[c] EXCEPT !.pc = "check", !.gen = g]]
      PROVE  CallsInv'
  <2>1. /\ g \in Generations
        /\ \A p \in Claims : p[1] = g => p[2] = call[c].content
        /\ g = <<"sha", call[c].content>> \/ \E n \in 1 .. uuids' : g = <<"uuid", n>>
    BY <1>1, <1>3, <1>4, GenerationClaims
  <2>2. PICK r : r = [call[c] EXCEPT !.pc = "check", !.gen = g]
    OBVIOUS
  <2>3. /\ r \in GoingCall /\ r.pc = "check" /\ r.content = call[c].content /\ r.gen = g
        /\ r.snap = call[c].snap /\ r.cur = call[c].cur
    BY <1>1, <2>1, <2>2 DEF GoingCall, Going, Prepared
  <2>4. CallKnows(r)
    BY <1>1, <1>3, <2>1, <2>3 DEF CallKnows, Going
  <2>5. call'[c] = r /\ \A d \in Callers \ {c} : call'[d] = call[d]
    BY <1>4, <2>2 DEF CallsInv, CallsTypeOK
  <2>6. Calls!NothingLeftBehind'
    BY <1>2, <1>4, <2>3, <2>5 DEF CallsInv, CallsTypeOK, Calls!NothingLeftBehind
  <2>7. /\ uuids' \in Nat /\ uuids <= uuids' /\ temps' \in SUBSET Callers /\ tools' \in SUBSET Callers
        /\ r \in GoingCall \cup EndedCall /\ call' = [call EXCEPT ![c] = r]
    BY <1>2, <1>3, <1>4, <2>2, <2>3
  <2> QED
    BY <1>2, <2>1, <2>3, <2>4, <2>6, <2>7, CallStep
<1>5. CASE /\ Calls!Replays(call[c])
           /\ Calls!Go(c, [call[c] EXCEPT !.pc = "check", !.gen = call[c].snap.gen])
           /\ UNCHANGED <<temps, uuids>>
  <2>1. Calls!SameSource(call[c])
    BY <1>5 DEF Calls!Replays
  <2>2. call[c].snap.gen = Calls!Generation(call[c]) /\ ~Calls!NeedsGeneration(call[c])
    BY <2>1 DEF Calls!Generation, Calls!NeedsGeneration
  <2> QED
    BY <1>4, <1>5, <2>2 DEF Calls!Go
<1>6. CASE /\ uuids' = IF Calls!NeedsGeneration(call[c]) THEN uuids + 1 ELSE uuids
           /\ Calls!Go(c, [call[c] EXCEPT !.pc = "check", !.gen = Calls!Generation(call[c])])
           /\ UNCHANGED temps
  BY <1>4, <1>6 DEF Calls!Go
<1>7. CASE Calls!End(c, "failed") /\ UNCHANGED uuids
  <2>1. UNCHANGED <<file, graph, token, life, named, uuids>> /\ tools' \subseteq tools /\ c \notin tools'
    BY <1>2, <1>7
  <2>2. "failed" \in Answers
    BY DEF Answers
  <2> QED
    BY <1>1, <1>7, <2>1, <2>2, CallEnds
<1> QED
  BY <1>5, <1>6, <1>7 DEF Calls!Prepare

\* A call that knows its generation moves on with all it has.
LEMMA PreparedMoves ==
    ASSUME CallsInv, NEW c \in Callers, call[c] \in GoingCall, call[c].pc \in Prepared,
           NEW p \in Prepared, Calls!Go(c, [call[c] EXCEPT !.pc = p]),
           UNCHANGED <<file, graph, token, life, named, uuids, temps, tools>>
    PROVE  CallsInv'
<1>1. PICK r : r = [call[c] EXCEPT !.pc = p]
  OBVIOUS
<1>2. p \in Going \ {"read", "capture"} /\ Captured(call[c])
  BY DEF Going, Prepared, Captured
<1>3. r \in GoingCall /\ CallKnows(r) /\ r.pc = p /\ r.gen = call[c].gen /\ r.content = call[c].content
  BY <1>1, <1>2, PlaceChanges
<1>4. c \notin tools
  BY NoTool DEF Prepared
<1>5. /\ call' = [call EXCEPT ![c] = r] /\ UNCHANGED <<file, graph, token, life, named, uuids>>
      /\ temps' \subseteq temps \cup {c} /\ tools' \subseteq tools /\ c \notin tools'
  BY <1>1, <1>4 DEF Calls!Go
<1> QED
  BY <1>3, <1>5, CallMoves

\* A call that knows its generation ends.
LEMMA PreparedEnds ==
    ASSUME CallsInv, NEW c \in Callers, call[c] \in GoingCall, call[c].pc \in Prepared,
           NEW a \in Answers, Calls!End(c, a),
           UNCHANGED <<file, graph, token, life, named, uuids, tools>>
    PROVE  CallsInv'
<1>1. c \notin tools
  BY NoTool DEF Prepared
<1>2. UNCHANGED <<file, graph, token, life, named, uuids>> /\ tools' \subseteq tools /\ c \notin tools'
  BY <1>1
<1> QED
  BY <1>2, CallEnds

LEMMA CheckKeeps ==
    ASSUME CallsInv, NEW c \in Callers, Calls!Check(c)
    PROVE  CallsInv'
<1>1. call[c] \in GoingCall /\ call[c].pc \in Prepared
  BY GoingShape DEF CallsInv, Calls!Check, Prepared
<1>2. UNCHANGED <<file, graph, token, life, named, uuids, tools>>
  BY DEF Calls!Check, Calls!Catalog
<1>3. /\ "confirm" \in Prepared /\ "write" \in Prepared
      /\ "failed" \in Answers /\ "source_changed" \in Answers
  BY DEF Prepared, Answers
<1>4. CASE Calls!End(c, "failed") \/ Calls!End(c, "source_changed")
  BY <1>1, <1>2, <1>3, <1>4, PreparedEnds
<1>5. ASSUME NEW p \in {"confirm", "write"}, Calls!Go(c, [call[c] EXCEPT !.pc = p]), UNCHANGED temps
      PROVE  CallsInv'
  <2>1. p \in Prepared /\ UNCHANGED <<file, graph, token, life, named, uuids, temps, tools>>
    BY <1>2, <1>3, <1>5
  <2> QED
    BY <1>1, <1>5, <2>1, PreparedMoves
<1> QED
  BY <1>4, <1>5 DEF Calls!Check

LEMMA ConfirmKeeps ==
    ASSUME CallsInv, NEW c \in Callers, Calls!Confirm(c)
    PROVE  CallsInv'
<1>1. call[c] \in GoingCall /\ call[c].pc \in Prepared
  BY GoingShape DEF CallsInv, Calls!Confirm, Prepared
<1>2. UNCHANGED <<file, graph, token, life, named, uuids, temps, tools>>
  BY DEF Calls!Confirm, Calls!Catalog
<1>3. PICK p \in {"finish", "reread"} : Calls!Go(c, [call[c] EXCEPT !.pc = p])
  BY DEF Calls!Confirm
<1>4. p \in Prepared
  BY DEF Prepared
<1> QED
  BY <1>1, <1>2, <1>3, <1>4, PreparedMoves

LEMMA FinishKeeps ==
    ASSUME CallsInv, NEW c \in Callers, Calls!Finish(c)
    PROVE  CallsInv'
<1>1. call[c] \in GoingCall /\ call[c].pc \in Prepared
  BY GoingShape DEF CallsInv, Calls!Finish, Prepared
<1>2. UNCHANGED <<file, graph, token, life, named, uuids, tools>>
  BY DEF Calls!Finish, Calls!Catalog
<1>3. PICK a \in {"source_changed", "published"} : Calls!End(c, a)
  BY DEF Calls!Finish
<1>4. a \in Answers
  BY DEF Answers
<1> QED
  BY <1>1, <1>2, <1>3, <1>4, PreparedEnds

LEMMA RereadKeeps ==
    ASSUME CallsInv, NEW c \in Callers, Calls!Reread(c)
    PROVE  CallsInv'
<1>1. call[c] \in GoingCall /\ call[c].pc \in Prepared
  BY GoingShape DEF CallsInv, Calls!Reread, Prepared
<1>2. UNCHANGED <<file, graph, token, life, named, uuids, tools>> /\ c \notin tools
  BY <1>1, NoTool DEF Calls!Reread, Calls!Catalog, Prepared
<1>3. CASE /\ Calls!StillMine(call[c])
           /\ Calls!Go(c, [call[c] EXCEPT !.pc = "check", !.cur = graph, !.tries = 1])
           /\ UNCHANGED temps
  <2>1. PICK r : r = [call[c] EXCEPT !.pc = "check", !.cur = graph, !.tries = 1]
    OBVIOUS
  <2>2. graph \in Graph \cup {Nothing} /\ Authentic(graph) /\ CallKnows(call[c]) /\ call[c].pc \in Going
    BY <1>1 DEF CallsInv, CallsTypeOK, GoingCall
  <2>3. /\ r \in GoingCall /\ r.pc = "check" /\ r.content = call[c].content /\ r.gen = call[c].gen
        /\ r.snap = call[c].snap /\ r.cur = graph
    BY <1>1, <2>1, <2>2 DEF GoingCall, Going, Prepared
  <2>4. CallKnows(r)
    BY <1>1, <1>3, <2>2, <2>3 DEF CallKnows, Captured, Calls!StillMine
  <2>5. /\ call' = [call EXCEPT ![c] = r] /\ UNCHANGED <<file, graph, token, life, named, uuids>>
        /\ temps' \subseteq temps \cup {c} /\ tools' \subseteq tools /\ c \notin tools'
    BY <1>2, <1>3, <2>1 DEF Calls!Go
  <2> QED
    BY <1>1, <2>3, <2>4, <2>5, CallMoves
<1>4. ASSUME NEW a \in {"conflict", "stale"}, Calls!End(c, a)
      PROVE  CallsInv'
  <2>1. a \in Answers
    BY DEF Answers
  <2> QED
    BY <1>1, <1>2, <1>4, <2>1, PreparedEnds
<1> QED
  BY <1>3, <1>4 DEF Calls!Reread

\* The file or the catalog changes, with no generation but those claimed
\* before; at most a call learns that it wrote.
LEMMA WorldStep ==
    ASSUME CallsInv,
           file' \in Contents, graph' \in Graph \cup {Nothing}, token' \in Nat, life' \in Nat,
           named \subseteq named', named' \subseteq Claims, UNCHANGED <<uuids, temps, tools>>,
           call' \in [Callers -> {Calls!Idle} \cup GoingCall \cup EndedCall],
           \A d \in Callers :
               \/ call'[d] = call[d]
               \/ /\ call[d] \in GoingCall /\ call[d].pc \in Prepared
                  /\ call'[d] = [call[d] EXCEPT !.pc = "finish", !.wrote = TRUE],
           Authentic(graph)'
    PROVE  CallsInv'
<1> USE uuids' = uuids
<1>1. ASSUME NEW d \in Callers, call[d] \in GoingCall, call[d].pc \in Prepared,
             call'[d] = [call[d] EXCEPT !.pc = "finish", !.wrote = TRUE]
      PROVE  /\ call'[d].pc = "finish" /\ call'[d].gen = call[d].gen /\ call'[d].content = call[d].content
             /\ call'[d].snap = call[d].snap /\ call'[d].cur = call[d].cur
  BY <1>1 DEF GoingCall
<1>2. Claims' \subseteq Claims
  <2>1. \A d \in Callers : call'[d].pc \in Prepared => call[d].pc \in Prepared /\ Claim(d)' = Claim(d)
    BY <1>1 DEF Claim
  <2> QED
    BY <2>1 DEF Claims
<1>3. named' \in SUBSET (Generations \X Contents)
  <2>1. \A d \in Callers : call[d].pc \in Prepared => Claim(d) \in Generations \X Contents
    BY DEF CallsInv, CallKnows, Captured, Claim
  <2>2. named \subseteq Generations \X Contents
    BY DEF CallsInv, CallsTypeOK
  <2>3. Claims \subseteq Generations \X Contents
    <3> SUFFICES ASSUME NEW p \in Claims
                 PROVE  p \in Generations \X Contents
      OBVIOUS
    <3>1. p \in named \/ \E d \in Callers : call[d].pc \in Prepared /\ p = Claim(d)
      BY DEF Claims
    <3> QED
      BY <2>1, <2>2, <3>1
  <2> QED
    BY <2>3
<1>4. CallsTypeOK'
  BY <1>3 DEF CallsInv, CallsTypeOK
<1>5. OneContent' /\ Named'
  BY <1>2 DEF CallsInv, OneContent, Named
<1>6. \A d \in Callers : CallKnows(call[d])'
  <2> SUFFICES ASSUME NEW d \in Callers
               PROVE  CallKnows(call[d])'
    OBVIOUS
  <2>1. PICK s : s = call'[d]
    OBVIOUS
  <2>2. CallKnows(call[d])
    BY DEF CallsInv
  <2>3. CASE call'[d] = call[d]
    BY <2>2, <2>3 DEF CallKnows, Captured, Authentic
  <2>4. CASE /\ call[d] \in GoingCall /\ call[d].pc \in Prepared
             /\ call'[d] = [call[d] EXCEPT !.pc = "finish", !.wrote = TRUE]
    <3>1. CallKnows(s)
      BY <1>1, <2>1, <2>2, <2>4 DEF CallKnows, Captured, Going, Prepared
    <3> QED
      BY <2>1, <3>1 DEF CallKnows, Captured, Authentic
  <2> QED
    BY <2>3, <2>4
<1>7. Calls!NothingLeftBehind'
  <2>1. \A d \in Callers : call'[d] # call[d] => call[d].pc # "decode" /\ call'[d].pc = "finish"
    BY <1>1 DEF Prepared
  <2> QED
    BY <2>1 DEF CallsInv, CallsTypeOK, Calls!NothingLeftBehind
<1> QED
  BY <1>4, <1>5, <1>6, <1>7 DEF CallsInv

LEMMA ChangeFileKeeps ==
    ASSUME CallsInv, Calls!ChangeFile
    PROVE  CallsInv'
<1>1. CallsTypeOK /\ Authentic(graph)
  BY DEF CallsInv
<1>2. file' \in Contents /\ UNCHANGED <<graph, token, life, named, uuids, call, temps, tools>>
  BY DEF Calls!ChangeFile, Calls!Catalog
<1>3. Authentic(graph)'
  BY <1>1, <1>2 DEF Authentic
<1> QED
  BY <1>1, <1>2, <1>3, WorldStep DEF CallsTypeOK, Claims

LEMMA DeleteKeeps ==
    ASSUME CallsInv, Calls!Delete
    PROVE  CallsInv'
<1>1. CallsTypeOK
  BY DEF CallsInv
<1>2. graph' = Nothing /\ token' = token + 1 /\ life' = life + 1 /\ UNCHANGED <<file, named, uuids, call, temps, tools>>
  BY DEF Calls!Delete
<1>3. Authentic(graph)'
  BY <1>2 DEF Authentic
<1> QED
  BY <1>1, <1>2, <1>3, WorldStep DEF CallsTypeOK, Claims

LEMMA AnnotateKeeps ==
    ASSUME CallsInv, Calls!Annotate
    PROVE  CallsInv'
<1>1. CallsTypeOK /\ Authentic(graph) /\ graph \in Graph /\ graph # Nothing
  BY DEF CallsInv, CallsTypeOK, Calls!Annotate
<1>2. PICK g : g = [graph EXCEPT !.out["note"] = [from |-> graph.raw, gen |-> graph.gen], !.tok = token + 1]
  OBVIOUS
<1>3. graph' = g /\ token' = token + 1 /\ UNCHANGED <<file, life, named, uuids, call, temps, tools>>
  BY <1>2 DEF Calls!Annotate
<1>4. /\ g.raw = graph.raw /\ g.ref = graph.ref /\ g.gen = graph.gen /\ g.tok = token + 1
      /\ g.out = [graph.out EXCEPT !["note"] = [from |-> graph.raw, gen |-> graph.gen]]
      /\ g = [raw |-> g.raw, ref |-> g.ref, gen |-> g.gen, tok |-> g.tok, out |-> g.out]
  BY <1>1, <1>2 DEF Graph
<1>5. graph.out \in [Calls!Slots -> Output] /\ [from |-> graph.raw, gen |-> graph.gen] \in Output
  BY <1>1 DEF Graph, Output
<1>6. g.out \in [Calls!Slots -> Output]
  BY <1>4, <1>5
<1>7. g \in Graph
  <2>1. g.raw \in Contents /\ g.ref \in Refs /\ g.gen \in Generations /\ g.tok \in Nat
    BY <1>1, <1>4 DEF Graph, CallsTypeOK
  <2> QED
    BY <1>4, <1>6, <2>1 DEF Graph
<1>8. Authentic(g)
  <2>1. \A s \in Calls!Slots : g.out[s] = graph.out[s] \/ g.out[s] = [from |-> g.raw, gen |-> g.gen]
    BY <1>4, <1>5
  <2> QED
    BY <1>1, <1>4, <2>1 DEF Authentic
<1>9. Authentic(graph)'
  BY <1>3, <1>8 DEF Authentic
<1> QED
  BY <1>1, <1>3, <1>7, <1>9, WorldStep DEF CallsTypeOK, Claims

\* What a write puts into the catalog is a graph of the source the call
\* claims, or the graph that is there.
LEMMA WrittenGraph ==
    ASSUME CallsInv, NEW c \in Callers, call[c] \in GoingCall, call[c].pc \in Prepared,
           NEW g, g = Calls!Written(call[c].cur, call[c]), g # Nothing
    PROVE  /\ g \in Graph
           /\ <<g.gen, g.raw>> \in Claims
           /\ \A s \in Calls!Slots : g.out[s] # Nothing => g.out[s] = [from |-> g.raw, gen |-> g.gen]
<1>1. PICK r : r = call[c]
  OBVIOUS
<1>2. PICK cur : cur = r.cur
  OBVIOUS
<1>3. /\ r \in GoingCall /\ r.content \in Contents /\ r.gen \in Generations /\ token + 1 \in Nat
      /\ cur \in Graph \cup {Nothing} /\ Authentic(cur) /\ (r.snap # Nothing => cur # Nothing)
  <2>1. CallKnows(r) /\ r \in GoingCall /\ r.pc \in Prepared /\ token \in Nat
    BY <1>1 DEF CallsInv, CallsTypeOK
  <2> QED
    BY <1>2, <2>1 DEF CallKnows, Captured, GoingCall
<1>4. <<r.gen, r.content>> \in Claims /\ named \subseteq Claims
  BY <1>1 DEF Claims, Claim
<1>5. g = Calls!Written(cur, r)
  BY <1>1, <1>2
<1>6. CASE Calls!Replays(r)
  <2>1. cur \in Graph /\ cur # Nothing
    BY <1>3, <1>6 DEF Calls!Replays, Calls!SameSource
  <2>2. g = [cur EXCEPT !.tok = token + 1]
    BY <1>5, <1>6 DEF Calls!Written
  <2>3. g \in Graph /\ g.gen = cur.gen /\ g.raw = cur.raw /\ g.out = cur.out
    BY <1>3, <2>1, <2>2 DEF Graph
  <2> QED
    BY <1>3, <1>4, <2>1, <2>3 DEF Authentic
<1>7. CASE ~Calls!Replays(r)
  <2>1. PICK out : out = Calls!Reconciled(cur, r)
    OBVIOUS
  <2>2. g = [raw |-> r.content, ref |-> r.ref, gen |-> r.gen, tok |-> token + 1, out |-> out]
    BY <1>5, <1>7, <2>1 DEF Calls!Written
  <2>3. PICK o : o = [from |-> r.content, gen |-> r.gen]
    OBVIOUS
  <2>4. out = [s \in Calls!Slots |->
                 IF (IF s \in Calls!Produces(r) THEN o ELSE Nothing) # Nothing
                 THEN IF s \in Calls!Produces(r) THEN o ELSE Nothing
                 ELSE IF cur # Nothing /\ cur.gen = r.gen THEN cur.out[s] ELSE Nothing]
    BY <2>1, <2>3 DEF Calls!Reconciled
  <2>5. \A s \in Calls!Slots :
           out[s] \in {o, Nothing} \/ (cur # Nothing /\ cur.gen = r.gen /\ out[s] = cur.out[s])
    BY <2>4
  <2>6. ASSUME cur # Nothing, cur.gen = r.gen
        PROVE  /\ cur.raw = r.content /\ cur.out \in [Calls!Slots -> Output]
               /\ \A s \in Calls!Slots : cur.out[s] # Nothing => cur.out[s] = o
    <3>1. <<cur.gen, cur.raw>> \in Claims
      BY <1>3, <1>4, <2>6 DEF Authentic
    <3>2. cur.raw = r.content
      BY <1>4, <2>6, <3>1 DEF CallsInv, OneContent
    <3> QED
      BY <1>3, <2>3, <2>6, <3>2 DEF Authentic, Graph
  <2>7. \A s \in Calls!Slots : out[s] \in {o, Nothing}
    BY <2>5, <2>6
  <2>8. out \in [Calls!Slots -> Output]
    <3>1. o \in Output /\ Nothing \in Output
      BY <1>3, <2>3 DEF Output
    <3> QED
      BY <2>4, <2>7, <3>1
  <2>9. g \in Graph
    <3>1. r.ref \in Refs
      BY <1>3 DEF GoingCall
    <3> QED
      BY <1>3, <2>2, <2>8, <3>1 DEF Graph
  <2>10. g.gen = r.gen /\ g.raw = r.content /\ g.out = out
    BY <2>2
  <2> QED
    BY <1>4, <2>3, <2>7, <2>9, <2>10
<1> QED
  BY <1>6, <1>7

LEMMA WriteKeeps ==
    ASSUME CallsInv, NEW c \in Callers, Calls!Write(c)
    PROVE  CallsInv'
<1>1. call[c] \in GoingCall /\ call[c].pc \in Prepared /\ CallsTypeOK
  BY GoingShape DEF CallsInv, Calls!Write, Prepared
<1>2. UNCHANGED <<file, uuids, temps, tools>>
  BY DEF Calls!Write
<1>3. CASE Calls!Go(c, [call[c] EXCEPT !.pc = "reread"]) /\ UNCHANGED Calls!Catalog
  <2>1. "reread" \in Prepared /\ UNCHANGED <<file, graph, token, life, named, uuids, temps, tools>>
    BY <1>2, <1>3 DEF Calls!Catalog, Prepared
  <2> QED
    BY <1>1, <1>3, <2>1, PreparedMoves
<1>4. CASE /\ graph' = Calls!Written(call[c].cur, call[c])
           /\ token' = token + 1
           /\ named' = IF graph' = Nothing THEN named ELSE named \cup {<<graph'.gen, graph'.raw>>}
           /\ life' = IF call[c].cur = Nothing THEN life + 1 ELSE life
           /\ Calls!Go(c, [call[c] EXCEPT !.pc = "finish", !.wrote = TRUE])
  <2>1. PICK g : g = Calls!Written(call[c].cur, call[c])
    OBVIOUS
  <2>2. g # Nothing => /\ g \in Graph /\ <<g.gen, g.raw>> \in Claims
                       /\ \A s \in Calls!Slots : g.out[s] # Nothing => g.out[s] = [from |-> g.raw, gen |-> g.gen]
    BY <1>1, <2>1, WrittenGraph
  <2>3. graph' = g
    BY <1>4, <2>1
  <2>4. file' \in Contents /\ token' \in Nat /\ life' \in Nat /\ graph' \in Graph \cup {Nothing}
    BY <1>1, <1>2, <1>4, <2>2, <2>3 DEF CallsTypeOK
  <2>5. named \subseteq named' /\ named' \subseteq Claims
    BY <1>4, <2>2, <2>3 DEF Claims
  <2>6. PICK r : r = [call[c] EXCEPT !.pc = "finish", !.wrote = TRUE]
    OBVIOUS
  <2>7. r \in GoingCall /\ call' = [call EXCEPT ![c] = r]
    BY <1>1, <1>4, <2>6 DEF GoingCall, Going, Prepared, Calls!Go
  <2>8. /\ call' \in [Callers -> {Calls!Idle} \cup GoingCall \cup EndedCall]
        /\ \A d \in Callers : call'[d] = IF d = c THEN r ELSE call[d]
    BY <1>1, <2>7 DEF CallsTypeOK
  <2>9. \A d \in Callers :
           \/ call'[d] = call[d]
           \/ /\ call[d] \in GoingCall /\ call[d].pc \in Prepared
              /\ call'[d] = [call[d] EXCEPT !.pc = "finish", !.wrote = TRUE]
    BY <1>1, <2>6, <2>8
  <2>10. Authentic(graph)'
    BY <1>4, <2>2, <2>3 DEF Authentic
  <2>11. UNCHANGED <<uuids, temps, tools>>
    BY <1>2
  <2>12. call' \in [Callers -> {Calls!Idle} \cup GoingCall \cup EndedCall]
    BY <2>8
  <2> QED
    BY <2>4, <2>5, <2>9, <2>10, <2>11, <2>12, WorldStep
<1> QED
  BY <1>3, <1>4 DEF Calls!Write

\* What an earlier ingestion left is a graph of its own source.
LEMMA EarlierGraphs ==
    ASSUME NEW content \in Contents, NEW note \in BOOLEAN, NEW gen \in Generations,
           NEW slot \in {"visual", "native"},
           NEW g, g = Calls!EarlierGraph(slot, gen, content, note)
    PROVE  /\ g \in Graph /\ g.gen = gen /\ g.raw = content
           /\ \A s \in Calls!Slots : g.out[s] # Nothing => g.out[s] = [from |-> g.raw, gen |-> g.gen]
<1>1. PICK o : o = [from |-> content, gen |-> gen]
  OBVIOUS
<1>2. PICK out : out = [s \in Calls!Slots |-> IF s = slot \/ (s = "note" /\ note) THEN o ELSE Nothing]
  OBVIOUS
<1>3. o \in Output /\ Nothing \in Output
  BY <1>1 DEF Output
<1>4. out \in [Calls!Slots -> Output] /\ \A s \in Calls!Slots : out[s] # Nothing => out[s] = o
  BY <1>2, <1>3
<1>5. g = [raw |-> content, ref |-> Ref, gen |-> gen, tok |-> 1, out |-> out]
  BY <1>1, <1>2 DEF Calls!EarlierGraph
<1>6. Ref \in Refs /\ 1 \in Nat
  BY DEF Refs
<1> QED
  BY <1>1, <1>4, <1>5, <1>6 DEF Graph

LEMMA CallsInitially ==
    ASSUME Calls!Init
    PROVE  CallsInv
<1>1. \A c \in Callers : call[c] = Calls!Idle
  BY DEF Calls!Init
<1>2. Calls!Idle.pc = "idle"
  BY DEF Calls!Idle
<1>3. Claims = named
  BY <1>1, <1>2 DEF Claims, Prepared
<1>4. (\A c \in Callers : CallKnows(call[c])) /\ Calls!NothingLeftBehind
  BY <1>1, <1>2 DEF CallKnows, Captured, Prepared, Going, Calls!NothingLeftBehind, Calls!Init
<1>5. /\ file \in Contents /\ temps \in SUBSET Callers /\ tools \in SUBSET Callers
      /\ call \in [Callers -> {Calls!Idle} \cup GoingCall \cup EndedCall]
  BY DEF Calls!Init
<1>6. CASE graph = Nothing
  <2>1. named = {} /\ life \in Nat /\ uuids \in Nat /\ token \in Nat
    <3>1. named = {} /\ token = life
      BY <1>6 DEF Calls!Init
    <3>2. (life = 0 /\ uuids = 0) \/ (life = 1 /\ uuids = 1)
      BY DEF Calls!Init
    <3> QED
      BY <3>1, <3>2
  <2> QED
    BY <1>3, <1>4, <1>5, <1>6, <2>1 DEF CallsInv, CallsTypeOK, OneContent, Named, Authentic
<1>7. ASSUME graph # Nothing, NEW content \in Contents, NEW note \in BOOLEAN, NEW slot \in {"visual", "native"},
             NEW gen \in Generations, gen = <<"uuid", 1>> \/ gen = <<"sha", content>>,
             life = 1, uuids = 1, graph = Calls!EarlierGraph(slot, gen, content, note)
      PROVE  CallsInv
  <2>1. /\ graph \in Graph /\ graph.gen = gen /\ graph.raw = content
        /\ \A s \in Calls!Slots : graph.out[s] # Nothing => graph.out[s] = [from |-> graph.raw, gen |-> graph.gen]
    BY <1>7, EarlierGraphs
  <2>2. named = {<<gen, content>>} /\ token = 1
    BY <1>7, <2>1 DEF Calls!Init
  <2>3. CallsTypeOK
    BY <1>5, <1>7, <2>1, <2>2 DEF CallsTypeOK
  <2>4. OneContent /\ Named
    <3>1. 1 \in 1 .. uuids
      BY <1>7
    <3> QED
      BY <1>3, <1>7, <2>2, <3>1 DEF OneContent, Named
  <2>5. Authentic(graph)
    BY <2>1, <2>2 DEF Authentic
  <2> QED
    BY <1>4, <2>3, <2>4, <2>5 DEF CallsInv
<1>8. ASSUME NEW content \in Contents
      PROVE  <<"uuid", 1>> \in Generations /\ <<"sha", content>> \in Generations
  BY DEF Generations
<1> QED
  BY <1>6, <1>7, <1>8 DEF Calls!Init

LEMMA CallsKept ==
    ASSUME IngestionAssumption, CallsInv, [Calls!Next]_callVars
    PROVE  CallsInv'
<1>1. ASSUME NEW c \in Callers, Calls!Work(c)
      PROVE  CallsInv'
  BY <1>1, StartKeeps, CaptureKeeps, ReadKeeps, RunToolKeeps, ToolEndsKeeps, PrepareKeeps,
     CheckKeeps, ConfirmKeeps, WriteKeeps, RereadKeeps, FinishKeeps DEF Calls!Work
<1>2. CASE UNCHANGED callVars
  <2>1. UNCHANGED <<file, graph, token, life, uuids, call, temps, tools, named>>
    BY <1>2 DEF callVars
  <2>2. CallsTypeOK /\ Authentic(graph)
    BY DEF CallsInv
  <2>3. Authentic(graph)'
    BY <2>1, <2>2 DEF Authentic
  <2> QED
    BY <2>1, <2>2, <2>3, WorldStep DEF CallsTypeOK, Claims
<1> QED
  BY <1>1, <1>2, ChangeFileKeeps, AnnotateKeeps, DeleteKeeps DEF Calls!Next

\* The inductive invariant gives what Ingestion promises of the calls.
LEMMA CallsSourcesTrue ==
    ASSUME CallsInv
    PROVE  SourcesTrue
<1>1. named \subseteq Claims
  BY DEF Claims
<1> QED
  BY <1>1 DEF CallsInv, OneContent, Authentic, SourcesTrue, Calls!SourcesTrue

(***************************************************************************)
(* Whatever the file, the other callers and the tools do, every output of  *)
(* the graph in the catalog was made from the bytes its provenance names,  *)
(* no generation ever stands for two contents, and no call leaves a copy   *)
(* of the file or a decoder process behind.                                *)
(***************************************************************************)
THEOREM CallsKeepSourcesTrue ==
    ASSUME IngestionAssumption
    PROVE  Calls!Spec => []SourcesTrue
<1>1. Calls!Init => CallsInv
  BY CallsInitially
<1>2. CallsInv /\ [Calls!Next]_(Calls!vars) => CallsInv'
  BY IngestionAssumption, CallsKept DEF Calls!vars, callVars
<1>3. CallsInv => SourcesTrue
  BY CallsSourcesTrue
<1> QED
  BY <1>1, <1>2, <1>3, PTL DEF Calls!Spec

\* A published graph has only the slots its operation produces replaced.
LEMMA WriteKeepsNote ==
    ASSUME CallsInv, NEW c \in Callers, Calls!Write(c), graph = call[c].cur,
           graph # Nothing, graph' = Calls!Written(call[c].cur, call[c]),
           graph' # Nothing, graph'.gen = graph.gen
    PROVE  graph'.out["note"] = graph.out["note"]
<1>1. PICK r : r = call[c]
  OBVIOUS
<1>2. r \in GoingCall /\ graph \in Graph
  BY <1>1, GoingShape DEF CallsInv, CallsTypeOK, Calls!Write
<1>3. PICK g : g = Calls!Written(graph, r)
  OBVIOUS
<1>4. graph' = g
  BY <1>1, <1>3
<1>5. CASE Calls!Replays(r)
  <2>1. g = [graph EXCEPT !.tok = token + 1]
    BY <1>3, <1>5 DEF Calls!Written
  <2> QED
    BY <1>2, <1>4, <2>1 DEF Graph
<1>6. CASE ~Calls!Replays(r)
  <2>1. PICK out : out = Calls!Reconciled(graph, r)
    OBVIOUS
  <2>2. g = [raw |-> r.content, ref |-> r.ref, gen |-> r.gen, tok |-> token + 1, out |-> out]
    BY <1>3, <1>4, <1>6, <2>1 DEF Calls!Written
  <2>3. graph.gen = r.gen
    BY <1>4, <2>2
  <2>4. "note" \in Calls!Slots /\ "note" \notin Calls!Produces(r)
    BY <1>2 DEF Calls!Slots, Calls!Produces, GoingCall
  <2>5. out["note"] = graph.out["note"]
    BY <2>1, <2>3, <2>4 DEF Calls!Reconciled
  <2> QED
    BY <1>4, <2>2, <2>5
<1> QED
  BY <1>5, <1>6

LEMMA OthersAreKept ==
    ASSUME CallsInv, [Calls!Next]_callVars
    PROVE  Calls!OthersKept
<1> SUFFICES ASSUME NEW c \in Callers, call[c].pc = "write", call'[c].pc = "finish"
             PROVE  /\ graph = call[c].cur
                    /\ (graph # Nothing /\ graph' # Nothing /\ graph'.gen = graph.gen) =>
                            graph'.out["note"] = graph.out["note"]
  BY DEF Calls!OthersKept
<1>0. call \in [Callers -> {Calls!Idle} \cup GoingCall \cup EndedCall] /\ call[c] \in GoingCall /\ c \notin tools
  BY GoingShape, NoTool DEF CallsInv, CallsTypeOK
<1>1. Calls!Write(c)
  <2>1. call' # call
    OBVIOUS
  <2>2. PICK d \in Callers : Calls!Work(d)
    BY <2>1 DEF Calls!Next, callVars, Calls!ChangeFile, Calls!Annotate, Calls!Delete
  <2>3. \E r : call' = [call EXCEPT ![d] = r]
    <3>1. ASSUME NEW r, Calls!Go(d, r)
          PROVE  \E q : call' = [call EXCEPT ![d] = q]
      BY <3>1 DEF Calls!Go
    <3>2. ASSUME NEW a, Calls!End(d, a)
          PROVE  \E q : call' = [call EXCEPT ![d] = q]
      BY <3>2, <3>1 DEF Calls!End
    <3>3. ~Calls!RunTool(d)
      BY <2>1 DEF Calls!RunTool
    <3> QED
      BY <2>2, <3>1, <3>2, <3>3 DEF Calls!Work, Calls!Start, Calls!Capture, Calls!Read, Calls!ToolEnds,
         Calls!Prepare, Calls!Check, Calls!Confirm, Calls!Write, Calls!Reread, Calls!Finish
  <2>4. d = c
    BY <1>0, <2>3
  <2> QED
    BY <1>0, <2>2, <2>4 DEF Calls!Work, Calls!Start, Calls!Capture, Calls!Read, Calls!ToolEnds, Calls!RunTool,
       Calls!Prepare, Calls!Check, Calls!Confirm, Calls!Reread, Calls!Finish
<1>2. call'[c] # [call[c] EXCEPT !.pc = "reread"]
  <2>1. [call[c] EXCEPT !.pc = "reread"].pc = "reread"
    BY <1>0 DEF GoingCall
  <2> QED
    BY <2>1
<1>3. graph = call[c].cur /\ graph' = Calls!Written(call[c].cur, call[c])
  BY <1>0, <1>1, <1>2 DEF Calls!Write, Calls!Go
<1> QED
  BY <1>1, <1>3, WriteKeepsNote

-----------------------------------------------------------------------------
(***************************************************************************)
(* Image preparation.  What a recursive function returns is shown by       *)
(* induction, which rests on the well-founded order of the finite sets of  *)
(* naturals: of the sets 0 .. n the least is the one of the least n.       *)
(***************************************************************************)

LEMMA LeastNatural ==
    ASSUME NEW T, T \subseteq Nat, T # {}
    PROVE  \E m \in T : \A n \in T : m <= n
<1> DEFINE Below == {0 .. n : n \in T}
<1>1. Below \subseteq FiniteSubsetsOf(Nat)
  <2> SUFFICES ASSUME NEW n \in T
               PROVE  0 .. n \in FiniteSubsetsOf(Nat)
    OBVIOUS
  <2>1. IsFiniteSet(0 .. n) /\ 0 .. n \subseteq Nat
    BY FS_Interval
  <2> QED
    BY <2>1 DEF FiniteSubsetsOf
<1>2. Below # {}
  OBVIOUS
<1>3. PICK B \in Below : \A C \in Below : <<C, B>> \notin StrictSubsetOrdering(Nat)
  <2> HIDE DEF Below
  <2> QED
    BY <1>1, <1>2, FS_StrictSubsetOrderingWellFounded, WFMin
<1>4. PICK m \in T : B = 0 .. m
  OBVIOUS
<1>5. ASSUME NEW n \in T, n < m
      PROVE  FALSE
  <2>1. 0 .. n \in Below /\ 0 .. n \in SUBSET Nat /\ 0 .. m \in SUBSET Nat
    OBVIOUS
  <2>2. 0 .. n \subseteq 0 .. m /\ 0 .. n # 0 .. m
    BY <1>5
  <2>3. <<0 .. n, 0 .. m>> \in StrictSubsetOrdering(Nat)
    BY <2>1, <2>2 DEF StrictSubsetOrdering
  <2> QED
    BY <1>3, <1>4, <2>1, <2>3
<1> QED
  BY <1>5

LEMMA Induction ==
    ASSUME NEW S, 0 \in S, \A n \in Nat : n \in S => n + 1 \in S
    PROVE  Nat \subseteq S
<1> SUFFICES ASSUME Nat \ S # {}
             PROVE  FALSE
  OBVIOUS
<1>1. PICK m \in Nat \ S : \A n \in Nat \ S : m <= n
  BY LeastNatural
<1>2. m # 0 /\ m - 1 \in Nat /\ m - 1 \in S
  BY <1>1
<1> QED
  BY <1>2

\* The least of a set of naturals, as Min chooses it.
LEMMA MinOfNaturals ==
    ASSUME NEW T, T \subseteq Nat, T # {}
    PROVE  Preparing!Min(T) \in T /\ \A n \in T : Preparing!Min(T) <= n
BY LeastNatural DEF Preparing!Min

\* f adds up the bytes of the keys in s from the first to each of them.
Adds(f, s) ==
    /\ f \in [0 .. Len(s) -> Int] /\ f[0] = 0
    /\ \A n \in 1 .. Len(s) : f[n] = f[n - 1] + Size[s[n]]

LEMMA AddsExists ==
    ASSUME IngestionAssumption, NEW s \in Seq(Keys)
    PROVE  \E f : Adds(f, s)
<1>0. Size \in [Keys -> Nat] /\ Len(s) \in Nat /\ s \in [1 .. Len(s) -> Keys]
  BY DEF IngestionAssumption, Preparing!PicturesAssumption
<1> DEFINE Upto(f, m) == /\ f \in [0 .. m -> Int] /\ f[0] = 0
                         /\ \A n \in 1 .. m : f[n] = f[n - 1] + Size[s[n]]
           S == {m \in Nat : m <= Len(s) => \E f : Upto(f, m)}
<1> HIDE DEF Upto
<1>1. 0 \in S
  <2>1. PICK f : f = [n \in 0 .. 0 |-> 0]
    OBVIOUS
  <2>2. Upto(f, 0)
    BY <2>1 DEF Upto
  <2> QED
    BY <2>2
<1>2. ASSUME NEW m \in Nat, m \in S
      PROVE  m + 1 \in S
  <2> SUFFICES ASSUME m + 1 <= Len(s)
               PROVE  \E f : Upto(f, m + 1)
    OBVIOUS
  <2>1. PICK f : Upto(f, m)
    BY <1>0, <1>2
  <2>2. PICK g : g = [n \in 0 .. m + 1 |-> IF n = m + 1 THEN f[m] + Size[s[m + 1]] ELSE f[n]]
    OBVIOUS
  <2>3. Size[s[m + 1]] \in Int /\ f[m] \in Int
    BY <1>0, <2>1 DEF Upto
  <2>4. g \in [0 .. m + 1 -> Int] /\ g[0] = 0
    BY <2>1, <2>2, <2>3 DEF Upto
  <2>5. \A n \in 1 .. m + 1 : g[n] = g[n - 1] + Size[s[n]]
    <3> SUFFICES ASSUME NEW n \in 1 .. m + 1
                 PROVE  g[n] = g[n - 1] + Size[s[n]]
      OBVIOUS
    <3>1. g[n - 1] = f[n - 1]
      BY <2>2
    <3>2. CASE n = m + 1
      BY <2>2, <3>1, <3>2
    <3>3. CASE n # m + 1
      BY <2>1, <2>2, <3>1, <3>3 DEF Upto
    <3> QED
      BY <3>2, <3>3
  <2>6. Upto(g, m + 1)
    BY <2>4, <2>5 DEF Upto
  <2> QED
    BY <2>6
<1>3. Nat \subseteq S
  <2> HIDE DEF S
  <2> QED
    BY <1>1, <1>2, Induction
<1>4. \E f : Upto(f, Len(s))
  BY <1>0, <1>3
<1> QED
  BY <1>4 DEF Adds, Upto

\* Two such functions agree wherever both are defined.
LEMMA AddsAgree ==
    ASSUME IngestionAssumption, NEW s \in Seq(Keys), NEW f, NEW g, NEW m \in 0 .. Len(s),
           f[0] = g[0], \A n \in 1 .. m : f[n] = f[n - 1] + Size[s[n]] /\ g[n] = g[n - 1] + Size[s[n]]
    PROVE  f[m] = g[m]
<1> DEFINE S == {n \in Nat : n <= m => f[n] = g[n]}
<1>1. 0 \in S
  OBVIOUS
<1>2. ASSUME NEW n \in Nat, n \in S
      PROVE  n + 1 \in S
  <2> SUFFICES ASSUME n + 1 <= m
               PROVE  f[n + 1] = g[n + 1]
    OBVIOUS
  <2>1. n + 1 \in 1 .. m /\ (n + 1) - 1 = n /\ f[n] = g[n]
    BY <1>2
  <2>2. f[n + 1] = f[n] + Size[s[n + 1]] /\ g[n + 1] = g[n] + Size[s[n + 1]]
    BY <2>1
  <2> QED
    BY <2>1, <2>2
<1>3. Nat \subseteq S
  <2> HIDE DEF S
  <2> QED
    BY <1>1, <1>2, Induction
<1> QED
  BY <1>3

\* What BytesOf computes is the last of the sums.
LEMMA BytesAdded ==
    ASSUME IngestionAssumption, NEW s \in Seq(Keys), NEW f, Adds(f, s)
    PROVE  Preparing!BytesOf(s) = f[Len(s)]
<1> DEFINE IsSum(g) == g = [n \in 0 .. Len(s) |-> IF n = 0 THEN 0 ELSE g[n - 1] + Size[s[n]]]
<1>1. Preparing!BytesOf(s) = (CHOOSE g : IsSum(g))[Len(s)]
  BY DEF Preparing!BytesOf
<1>2. IsSum(f)
  <2>1. f = [n \in 0 .. Len(s) |-> f[n]]
    BY DEF Adds
  <2>2. \A n \in 0 .. Len(s) : f[n] = IF n = 0 THEN 0 ELSE f[n - 1] + Size[s[n]]
    BY DEF Adds
  <2> QED
    BY <2>1, <2>2
<1>3. PICK g : g = (CHOOSE h : IsSum(h)) /\ IsSum(g)
  <2> HIDE DEF IsSum
  <2> QED
    BY <1>2
<1>4. Len(s) \in 0 .. Len(s) /\ f[0] = g[0]
  <2>1. Len(s) \in Nat
    OBVIOUS
  <2>2. 0 \in 0 .. Len(s) /\ Len(s) \in 0 .. Len(s)
    BY <2>1
  <2>3. g = [n \in 0 .. Len(s) |-> IF n = 0 THEN 0 ELSE g[n - 1] + Size[s[n]]]
    BY <1>3
  <2>4. g[0] = 0
    BY ONLY <2>2, <2>3
  <2> QED
    BY <2>2, <2>4 DEF Adds
<1>5. \A n \in 1 .. Len(s) : f[n] = f[n - 1] + Size[s[n]] /\ g[n] = g[n - 1] + Size[s[n]]
  <2> SUFFICES ASSUME NEW n \in 1 .. Len(s)
               PROVE  f[n] = f[n - 1] + Size[s[n]] /\ g[n] = g[n - 1] + Size[s[n]]
    OBVIOUS
  <2>1. n \in 0 .. Len(s) /\ n # 0
    OBVIOUS
  <2>2. g = [i \in 0 .. Len(s) |-> IF i = 0 THEN 0 ELSE g[i - 1] + Size[s[i]]]
    BY <1>3
  <2>3. g[n] = IF n = 0 THEN 0 ELSE g[n - 1] + Size[s[n]]
    BY <2>1, <2>2
  <2> QED
    BY <2>1, <2>3 DEF Adds
<1>6. f[Len(s)] = g[Len(s)]
  BY IngestionAssumption, <1>4, <1>5, AddsAgree
<1> QED
  BY <1>1, <1>3, <1>6

LEMMA BytesOfNothing ==
    ASSUME IngestionAssumption
    PROVE  Preparing!BytesOf(<<>>) = 0
<1>1. PICK f : f = [n \in 0 .. 0 |-> 0]
  OBVIOUS
<1>2. PICK s : s = <<>>
  OBVIOUS
<1>3. s \in Seq(Keys) /\ Len(s) = 0
  BY <1>2
<1>4. Adds(f, s) /\ f[Len(s)] = 0
  BY <1>1, <1>3 DEF Adds
<1>5. Preparing!BytesOf(s) = f[Len(s)]
  BY IngestionAssumption, <1>3, <1>4, BytesAdded
<1> QED
  BY <1>2, <1>4, <1>5

\* The bytes of two sequences one after the other.
LEMMA BytesOfBoth ==
    ASSUME IngestionAssumption, NEW s \in Seq(Keys), NEW t \in Seq(Keys)
    PROVE  /\ Preparing!BytesOf(s \o t) = Preparing!BytesOf(s) + Preparing!BytesOf(t)
           /\ Preparing!BytesOf(s) \in Int
<1>1. PICK u : u = s \o t
  OBVIOUS
<1>2. /\ u \in Seq(Keys) /\ Len(u) = Len(s) + Len(t) /\ Len(s) \in Nat /\ Len(t) \in Nat
      /\ \A n \in 1 .. Len(s) : u[n] = s[n]
      /\ \A n \in 1 .. Len(t) : u[Len(s) + n] = t[n]
  BY <1>1
<1>3. PICK f : Adds(f, u)
  BY IngestionAssumption, <1>2, AddsExists
<1>4. PICK g : g = [n \in 0 .. Len(s) |-> f[n]]
  OBVIOUS
<1>5. PICK h : h = [n \in 0 .. Len(t) |-> f[Len(s) + n] - f[Len(s)]]
  OBVIOUS
<1>6. Adds(g, s)
  <2>1. g \in [0 .. Len(s) -> Int] /\ g[0] = 0
    BY <1>2, <1>3, <1>4 DEF Adds
  <2>2. ASSUME NEW n \in 1 .. Len(s)
        PROVE  g[n] = g[n - 1] + Size[s[n]]
    <3>1. n \in 1 .. Len(u) /\ n \in 0 .. Len(s) /\ n - 1 \in 0 .. Len(s)
      BY <1>2
    <3>2. f[n] = f[n - 1] + Size[s[n]]
      BY <1>2, <1>3, <3>1 DEF Adds
    <3> QED
      BY <1>4, <3>1, <3>2
  <2> QED
    BY <2>1, <2>2 DEF Adds
<1>7. Adds(h, t)
  <2>1. \A n \in 0 .. Len(t) : Len(s) + n \in 0 .. Len(u) /\ f[Len(s) + n] \in Int /\ f[Len(s)] \in Int
    BY <1>2, <1>3 DEF Adds
  <2>2. h \in [0 .. Len(t) -> Int]
    <3>1. \A n \in 0 .. Len(t) : f[Len(s) + n] - f[Len(s)] \in Int
      BY <2>1
    <3> QED
      BY <1>5, <3>1
  <2>4. h[0] = 0
    <3>1. 0 \in 0 .. Len(t) /\ Len(s) + 0 = Len(s) /\ f[Len(s)] \in Int
      BY <1>2, <2>1
    <3>2. h[0] = f[Len(s) + 0] - f[Len(s)]
      BY <1>5, <3>1
    <3> QED
      BY <3>1, <3>2
  <2>3. ASSUME NEW n \in 1 .. Len(t)
        PROVE  h[n] = h[n - 1] + Size[t[n]]
    <3>1. Len(s) + n \in 1 .. Len(u) /\ n \in 0 .. Len(t) /\ n - 1 \in 0 .. Len(t) /\ (Len(s) + n) - 1 = Len(s) + (n - 1)
      BY <1>2
    <3>2. f[Len(s) + n] = f[(Len(s) + n) - 1] + Size[u[Len(s) + n]]
      BY <1>3, <3>1 DEF Adds
    <3>3. f[Len(s) + n] = f[Len(s) + (n - 1)] + Size[t[n]]
      BY <1>2, <3>1, <3>2
    <3>4. h[n] = f[Len(s) + n] - f[Len(s)] /\ h[n - 1] = f[Len(s) + (n - 1)] - f[Len(s)]
      BY <1>5, <3>1
    <3>5. Size[t[n]] \in Int
      BY DEF IngestionAssumption, Preparing!PicturesAssumption
    <3>6. f[Len(s) + n] \in Int /\ f[Len(s) + (n - 1)] \in Int /\ f[Len(s)] \in Int
      BY <2>1, <3>1
    <3> QED
      BY <3>3, <3>4, <3>5, <3>6
  <2> QED
    BY <2>2, <2>3, <2>4 DEF Adds
<1>8. /\ Preparing!BytesOf(u) = f[Len(u)] /\ Preparing!BytesOf(s) = g[Len(s)]
      /\ Preparing!BytesOf(t) = h[Len(t)]
  BY IngestionAssumption, <1>2, <1>3, <1>6, <1>7, BytesAdded
<1>9. /\ f[Len(u)] \in Int /\ f[Len(s)] \in Int /\ g[Len(s)] = f[Len(s)] /\ h[Len(t)] = f[Len(u)] - f[Len(s)]
  <2>1. Len(u) \in 0 .. Len(u) /\ Len(s) \in 0 .. Len(u) /\ Len(s) \in 0 .. Len(s) /\ Len(t) \in 0 .. Len(t)
    BY <1>2
  <2>2. f[Len(u)] \in Int /\ f[Len(s)] \in Int
    BY <1>3, <2>1 DEF Adds
  <2>3. g[Len(s)] = f[Len(s)] /\ h[Len(t)] = f[Len(s) + Len(t)] - f[Len(s)]
    BY <1>4, <1>5, <2>1
  <2> QED
    BY <1>2, <2>2, <2>3
<1> QED
  BY <1>1, <1>8, <1>9

LEMMA BytesOfOne ==
    ASSUME IngestionAssumption, NEW k \in Keys
    PROVE  Preparing!BytesOf(<<k>>) = Size[k]
<1>1. PICK f : f = [n \in 0 .. 1 |-> IF n = 0 THEN 0 ELSE Size[k]]
  OBVIOUS
<1>2. Size[k] \in Int /\ <<k>> \in Seq(Keys) /\ Len(<<k>>) = 1 /\ <<k>>[1] = k
  BY DEF IngestionAssumption, Preparing!PicturesAssumption
<1>3. Adds(f, <<k>>)
  BY <1>1, <1>2 DEF Adds
<1>4. Preparing!BytesOf(<<k>>) = f[Len(<<k>>)]
  BY IngestionAssumption, <1>2, <1>3, BytesAdded
<1> QED
  BY <1>1, <1>2, <1>4

\* Each key once.
Once(s) == \A i, j \in 1 .. Len(s) : s[i] = s[j] => i = j

\* What Without leaves of a cache that holds each key once.
LeavesKey(t, s, k) ==
    /\ t \in Seq(Keys) /\ Once(t) /\ \A i \in 1 .. Len(t) : t[i] # k
    /\ IF k \in Preparing!ToSet(s)
       THEN Len(t) = Len(s) - 1 /\ Preparing!BytesOf(t) = Preparing!BytesOf(s) - Size[k]
       ELSE t = s

LEMMA WithoutKey ==
    ASSUME IngestionAssumption, NEW s \in Seq(Keys), Once(s), NEW k \in Keys,
           NEW t, t = Preparing!Without(s, k)
    PROVE  LeavesKey(t, s, k)
<1>0. Len(s) \in Nat /\ DOMAIN s = 1 .. Len(s) /\ Size[k] \in Int
  BY DEF IngestionAssumption, Preparing!PicturesAssumption
<1>1. CASE k \notin Preparing!ToSet(s)
  <2>1. \A i \in 1 .. Len(s) : s[i] # k
    BY <1>0, <1>1 DEF Preparing!ToSet
  <2>2. t = s
    BY <2>1 DEF Preparing!Without, Preparing!RemoveFirst
  <2> QED
    BY <1>1, <2>1, <2>2 DEF LeavesKey
<1>2. CASE k \in Preparing!ToSet(s)
  <2>1. PICK I : I = {i \in 1 .. Len(s) : s[i] = k}
    OBVIOUS
  <2>2. I \subseteq Nat /\ I # {}
    BY <1>0, <1>2, <2>1 DEF Preparing!ToSet
  <2>3. PICK m : m = Preparing!Min(I)
    OBVIOUS
  <2>4. m \in 1 .. Len(s) /\ s[m] = k
    BY <2>1, <2>2, <2>3, MinOfNaturals
  <2>5. t = SubSeq(s, 1, m - 1) \o SubSeq(s, m + 1, Len(s))
    <3>1. Preparing!SelectInSeq(s, LAMBDA v : v = k) = m
      BY <2>1, <2>2, <2>3 DEF Preparing!SelectInSeq
    <3>2. t = Preparing!RemoveAt(s, Preparing!SelectInSeq(s, LAMBDA v : v = k))
      BY <2>4 DEF Preparing!Without, Preparing!RemoveFirst
    <3> QED
      BY <3>1, <3>2 DEF Preparing!RemoveAt
  <2>6. PICK a : a = SubSeq(s, 1, m - 1)
    OBVIOUS
  <2>7. PICK b : b = SubSeq(s, m + 1, Len(s))
    OBVIOUS
  <2>8. a \in Seq(Keys) /\ Len(a) = m - 1 /\ \A i \in 1 .. Len(a) : a[i] = s[i]
    BY <1>0, <2>4, <2>6
  <2>9. b \in Seq(Keys) /\ Len(b) = Len(s) - m /\ \A i \in 1 .. Len(b) : b[i] = s[m + i]
    <3>1. PICK n : n = Len(s)
      OBVIOUS
    <3>2. m \in Int /\ m + 1 \in Int /\ n \in Int /\ m <= n /\ \A i \in m + 1 .. n : s[i] \in Keys
      BY <1>0, <2>4, <3>1
    <3>3. /\ b \in Seq(Keys) /\ Len(b) = (IF m + 1 <= n THEN n - (m + 1) + 1 ELSE 0)
          /\ \A i \in 1 .. n - (m + 1) + 1 : b[i] = s[(m + 1) + i - 1]
      BY <2>7, <3>1, <3>2, SubSeqProperties
    <3>4. (IF m + 1 <= n THEN n - (m + 1) + 1 ELSE 0) = n - m /\ n - (m + 1) + 1 = n - m
      BY ONLY <3>2
    <3>5. \A i \in 1 .. n - m : (m + 1) + i - 1 = m + i
      BY ONLY <3>2
    <3>6. Len(b) = n - m
      BY <3>3, <3>4
    <3>7. \A i \in 1 .. n - m : b[i] = s[m + i]
      <4> SUFFICES ASSUME NEW i \in 1 .. n - m
                   PROVE  b[i] = s[m + i]
        OBVIOUS
      <4>1. i \in 1 .. n - (m + 1) + 1
        BY <3>4
      <4>2. b[i] = s[(m + 1) + i - 1]
        BY <3>3, <4>1
      <4> QED
        BY <3>5, <4>2
    <3> QED
      BY <3>1, <3>3, <3>6, <3>7
  <2>10. /\ t \in Seq(Keys) /\ Len(t) = Len(s) - 1
         /\ \A i \in 1 .. Len(t) : t[i] = IF i < m THEN s[i] ELSE s[i + 1]
    <3>1. /\ t \in Seq(Keys) /\ Len(t) = Len(a) + Len(b)
          /\ \A i \in 1 .. Len(a) + Len(b) : t[i] = IF i <= Len(a) THEN a[i] ELSE b[i - Len(a)]
      BY <2>5, <2>6, <2>7, <2>8, <2>9, ConcatProperties
    <3>2. Len(t) = Len(s) - 1
      BY <1>0, <2>4, <2>8, <2>9, <3>1
    <3>3. ASSUME NEW i \in 1 .. Len(t)
          PROVE  t[i] = IF i < m THEN s[i] ELSE s[i + 1]
      <4>1. CASE i < m
        BY <1>0, <2>4, <2>8, <3>1, <4>1
      <4>2. CASE i >= m
        <5>1. i - Len(a) \in 1 .. Len(b) /\ m + (i - Len(a)) = i + 1 /\ ~(i <= Len(a)) /\ ~(i < m) /\ i \in 1 .. Len(a) + Len(b)
          BY <1>0, <2>4, <2>8, <2>9, <3>1, <3>2, <4>2
        <5>2. t[i] = b[i - Len(a)]
          BY <3>1, <5>1
        <5>3. b[i - Len(a)] = s[i + 1]
          BY <2>9, <5>1
        <5> QED
          BY <5>1, <5>2, <5>3
      <4> QED
        BY <1>0, <2>4, <3>3, <4>1, <4>2
    <3> QED
      BY <3>1, <3>2, <3>3
  <2>11. Once(t) /\ \A i \in 1 .. Len(t) : t[i] # k
    <3>1. \A i \in 1 .. Len(t) : \E n \in 1 .. Len(s) : t[i] = s[n] /\ n # m /\ n = IF i < m THEN i ELSE i + 1
      BY <1>0, <2>4, <2>10
    <3>2. \A i \in 1 .. Len(t) : t[i] # k
      BY <2>4, <3>1 DEF Once
    <3>3. \A i, j \in 1 .. Len(t) : t[i] = t[j] => i = j
      BY <1>0, <2>4, <2>10, <3>1 DEF Once
    <3> QED
      BY <3>2, <3>3 DEF Once
  <2>12. s = (a \o <<k>>) \o b
    <3>1. PICK u : u = a \o <<k>>
      OBVIOUS
    <3>2. u \in Seq(Keys) /\ Len(u) = m /\ \A i \in 1 .. m : u[i] = s[i]
      BY <1>0, <2>4, <2>8, <3>1
    <3>3. PICK v : v = u \o b
      OBVIOUS
    <3>4. /\ v \in Seq(Keys) /\ Len(v) = Len(u) + Len(b)
          /\ \A i \in 1 .. Len(u) + Len(b) : v[i] = IF i <= Len(u) THEN u[i] ELSE b[i - Len(u)]
      BY <2>9, <3>2, <3>3, ConcatProperties
    <3>5. Len(v) = Len(s)
      BY <1>0, <2>4, <2>9, <3>2, <3>4
    <3>6. ASSUME NEW i \in 1 .. Len(s)
          PROVE  v[i] = s[i]
      <4>1. CASE i <= m
        BY <1>0, <2>4, <2>9, <3>2, <3>4, <3>5, <4>1
      <4>2. CASE i > m
        <5>1. i - Len(u) \in 1 .. Len(b) /\ m + (i - Len(u)) = i /\ ~(i <= Len(u)) /\ i \in 1 .. Len(u) + Len(b)
          BY <1>0, <2>4, <2>9, <3>2, <4>2
        <5> QED
          BY <2>9, <3>4, <5>1
      <4> QED
        BY <1>0, <2>4, <4>1, <4>2
    <3>7. v = s
      BY <3>4, <3>5, <3>6, SeqEqual
    <3> QED
      BY <3>1, <3>3, <3>7
  <2>13. Preparing!BytesOf(t) = Preparing!BytesOf(s) - Size[k]
    <3>1. a \o <<k>> \in Seq(Keys) /\ <<k>> \in Seq(Keys)
      BY <2>8
    <3>2. Preparing!BytesOf(s) = Preparing!BytesOf(a \o <<k>>) + Preparing!BytesOf(b)
      BY IngestionAssumption, <2>9, <2>12, <3>1, BytesOfBoth
    <3>3. Preparing!BytesOf(a \o <<k>>) = Preparing!BytesOf(a) + Preparing!BytesOf(<<k>>)
      BY IngestionAssumption, <2>8, <3>1, BytesOfBoth
    <3>4. Preparing!BytesOf(t) = Preparing!BytesOf(a) + Preparing!BytesOf(b)
      BY IngestionAssumption, <2>5, <2>6, <2>7, <2>8, <2>9, BytesOfBoth
    <3>5. Preparing!BytesOf(a) \in Int /\ Preparing!BytesOf(b) \in Int
      BY IngestionAssumption, <2>8, <2>9, BytesOfBoth
    <3>6. Preparing!BytesOf(<<k>>) = Size[k]
      BY IngestionAssumption, BytesOfOne
    <3> QED
      BY <1>0, <3>2, <3>3, <3>4, <3>5, <3>6
  <2> QED
    BY <1>2, <2>10, <2>11, <2>13 DEF LeavesKey
<1> QED
  BY <1>1, <1>2

\* A sequence cut in two.
Pieces(s, d, a, b) ==
    /\ a \in Seq(Keys) /\ b \in Seq(Keys) /\ s = a \o b /\ Len(b) = Len(s) - d
    /\ Once(s) => Once(b)

LEMMA CutInTwo ==
    ASSUME NEW s \in Seq(Keys), NEW d \in 0 .. Len(s),
           NEW a, a = SubSeq(s, 1, d), NEW b, b = SubSeq(s, d + 1, Len(s))
    PROVE  Pieces(s, d, a, b)
<1>1. PICK n : n = Len(s)
  OBVIOUS
<1>2. n \in Int /\ d \in Int /\ d + 1 \in Int /\ 0 <= d /\ d <= n /\ 0 <= n /\ 1 \in Int
      /\ \A i \in 1 .. n : s[i] \in Keys
  BY <1>1
<1>3. /\ a \in Seq(Keys) /\ Len(a) = (IF 1 <= d THEN d - 1 + 1 ELSE 0)
      /\ \A i \in 1 .. d - 1 + 1 : a[i] = s[1 + i - 1]
  <2>1. \A i \in 1 .. d : s[i] \in Keys
    BY <1>2
  <2> QED
    BY <1>2, <2>1, SubSeqProperties
<1>4. /\ b \in Seq(Keys) /\ Len(b) = (IF d + 1 <= n THEN n - (d + 1) + 1 ELSE 0)
      /\ \A i \in 1 .. n - (d + 1) + 1 : b[i] = s[(d + 1) + i - 1]
  <2>1. \A i \in d + 1 .. n : s[i] \in Keys
    BY <1>2
  <2>2. b = SubSeq(s, d + 1, n)
    BY <1>1
  <2> QED
    BY <1>2, <2>1, <2>2, SubSeqProperties
<1>5. /\ (IF 1 <= d THEN d - 1 + 1 ELSE 0) = d /\ d - 1 + 1 = d
      /\ (IF d + 1 <= n THEN n - (d + 1) + 1 ELSE 0) = n - d /\ n - (d + 1) + 1 = n - d
  BY ONLY <1>2
<1>6. (\A i \in 1 .. d : 1 + i - 1 = i) /\ \A i \in 1 .. n - d : (d + 1) + i - 1 = d + i
  BY ONLY <1>2
<1>7. Len(a) = d /\ \A i \in 1 .. d : a[i] = s[i]
  <2>1. \A i \in 1 .. d : i \in 1 .. d - 1 + 1
    BY <1>5
  <2> QED
    BY <1>3, <1>5, <1>6, <2>1
<1>8. Len(b) = n - d /\ \A i \in 1 .. n - d : b[i] = s[d + i]
  <2>1. \A i \in 1 .. n - d : i \in 1 .. n - (d + 1) + 1
    BY <1>5
  <2> QED
    BY <1>4, <1>5, <1>6, <2>1
<1>9. s = a \o b
  <2>1. PICK v : v = a \o b
    OBVIOUS
  <2>2. /\ v \in Seq(Keys) /\ Len(v) = Len(a) + Len(b)
        /\ \A i \in 1 .. Len(a) + Len(b) : v[i] = IF i <= Len(a) THEN a[i] ELSE b[i - Len(a)]
    <3>1. a \in Seq(Keys) /\ b \in Seq(Keys)
      BY <1>3, <1>4
    <3> QED
      BY <2>1, <3>1, ConcatProperties
  <2>3. d + (n - d) = n
    BY ONLY <1>2
  <2>4. Len(v) = n /\ \A i \in 1 .. n : v[i] = IF i <= d THEN a[i] ELSE b[i - d]
    BY <1>7, <1>8, <2>2, <2>3
  <2>5. ASSUME NEW i \in 1 .. n
        PROVE  v[i] = s[i]
    <3>1. i <= d => i \in 1 .. d
      BY ONLY <1>2, <2>5
    <3>2. ~(i <= d) => i - d \in 1 .. n - d /\ d + (i - d) = i
      BY ONLY <1>2, <2>5
    <3> QED
      BY <1>7, <1>8, <2>4, <3>1, <3>2
  <2>6. v = s
    BY <1>1, <2>2, <2>4, <2>5, SeqEqual
  <2> QED
    BY <2>1, <2>6
<1>10. ASSUME Once(s)
       PROVE  Once(b)
  <2> SUFFICES ASSUME NEW i \in 1 .. n - d, NEW j \in 1 .. n - d, b[i] = b[j]
               PROVE  i = j
    BY <1>8 DEF Once
  <2>1. d + i \in 1 .. n /\ d + j \in 1 .. n
    BY ONLY <1>2
  <2>2. s[d + i] = s[d + j]
    BY <1>8
  <2>3. d + i = d + j
    BY <1>1, <1>10, <2>1, <2>2 DEF Once
  <2> QED
    BY ONLY <1>2, <2>3
<1> QED
  BY <1>1, <1>3, <1>4, <1>8, <1>9, <1>10 DEF Pieces

\* The key goes to the end of the cache: each key is still there once.
LEMMA KeyLast ==
    ASSUME IngestionAssumption, NEW s \in Seq(Keys), Once(s), NEW k \in Keys,
           NEW t, t = Append(Preparing!Without(s, k), k)
    PROVE  /\ t \in Seq(Keys) /\ Once(t)
           /\ Preparing!BytesOf(t) =
                 Preparing!BytesOf(s) - (IF k \in Preparing!ToSet(s) THEN Size[k] ELSE 0) + Size[k]
           /\ k \in Preparing!ToSet(s) => Len(t) = Len(s)
<1>1. PICK w : w = Preparing!Without(s, k)
  OBVIOUS
<1>2. /\ w \in Seq(Keys) /\ Once(w) /\ \A i \in 1 .. Len(w) : w[i] # k
      /\ IF k \in Preparing!ToSet(s)
         THEN Len(w) = Len(s) - 1 /\ Preparing!BytesOf(w) = Preparing!BytesOf(s) - Size[k]
         ELSE w = s
  <2>1. LeavesKey(w, s, k)
    BY IngestionAssumption, <1>1, WithoutKey
  <2> QED
    BY <2>1 DEF LeavesKey
<1>3. t = Append(w, k)
  BY <1>1
<1>4. /\ t \in Seq(Keys) /\ Len(t) = Len(w) + 1 /\ Len(w) \in Nat /\ Len(s) \in Nat
      /\ \A i \in 1 .. Len(t) : t[i] = IF i = Len(w) + 1 THEN k ELSE w[i]
  BY <1>2, <1>3
<1>5. Once(t)
  BY <1>2, <1>4 DEF Once
<1>6. t = w \o <<k>>
  BY <1>2, <1>3, AppendIsConcat
<1>7. Preparing!BytesOf(t) = Preparing!BytesOf(w) + Preparing!BytesOf(<<k>>)
  <2>1. <<k>> \in Seq(Keys)
    OBVIOUS
  <2> QED
    BY IngestionAssumption, <1>2, <1>6, <2>1, BytesOfBoth
<1>8. Preparing!BytesOf(<<k>>) = Size[k] /\ Size[k] \in Int
  BY IngestionAssumption, BytesOfOne DEF IngestionAssumption, Preparing!PicturesAssumption
<1>9. Preparing!BytesOf(s) \in Int
  BY IngestionAssumption, BytesOfBoth
<1> QED
  BY <1>2, <1>4, <1>5, <1>7, <1>8, <1>9

\* What put leaves of the cache.
LEMMA PutBounds ==
    ASSUME IngestionAssumption, NEW s \in Seq(Keys), Once(s), NEW k \in Keys,
           NEW c, c = Preparing!PutEntry(s, Preparing!BytesOf(s), k)
    PROVE  /\ c.entries \in Seq(Keys) /\ Once(c.entries)
           /\ c.bytes = Preparing!BytesOf(c.entries)
           /\ Len(c.entries) <= MaxEntries /\ c.bytes <= MaxBytes
<1>1. PICK added : added = Append(Preparing!Without(s, k), k)
  OBVIOUS
<1>2. PICK count : count = Preparing!BytesOf(s) - (IF k \in Preparing!ToSet(s) THEN Size[k] ELSE 0) + Size[k]
  OBVIOUS
<1>3. added \in Seq(Keys) /\ Once(added) /\ Preparing!BytesOf(added) = count
  BY IngestionAssumption, <1>1, <1>2, KeyLast
<1>4. count \in Int
  BY IngestionAssumption, <1>3, BytesOfBoth
<1>5. PICK D : D = {d \in 0 .. Len(added) : /\ Len(added) - d <= MaxEntries
                                            /\ count - Preparing!BytesOf(SubSeq(added, 1, d)) <= MaxBytes}
  OBVIOUS
<1>6. Len(added) \in D
  <2>1. SubSeq(added, 1, Len(added)) = added
    BY <1>3, SubSeqFull
  <2>2. count - Preparing!BytesOf(SubSeq(added, 1, Len(added))) = 0
    <3>1. Preparing!BytesOf(SubSeq(added, 1, Len(added))) = count
      BY <1>3, <2>1
    <3> QED
      BY <1>4, <3>1
  <2>3. Len(added) \in 0 .. Len(added) /\ Len(added) - Len(added) = 0
    BY <1>3
  <2>4. 0 <= MaxEntries /\ 0 <= MaxBytes
    BY DEF IngestionAssumption, Preparing!PicturesAssumption
  <2> QED
    BY <1>5, <2>2, <2>3, <2>4
<1>7. PICK d : d = Preparing!Min(D)
  OBVIOUS
<1>8. d \in D /\ d \in 0 .. Len(added)
  <2>1. D \subseteq Nat /\ D # {}
    BY <1>5, <1>6
  <2>2. d \in D
    BY <1>7, <2>1, MinOfNaturals
  <2> QED
    BY <1>5, <2>2
<1>9. PICK a : a = SubSeq(added, 1, d)
  OBVIOUS
<1>10. PICK b : b = SubSeq(added, d + 1, Len(added))
  OBVIOUS
<1>11. a \in Seq(Keys) /\ b \in Seq(Keys) /\ added = a \o b /\ Len(b) = Len(added) - d /\ Once(b)
  <2>1. added \in Seq(Keys) /\ d \in 0 .. Len(added) /\ Once(added)
    BY <1>3, <1>8
  <2>2. Pieces(added, d, a, b)
    BY <1>9, <1>10, <2>1, CutInTwo
  <2> QED
    BY <2>1, <2>2 DEF Pieces
<1>12. Preparing!BytesOf(added) = Preparing!BytesOf(a) + Preparing!BytesOf(b)
       /\ Preparing!BytesOf(a) \in Int /\ Preparing!BytesOf(b) \in Int
  BY IngestionAssumption, <1>11, BytesOfBoth
<1>13. c = [entries |-> b, bytes |-> count - Preparing!BytesOf(a)]
  <2>1. D # {}
    BY <1>6
  <2> QED
    BY <1>1, <1>2, <1>5, <1>7, <1>9, <1>10, <2>1 DEF Preparing!PutEntry
<1>14. Len(added) - d <= MaxEntries /\ count - Preparing!BytesOf(a) <= MaxBytes
  BY <1>5, <1>8, <1>9
<1>15. count - Preparing!BytesOf(a) = Preparing!BytesOf(b)
  BY <1>3, <1>12
<1> QED
  BY <1>11, <1>13, <1>14, <1>15

\* A sequence with each key once is as long as its set of keys is large.
LEMMA OnceCounts ==
    ASSUME NEW s \in Seq(Keys), Once(s)
    PROVE  Cardinality(Preparing!ToSet(s)) = Len(s)
<1>1. Len(s) \in Nat /\ DOMAIN s = 1 .. Len(s)
  OBVIOUS
<1>2. PICK K : K = Preparing!ToSet(s)
  OBVIOUS
<1>3. s \in Bijection(1 .. Len(s), K)
  <2>1. s \in [1 .. Len(s) -> K] /\ \A k \in K : \E i \in 1 .. Len(s) : s[i] = k
    BY <1>1, <1>2 DEF Preparing!ToSet
  <2> QED
    BY <2>1 DEF Once, Bijection, Injection, Surjection, IsInjective
<1>4. ExistsBijection(1 .. Len(s), K)
  BY <1>3 DEF ExistsBijection
<1>5. Cardinality(K) = Len(s)
  BY <1>1, <1>4, FS_CountingElements
<1> QED
  BY <1>2, <1>5

PreparesTypeOK ==
    /\ key \in [Threads -> Keys]
    /\ pc \in [Threads -> {"idle", "put", "decoded", "failed"} \cup Preparing!ToSet(Preparing!Stages)]
    /\ held \in [Threads -> SUBSET {"com", "factory", "decoder", "frame", "converter", "path"}]
    /\ \A f \in wicTemps : f.by \in Threads

PreparesInv ==
    /\ PreparesTypeOK
    /\ entries \in Seq(Keys) /\ Once(entries) /\ bytes = Preparing!BytesOf(entries)
    /\ Len(entries) <= MaxEntries /\ bytes <= MaxBytes
    /\ Preparing!DecoderReleased

LEMMA PreparesInitially ==
    ASSUME IngestionAssumption, Preparing!Init
    PROVE  PreparesInv
<1>1. entries = <<>> /\ bytes = 0 /\ wicTemps = {}
  BY DEF Preparing!Init
<1>2. Preparing!BytesOf(entries) = 0
  BY IngestionAssumption, <1>1, BytesOfNothing
<1>3. entries \in Seq(Keys) /\ Once(entries) /\ Len(entries) = 0
  BY <1>1 DEF Once
<1>4. 0 <= MaxEntries /\ 0 <= MaxBytes /\ (CHOOSE k \in Keys : TRUE) \in Keys
  BY DEF IngestionAssumption, Preparing!PicturesAssumption
<1>5. PreparesTypeOK
  BY <1>1, <1>4 DEF PreparesTypeOK, Preparing!Init
<1>6. Preparing!DecoderReleased
  BY <1>1 DEF Preparing!DecoderReleased, Preparing!Init
<1> QED
  BY <1>1, <1>2, <1>3, <1>4, <1>5, <1>6 DEF PreparesInv

\* The cache is not touched.
LEMMA CacheUntouched ==
    ASSUME PreparesInv, UNCHANGED <<entries, bytes>>, PreparesTypeOK', Preparing!DecoderReleased'
    PROVE  PreparesInv'
BY DEF PreparesInv

LEMMA GetKeeps ==
    ASSUME IngestionAssumption, PreparesInv, NEW t \in Threads, Preparing!Get(t)
    PROVE  PreparesInv'
<1>1. PICK k \in Keys :
        /\ key' = [key EXCEPT ![t] = k]
        /\ IF k \in Preparing!ToSet(entries)
           THEN entries' = Append(Preparing!Without(entries, k), k) /\ UNCHANGED pc
           ELSE pc' = [pc EXCEPT ![t] = "initialize"] /\ UNCHANGED entries
  BY DEF Preparing!Get
<1>2. UNCHANGED <<bytes, held, wicTemps>> /\ pc[t] = "idle"
  BY DEF Preparing!Get
<1>3. entries \in Seq(Keys) /\ Once(entries) /\ bytes = Preparing!BytesOf(entries) /\ Len(entries) <= MaxEntries
  BY DEF PreparesInv
<1>4. PreparesTypeOK'
  BY <1>1, <1>2 DEF PreparesInv, PreparesTypeOK, Preparing!ToSet, Preparing!Stages
<1>5. Preparing!DecoderReleased'
  BY <1>1, <1>2 DEF PreparesInv, PreparesTypeOK, Preparing!DecoderReleased
<1>6. CASE k \in Preparing!ToSet(entries)
  <2>1. PICK s : s = Append(Preparing!Without(entries, k), k)
    OBVIOUS
  <2>2. /\ s \in Seq(Keys) /\ Once(s) /\ Len(s) = Len(entries)
        /\ Preparing!BytesOf(s) = Preparing!BytesOf(entries) - Size[k] + Size[k]
    BY IngestionAssumption, <1>3, <1>6, <2>1, KeyLast
  <2>3. Preparing!BytesOf(entries) \in Int /\ Size[k] \in Int
    BY IngestionAssumption, <1>3, BytesOfBoth DEF IngestionAssumption, Preparing!PicturesAssumption
  <2>4. Preparing!BytesOf(s) = Preparing!BytesOf(entries)
    BY <2>2, <2>3
  <2>5. entries' = s
    BY <1>1, <1>6, <2>1
  <2> QED
    BY <1>2, <1>4, <1>5, <2>2, <2>4, <2>5 DEF PreparesInv, Once
<1>7. CASE k \notin Preparing!ToSet(entries)
  BY <1>1, <1>2, <1>4, <1>5, <1>7, CacheUntouched
<1> QED
  BY <1>6, <1>7

LEMMA PutKeeps ==
    ASSUME IngestionAssumption, PreparesInv, NEW t \in Threads, Preparing!Put(t)
    PROVE  PreparesInv'
<1>1. /\ entries \in Seq(Keys) /\ Once(entries) /\ bytes = Preparing!BytesOf(entries)
      /\ PreparesTypeOK /\ key[t] \in Keys /\ Preparing!DecoderReleased
  BY DEF PreparesInv, PreparesTypeOK
<1>2. PICK c : c = Preparing!PutEntry(entries, Preparing!BytesOf(entries), key[t])
  OBVIOUS
<1>3. /\ c.entries \in Seq(Keys) /\ Once(c.entries) /\ c.bytes = Preparing!BytesOf(c.entries)
      /\ Len(c.entries) <= MaxEntries /\ c.bytes <= MaxBytes
  BY IngestionAssumption, <1>1, <1>2, PutBounds
<1>4. /\ entries' = c.entries /\ bytes' = c.bytes /\ pc[t] = "put" /\ pc' = [pc EXCEPT ![t] = "idle"]
      /\ UNCHANGED <<key, held, wicTemps>>
  BY <1>1, <1>2 DEF Preparing!Put
<1>5. PreparesTypeOK'
  BY <1>1, <1>4 DEF PreparesTypeOK
<1>6. Preparing!DecoderReleased'
  BY <1>1, <1>4 DEF PreparesTypeOK, Preparing!DecoderReleased
<1>7. entries' \in Seq(Keys) /\ Once(entries)' /\ bytes' = Preparing!BytesOf(entries')
      /\ Len(entries') <= MaxEntries /\ bytes' <= MaxBytes
  BY <1>3, <1>4 DEF Once
<1> QED
  BY <1>5, <1>6, <1>7 DEF PreparesInv

\* Every stage has a stage after it or ends with the decoded picture.
LEMMA StageFollows ==
    ASSUME NEW stage \in Preparing!ToSet(Preparing!Stages)
    PROVE  /\ Preparing!NextStage(stage) \in {"decoded"} \cup Preparing!ToSet(Preparing!Stages)
           /\ stage \notin {"idle", "put", "decoded", "failed"}
           /\ Preparing!NextStage(stage) \notin {"idle", "put"}
<1>1. PICK i \in 1 .. 9 : stage = Preparing!Stages[i]
  BY DEF Preparing!ToSet, Preparing!Stages
<1>2. Len(Preparing!Stages) = 9 /\ DOMAIN Preparing!Stages = 1 .. 9
  BY DEF Preparing!Stages
<1>3. PICK j : j = (CHOOSE n \in DOMAIN Preparing!Stages : Preparing!Stages[n] = stage)
  OBVIOUS
<1>4. j \in 1 .. 9 /\ Preparing!Stages[j] = stage
  BY <1>1, <1>2, <1>3
<1>5. \A n \in 1 .. 9 : Preparing!Stages[n] \notin {"idle", "put", "decoded", "failed"}
  BY DEF Preparing!Stages
<1>6. CASE j = 9
  <2>1. Preparing!NextStage(stage) = "decoded"
    BY <1>2, <1>3, <1>6 DEF Preparing!NextStage
  <2> QED
    BY <1>4, <1>5, <2>1
<1>7. CASE j # 9
  <2>1. Preparing!NextStage(stage) = Preparing!Stages[j + 1] /\ j + 1 \in 1 .. 9
    BY <1>2, <1>3, <1>4, <1>7 DEF Preparing!NextStage
  <2> QED
    BY <1>2, <1>4, <1>5, <2>1 DEF Preparing!ToSet
<1> QED
  BY <1>6, <1>7

LEMMA StageKeeps ==
    ASSUME PreparesInv, NEW t \in Threads, Preparing!Stage(t)
    PROVE  PreparesInv'
<1>1. /\ pc[t] \in Preparing!ToSet(Preparing!Stages) /\ pc' = [pc EXCEPT ![t] = Preparing!NextStage(pc[t])]
      /\ UNCHANGED <<entries, bytes, key>>
  BY DEF Preparing!Stage
<1>2. PICK next : next = Preparing!NextStage(pc[t])
  OBVIOUS
<1>3. next \in {"decoded"} \cup Preparing!ToSet(Preparing!Stages) /\ next \notin {"idle", "put"}
  BY <1>1, <1>2, StageFollows
<1>4. PreparesTypeOK /\ Preparing!DecoderReleased
  BY DEF PreparesInv
<1>5. PICK more \in SUBSET {"com", "factory", "decoder", "frame", "converter", "path"} :
         /\ held' = [held EXCEPT ![t] = @ \cup more]
         /\ pc[t] = "temp" => "path" \in more
  <2>1. CASE held' = [held EXCEPT ![t] = @ \cup Preparing!Acquires(pc[t])]
    BY <2>1 DEF Preparing!Acquires
  <2>2. CASE pc[t] = "initialize" /\ UNCHANGED held
    <3>1. held' = [held EXCEPT ![t] = @ \cup {}]
      BY <1>4, <2>2 DEF PreparesTypeOK
    <3> QED
      BY <2>2, <3>1
  <2> QED
    BY <2>1, <2>2 DEF Preparing!Stage
<1>6. wicTemps' = IF pc[t] = "temp" THEN wicTemps \cup {[by |-> t, left |-> "no"]} ELSE wicTemps
  BY DEF Preparing!Stage
<1>7. PreparesTypeOK'
  <2>1. pc' = [pc EXCEPT ![t] = next] /\ key' = key
    BY <1>1, <1>2
  <2>2. pc' \in [Threads -> {"idle", "put", "decoded", "failed"} \cup Preparing!ToSet(Preparing!Stages)]
    BY <1>3, <1>4, <2>1 DEF PreparesTypeOK
  <2>3. held[t] \cup more \in SUBSET {"com", "factory", "decoder", "frame", "converter", "path"}
    BY <1>4 DEF PreparesTypeOK
  <2>4. held' \in [Threads -> SUBSET {"com", "factory", "decoder", "frame", "converter", "path"}]
    BY <1>4, <1>5, <2>3 DEF PreparesTypeOK
  <2>5. \A f \in wicTemps' : f.by \in Threads
    BY <1>4, <1>6 DEF PreparesTypeOK
  <2> QED
    BY <1>4, <2>1, <2>2, <2>4, <2>5 DEF PreparesTypeOK
<1>8. Preparing!DecoderReleased'
  <2>1. \A u \in Threads : held[u] \subseteq held'[u] /\ (u = t => held'[u] = held[u] \cup more)
    BY <1>4, <1>5 DEF PreparesTypeOK
  <2>2. \A u \in Threads : pc'[u] \in {"idle", "put"} => u # t /\ pc[u] \in {"idle", "put"} /\ held'[u] = held[u]
    BY <1>1, <1>2, <1>3, <1>4, <1>5 DEF PreparesTypeOK
  <2>3. ASSUME NEW f \in wicTemps', f.left = "no"
        PROVE  "path" \in held'[f.by]
    <3>1. CASE f \in wicTemps
      BY <1>4, <2>1, <2>3, <3>1 DEF PreparesTypeOK, Preparing!DecoderReleased
    <3>2. CASE f \notin wicTemps
      BY <1>5, <1>6, <2>1, <2>3, <3>2
    <3> QED
      BY <3>1, <3>2
  <2> QED
    BY <1>4, <2>2, <2>3 DEF Preparing!DecoderReleased
<1> QED
  BY <1>1, <1>7, <1>8, CacheUntouched

LEMMA StageFailsKeeps ==
    ASSUME PreparesInv, NEW t \in Threads, Preparing!StageFails(t)
    PROVE  PreparesInv'
<1>1. /\ pc' = [pc EXCEPT ![t] = "failed"] /\ UNCHANGED <<entries, bytes, key, held>>
      /\ \A f \in wicTemps' : f \in wicTemps \/ (f.by = t /\ f.left = "write failed")
  <2>1. PICK g : g = [by |-> t, left |-> "write failed"]
    OBVIOUS
  <2>2. wicTemps' = wicTemps \/ wicTemps' = wicTemps \cup {g}
    BY <2>1 DEF Preparing!StageFails
  <2>3. pc' = [pc EXCEPT ![t] = "failed"] /\ UNCHANGED <<entries, bytes, key, held>>
    BY DEF Preparing!StageFails
  <2>4. \A f \in wicTemps' : f \in wicTemps \/ f = g
    BY <2>2
  <2>5. g.by = t /\ g.left = "write failed"
    BY <2>1
  <2> QED
    BY <2>3, <2>4, <2>5
<1>2. PreparesTypeOK /\ Preparing!DecoderReleased
  BY DEF PreparesInv
<1>3. PreparesTypeOK'
  BY <1>1, <1>2 DEF PreparesTypeOK
<1>4. Preparing!DecoderReleased'
  BY <1>1, <1>2 DEF PreparesTypeOK, Preparing!DecoderReleased
<1> QED
  BY <1>1, <1>3, <1>4, CacheUntouched

LEMMA ReleaseKeeps ==
    ASSUME PreparesInv, NEW t \in Threads, Preparing!Release(t)
    PROVE  PreparesInv'
<1>1. held' = [held EXCEPT ![t] = {}] /\ UNCHANGED <<entries, bytes, key>>
  BY DEF Preparing!Release
<1>2. pc' = [pc EXCEPT ![t] = "put"] \/ pc' = [pc EXCEPT ![t] = "idle"]
  BY DEF Preparing!Release
<1>3. PreparesTypeOK /\ Preparing!DecoderReleased
  BY DEF PreparesInv
<1>4. \A f \in wicTemps' :
         \/ f \in wicTemps /\ (f.by = t /\ "path" \in held[t] => f.left # "no")
         \/ f.by = t /\ f.left = "unlink failed"
  <2>1. PICK g : g = [by |-> t, left |-> "unlink failed"]
    OBVIOUS
  <2>2. IF "path" \in held[t]
        THEN wicTemps' = wicTemps \ Preparing!Unlinked(t) \/ wicTemps' = (wicTemps \ Preparing!Unlinked(t)) \cup {g}
        ELSE wicTemps' = wicTemps
    BY <2>1 DEF Preparing!Release
  <2>3. \A f \in wicTemps \ Preparing!Unlinked(t) : f.by = t => f.left # "no"
    BY DEF Preparing!Unlinked
  <2>4. g.by = t /\ g.left = "unlink failed"
    BY <2>1
  <2> QED
    BY <2>2, <2>3, <2>4
<1>5. PreparesTypeOK'
  BY <1>1, <1>2, <1>3, <1>4 DEF PreparesTypeOK
<1>6. \A u \in Threads : held'[u] = IF u = t THEN {} ELSE held[u]
  BY <1>1, <1>3 DEF PreparesTypeOK
<1>7. \A u \in Threads : u # t => pc'[u] = pc[u]
  BY <1>2, <1>3 DEF PreparesTypeOK
<1>8. \A f \in wicTemps' : f.left = "no" => f.by # t /\ f \in wicTemps
  BY <1>3, <1>4 DEF Preparing!DecoderReleased
<1>9. Preparing!DecoderReleased'
  BY <1>3, <1>6, <1>7, <1>8 DEF PreparesTypeOK, Preparing!DecoderReleased
<1> QED
  BY <1>1, <1>5, <1>9, CacheUntouched

LEMMA ClearKeeps ==
    ASSUME IngestionAssumption, PreparesInv, Preparing!Clear
    PROVE  PreparesInv'
<1>1. entries' = <<>> /\ bytes' = 0 /\ UNCHANGED <<pc, key, held, wicTemps>>
  BY DEF Preparing!Clear
<1>2. Preparing!BytesOf(entries') = 0
  BY IngestionAssumption, <1>1, BytesOfNothing
<1>3. entries' \in Seq(Keys) /\ Once(entries)' /\ Len(entries') = 0
  BY <1>1 DEF Once
<1>4. 0 <= MaxEntries /\ 0 <= MaxBytes
  BY DEF IngestionAssumption, Preparing!PicturesAssumption
<1>5. PreparesTypeOK' /\ Preparing!DecoderReleased'
  BY <1>1 DEF PreparesInv, PreparesTypeOK, Preparing!DecoderReleased
<1> QED
  BY <1>1, <1>2, <1>3, <1>4, <1>5 DEF PreparesInv

(***************************************************************************)
(* The cache of prepared images counts its bytes exactly, holds each key   *)
(* once and stays within both limits.  A thread outside the decoder holds  *)
(* none of its interfaces, whatever failed; a temporary file outlives its  *)
(* call only where writing or removing it failed                           *)
(* (image_preprocessing.py:1070-1072, 1144-1148).  For every number of     *)
(* threads and keys, every size of a picture and every limit.              *)
(***************************************************************************)
THEOREM PreparationStaysBounded ==
    ASSUME IngestionAssumption
    PROVE  Preparing!Spec => []PreparationBounded
<1>1. Preparing!Init => PreparesInv
  BY IngestionAssumption, PreparesInitially
<1>2. PreparesInv /\ [Preparing!Next]_(Preparing!vars) => PreparesInv'
  <2> SUFFICES ASSUME PreparesInv, [Preparing!Next]_(Preparing!vars)
               PROVE  PreparesInv'
    OBVIOUS
  <2>1. CASE UNCHANGED Preparing!vars
    <3>1. UNCHANGED <<entries, bytes, pc, key, held, wicTemps>>
      BY <2>1 DEF Preparing!vars
    <3> QED
      BY <3>1 DEF PreparesInv, PreparesTypeOK, Once, Preparing!DecoderReleased
  <2> QED
    BY IngestionAssumption, <2>1, GetKeeps, StageKeeps, StageFailsKeeps, ReleaseKeeps, PutKeeps, ClearKeeps
    DEF Preparing!Next
<1>3. PreparesInv => PreparationBounded
  <2> SUFFICES ASSUME PreparesInv
               PROVE  PreparationBounded
    OBVIOUS
  <2>1. Cardinality(Preparing!ToSet(entries)) = Len(entries)
    BY OnceCounts DEF PreparesInv
  <2>2. Preparing!Cardinality(Preparing!ToSet(entries)) = Cardinality(Preparing!ToSet(entries))
    BY DEF Preparing!Cardinality, Cardinality
  <2> QED
    BY <2>1, <2>2 DEF PreparesInv, PreparationBounded, Preparing!CacheCounted
<1> QED
  BY <1>1, <1>2, <1>3, PTL DEF Preparing!Spec

-----------------------------------------------------------------------------
(***************************************************************************)
(* The graphs of timed media.  A batch has the units of the passages and   *)
(* of the frames, none of them whole, and perhaps one whole among them.    *)
(***************************************************************************)

PartUnit == [id : {"passage", "frame"} \X Nat, kind : {"time_segment", "frame"}, tokens : Nat]

Wholes(units) == {i \in DOMAIN units : Batches!IsWhole(units[i])}

LEMMA PartIsNoWhole ==
    ASSUME NEW x \in PartUnit
    PROVE  ~Batches!IsWhole(x)
BY DEF PartUnit, Batches!IsWhole

\* A sequence with the n elements of one and then the m of another.
Joins(u, a, n, b, m) ==
    /\ Len(u) = n + m /\ DOMAIN u = 1 .. n + m
    /\ \A i \in 1 .. n : u[i] = a[i]
    /\ \A i \in 1 .. m : u[n + i] = b[i]

LEMMA JoinedSequences ==
    ASSUME NEW S, NEW a \in Seq(S), NEW b \in Seq(S), NEW n \in Nat, n = Len(a),
           NEW m \in Nat, m = Len(b), NEW u, u = a \o b
    PROVE  Joins(u, a, n, b, m)
<1>1. u \in Seq(S) /\ Len(u) = n + m
  BY ONLY a \in Seq(S), b \in Seq(S), n = Len(a), m = Len(b), u = a \o b
<1>2. DOMAIN u = 1 .. n + m
  BY <1>1
<1>3. \A i \in 1 .. n : u[i] = a[i]
  BY ONLY a \in Seq(S), b \in Seq(S), n \in Nat, m \in Nat, n = Len(a), m = Len(b), u = a \o b
<1>4. \A i \in 1 .. m : u[n + i] = b[i]
  BY ONLY a \in Seq(S), b \in Seq(S), n \in Nat, m \in Nat, n = Len(a), m = Len(b), u = a \o b
<1> QED
  BY <1>1, <1>2, <1>3, <1>4 DEF Joins

\* What is published of a request, with its vectors or without.
Complete(r, batch, embedded) ==
    LET parts == Batches!NoWhole(batch.units)
    IN  /\ Batches!Ids(parts) = Batches!Ids(Batches!Passages(r))
                \cup (IF r.service = "video" THEN Batches!Ids(Batches!Frames(r)) ELSE {})
        /\ DOMAIN batch.vectors = IF embedded THEN Batches!Ids(batch.units) ELSE {}
        /\ embedded => \E i \in Wholes(batch.units) : Wholes(batch.units) = {i}
        /\ \A i \in Wholes(batch.units) :
              /\ batch.units[i].covers = Batches!Ids(parts)
              /\ batch.units[i].tokens = Batches!Tokens(parts)
              /\ embedded /\ (IF r.service = "video" THEN Batches!VideoAggregation(r)
                              ELSE Batches!Aggregation(Batches!Tokens(parts))) = "centroid" =>
                    batch.vectors[batch.units[i].id] =
                        Batches!Centroid(Batches!Restrict(batch.vectors, Batches!Ids(parts)), Batches!PositiveWeights(parts))

LEMMA UnitsOfRequest ==
    ASSUME IngestionAssumption, NEW r \in BatchRequests
    PROVE  Batches!Passages(r) \in Seq(PartUnit) /\ Batches!Frames(r) \in Seq(PartUnit)
<1>1. r.passages \in Seq(Nat) /\ r.frames \in Seq([own : Nat, counted : Nat])
  BY DEF IngestionAssumption, Batches!RequestsAssumption
<1>2. PICK n \in Nat : n = Len(r.passages)
  BY <1>1
<1>3. PICK m \in Nat : m = Len(r.frames)
  BY <1>1
<1>4. DOMAIN r.passages = 1 .. n /\ DOMAIN r.frames = 1 .. m
  BY <1>1, <1>2, <1>3
<1>5. \A i \in 1 .. n : Batches!PassageUnit(i, r.passages[i]) \in PartUnit
  BY <1>1, <1>4 DEF Batches!PassageUnit, PartUnit
<1>6. \A i \in 1 .. m : Batches!FrameUnit(i, r.frames[i].counted) \in PartUnit
  <2>1. \A i \in 1 .. m : r.frames[i] \in [own : Nat, counted : Nat]
    <3>1. PICK S : S = [own : Nat, counted : Nat]
      OBVIOUS
    <3>2. PICK frames \in Seq(S) : frames = r.frames
      BY <1>1, <3>1
    <3>3. \A i \in 1 .. m : frames[i] \in S
      BY <1>3, <3>2
    <3> QED
      BY <3>1, <3>2, <3>3
  <2>2. \A i \in 1 .. m : r.frames[i].counted \in Nat
    BY <2>1
  <2>3. \A i \in 1 .. m, t \in Nat : Batches!FrameUnit(i, t) \in PartUnit
    BY DEF Batches!FrameUnit, PartUnit
  <2> QED
    BY <2>2, <2>3
<1>7. Batches!Passages(r) \in [1 .. n -> PartUnit]
  BY <1>4, <1>5 DEF Batches!Passages
<1>8. Batches!Frames(r) \in [1 .. m -> PartUnit]
  BY <1>4, <1>6 DEF Batches!Frames
<1> QED
  BY <1>7, <1>8

\* Units of parts alone have no whole.
LEMMA PartsAlone ==
    ASSUME NEW s \in Seq(PartUnit)
    PROVE  Batches!NoWhole(s) = s /\ Wholes(s) = {}
<1>1. \A i \in DOMAIN s : ~Batches!IsWhole(s[i])
  BY PartIsNoWhole
<1>2. {i \in DOMAIN s : ~Batches!IsWhole(s[i])} = DOMAIN s
  BY <1>1
<1>3. s = [i \in DOMAIN s |-> s[i]]
  OBVIOUS
<1> QED
  BY <1>1, <1>2, <1>3 DEF Batches!NoWhole, Batches!Restrict, Wholes

\* One whole stands between the passages and the frames.
Surrounds(u, w, k, p, n, f, m) ==
    /\ Wholes(u) = {k} /\ u[k] = w /\ DOMAIN u = 1 .. k + m
    /\ \A i \in 1 .. n : u[i] = p[i]
    /\ \A i \in 1 .. m : u[k + i] = f[i]

LEMMA PartsAround ==
    ASSUME NEW p \in Seq(PartUnit), NEW f \in Seq(PartUnit), NEW n \in Nat, n = Len(p), NEW m \in Nat, m = Len(f),
           NEW w, w.kind = "whole_resource", NEW u, u = Append(p, w) \o f, NEW k \in Nat, k = n + 1
    PROVE  Surrounds(u, w, k, p, n, f, m)
<1>1. n = Len(p)
  OBVIOUS
<1>2. m = Len(f)
  OBVIOUS
<1>3. p \in Seq(PartUnit \cup {w}) /\ f \in Seq(PartUnit \cup {w})
  OBVIOUS
<1>4. PICK a : a = Append(p, w)
  OBVIOUS
<1>5. a \in Seq(PartUnit \cup {w}) /\ Len(a) = n + 1 /\ a[n + 1] = w /\ \A i \in 1 .. n : a[i] = p[i]
  BY <1>1, <1>3, <1>4
<1>6. k = n + 1
  OBVIOUS
<1>7. /\ Len(u) = k + m /\ DOMAIN u = 1 .. k + m
      /\ \A i \in 1 .. k : u[i] = a[i]
      /\ \A i \in 1 .. m : u[k + i] = f[i]
  <2>1. a \in Seq(PartUnit \cup {w}) /\ f \in Seq(PartUnit \cup {w}) /\ k = Len(a) /\ m = Len(f) /\ u = a \o f
    BY <1>2, <1>3, <1>4, <1>5, <1>6
  <2>2. Joins(u, a, k, f, m)
    BY <2>1, JoinedSequences
  <2> QED
    BY <2>2 DEF Joins
<1>8. \A i \in 1 .. m : f[i] \in PartUnit
  BY <1>2
<1>9. \A i \in 1 .. n : u[i] = p[i] /\ p[i] \in PartUnit
  BY <1>1, <1>5, <1>6, <1>7
<1>10. (\A i \in 1 .. n : ~Batches!IsWhole(u[i])) /\ \A i \in 1 .. m : ~Batches!IsWhole(u[k + i])
  BY <1>7, <1>8, <1>9, PartIsNoWhole
<1>11. \A i \in (k + 1) .. (k + m) : ~Batches!IsWhole(u[i])
  <2> TAKE i \in (k + 1) .. (k + m)
  <2>1. i - k \in 1 .. m /\ k + (i - k) = i
    BY <1>2, <1>6
  <2> QED
    BY <1>10, <2>1
<1>12. u[k] = w /\ Batches!IsWhole(u[k])
  BY <1>5, <1>6, <1>7 DEF Batches!IsWhole
<1>13. \A i \in 1 .. k + m : Batches!IsWhole(u[i]) <=> i = k
  <2> TAKE i \in 1 .. k + m
  <2>1. i \in 1 .. n \/ i = k \/ i \in (k + 1) .. (k + m)
    BY <1>1, <1>2, <1>6
  <2>2. i \in 1 .. n => i # k
    BY <1>1, <1>6
  <2>3. i \in (k + 1) .. (k + m) => i # k
    BY <1>2, <1>6
  <2> QED
    BY <1>10, <1>11, <1>12, <2>1, <2>2, <2>3
<1>14. Wholes(u) = {k}
  <2>1. k \in 1 .. k + m
    BY <1>1, <1>2, <1>6
  <2> QED
    BY <1>7, <1>13, <2>1 DEF Wholes
<1> QED
  BY <1>7, <1>9, <1>12, <1>14 DEF Surrounds

WholeId == <<"whole", 0>>

\* A whole among the parts: which units, which names.
Among(u, w, p, f) ==
    /\ Batches!Ids(Batches!NoWhole(u)) = Batches!Ids(p) \cup Batches!Ids(f)
    /\ Batches!Ids(u) = Batches!Ids(p) \cup Batches!Ids(f) \cup {WholeId}
    /\ WholeId \notin Batches!Ids(p) \cup Batches!Ids(f)
    /\ \E k \in DOMAIN u : Wholes(u) = {k} /\ u[k] = w

LEMMA PartNames ==
    ASSUME NEW s \in Seq(PartUnit)
    PROVE  WholeId \notin Batches!Ids(s)
<1>1. \A x \in PartUnit : x.id # WholeId
  BY DEF PartUnit, WholeId
<1>2. \A i \in DOMAIN s : s[i] \in PartUnit
  OBVIOUS
<1> QED
  BY <1>1, <1>2 DEF Batches!Ids

LEMMA WholeAmongParts ==
    ASSUME NEW p \in Seq(PartUnit), NEW f \in Seq(PartUnit),
           NEW w, w.kind = "whole_resource", w.id = WholeId, NEW u, u = Append(p, w) \o f
    PROVE  Among(u, w, p, f)
<1>1. PICK n \in Nat : n = Len(p)
  OBVIOUS
<1>2. PICK m \in Nat : m = Len(f)
  OBVIOUS
<1>3. PICK k \in Nat : k = n + 1
  BY <1>1
<1>4. /\ Wholes(u) = {k} /\ u[k] = w /\ DOMAIN u = 1 .. k + m
      /\ \A i \in 1 .. n : u[i] = p[i]
      /\ \A i \in 1 .. m : u[k + i] = f[i]
  <2>1. Surrounds(u, w, k, p, n, f, m)
    BY <1>1, <1>2, <1>3, PartsAround
  <2> QED
    BY <2>1 DEF Surrounds
<1>5. DOMAIN p = 1 .. n /\ DOMAIN f = 1 .. m /\ k \in DOMAIN u
  BY <1>1, <1>2, <1>3, <1>4
<1>6. PICK c : c = Batches!NoWhole(u)
  OBVIOUS
<1>7. DOMAIN c = (1 .. k + m) \ {k} /\ \A i \in DOMAIN c : c[i] = u[i]
  BY <1>4, <1>6 DEF Batches!NoWhole, Batches!Restrict, Wholes
<1>8. \A i \in DOMAIN c : i \in 1 .. n \/ i - k \in 1 .. m
  BY <1>1, <1>2, <1>3, <1>7
<1>9. Batches!Ids(c) \subseteq Batches!Ids(p) \cup Batches!Ids(f)
  <2> SUFFICES ASSUME NEW i \in DOMAIN c
               PROVE  c[i].id \in Batches!Ids(p) \cup Batches!Ids(f)
    BY DEF Batches!Ids
  <2>1. CASE i \in 1 .. n
    BY <1>4, <1>5, <1>7, <2>1 DEF Batches!Ids
  <2>2. CASE i - k \in 1 .. m
    <3>1. PICK j \in 1 .. m : k + j = i
      BY <1>2, <1>3, <1>7, <2>2
    <3>2. c[i] = f[j]
      BY <1>4, <1>7, <3>1
    <3> QED
      BY <1>5, <3>1, <3>2 DEF Batches!Ids
  <2> QED
    BY <1>8, <2>1, <2>2
<1>10. Batches!Ids(p) \subseteq Batches!Ids(c)
  <2> SUFFICES ASSUME NEW i \in DOMAIN p
               PROVE  p[i].id \in Batches!Ids(c)
    BY DEF Batches!Ids
  <2>1. i \in DOMAIN c
    BY <1>1, <1>2, <1>3, <1>5, <1>7
  <2>2. c[i] = p[i]
    BY <1>4, <1>5, <1>7, <2>1
  <2> QED
    BY <2>1, <2>2 DEF Batches!Ids
<1>11. Batches!Ids(f) \subseteq Batches!Ids(c)
  <2> SUFFICES ASSUME NEW i \in DOMAIN f
               PROVE  f[i].id \in Batches!Ids(c)
    BY DEF Batches!Ids
  <2>1. k + i \in DOMAIN c
    BY <1>1, <1>2, <1>3, <1>5, <1>7
  <2>2. c[k + i] = f[i]
    BY <1>4, <1>5, <1>7, <2>1
  <2> QED
    BY <2>1, <2>2 DEF Batches!Ids
<1>12. Batches!Ids(u) = Batches!Ids(c) \cup {WholeId}
  <2>1. DOMAIN u = DOMAIN c \cup {k}
    BY <1>1, <1>2, <1>3, <1>4, <1>7
  <2>2. u[k].id = WholeId
    BY <1>4
  <2>3. \A i \in DOMAIN u : u[i].id \in Batches!Ids(c) \cup {WholeId}
    BY <1>7, <2>1, <2>2 DEF Batches!Ids
  <2>4. \A i \in DOMAIN c : c[i].id \in Batches!Ids(u)
    BY <1>7, <2>1 DEF Batches!Ids
  <2>5. WholeId \in Batches!Ids(u)
    BY <2>1, <2>2 DEF Batches!Ids
  <2>6. Batches!Ids(u) \subseteq Batches!Ids(c) \cup {WholeId}
    BY <2>3 DEF Batches!Ids
  <2>7. Batches!Ids(c) \subseteq Batches!Ids(u)
    BY <2>4 DEF Batches!Ids
  <2> QED
    BY <2>5, <2>6, <2>7
<1>13. WholeId \notin Batches!Ids(p) /\ WholeId \notin Batches!Ids(f)
  BY PartNames
<1> QED
  BY <1>4, <1>5, <1>6, <1>9, <1>10, <1>11, <1>12, <1>13 DEF Among

\* Parts that follow parts.
LEMMA PartsJoined ==
    ASSUME NEW p \in Seq(PartUnit), NEW f \in Seq(PartUnit)
    PROVE  /\ p \o f \in Seq(PartUnit)
           /\ Batches!Ids(p \o f) = Batches!Ids(p) \cup Batches!Ids(f)
<1>1. PICK n \in Nat : n = Len(p)
  OBVIOUS
<1>2. PICK m \in Nat : m = Len(f)
  OBVIOUS
<1>3. PICK u : u = p \o f
  OBVIOUS
<1>10. u \in Seq(PartUnit)
  BY ONLY <1>3, p \in Seq(PartUnit), f \in Seq(PartUnit)
<1>4. Joins(u, p, n, f, m)
  BY <1>1, <1>2, <1>3, JoinedSequences
<1>5. DOMAIN p = 1 .. n /\ DOMAIN f = 1 .. m /\ DOMAIN u = 1 .. n + m
  BY <1>1, <1>2, <1>4 DEF Joins
<1>6. (\A i \in 1 .. n : u[i] = p[i]) /\ \A i \in 1 .. m : u[n + i] = f[i]
  BY <1>4 DEF Joins
<1>7. Batches!Ids(u) \subseteq Batches!Ids(p) \cup Batches!Ids(f)
  <2> SUFFICES ASSUME NEW i \in DOMAIN u
               PROVE  u[i].id \in Batches!Ids(p) \cup Batches!Ids(f)
    BY DEF Batches!Ids
  <2>1. CASE i \in 1 .. n
    BY <1>5, <1>6, <2>1 DEF Batches!Ids
  <2>2. CASE i \notin 1 .. n
    <3>1. PICK j \in 1 .. m : n + j = i
      <4>1. i - n \in 1 .. m /\ n + (i - n) = i
        BY <1>1, <1>2, <1>5, <2>2
      <4> QED
        BY <4>1
    <3> QED
      BY <1>5, <1>6, <3>1 DEF Batches!Ids
  <2> QED
    BY <2>1, <2>2
<1>8. Batches!Ids(p) \subseteq Batches!Ids(u)
  <2> SUFFICES ASSUME NEW i \in DOMAIN p
               PROVE  p[i].id \in Batches!Ids(u)
    BY DEF Batches!Ids
  <2>1. i \in DOMAIN u /\ u[i] = p[i]
    BY <1>1, <1>2, <1>5, <1>6
  <2> QED
    BY <2>1 DEF Batches!Ids
<1>9. Batches!Ids(f) \subseteq Batches!Ids(u)
  <2> SUFFICES ASSUME NEW i \in DOMAIN f
               PROVE  f[i].id \in Batches!Ids(u)
    BY DEF Batches!Ids
  <2>1. n + i \in DOMAIN u
    BY <1>1, <1>2, <1>5
  <2>2. u[n + i] = f[i]
    BY <1>5, <1>6
  <2> QED
    BY <2>1, <2>2 DEF Batches!Ids
<1> QED
  BY <1>3, <1>7, <1>8, <1>9, <1>10

\* A whole that follows the parts.
LEMMA WholeAfterParts ==
    ASSUME NEW p \in Seq(PartUnit), NEW w, w.kind = "whole_resource", w.id = WholeId, NEW u, u = Append(p, w)
    PROVE  /\ Among(u, w, p, <<>>) /\ Batches!NoWhole(u) = p
           /\ Batches!Ids(u) = Batches!Ids(p) \cup {WholeId} /\ WholeId \notin Batches!Ids(p)
<1>1. PICK n \in Nat : n = Len(p)
  OBVIOUS
<1>2. PICK k \in Nat : k = n + 1
  BY <1>1
<1>3. PICK f : f = <<>>
  OBVIOUS
<1>4. f \in Seq(PartUnit) /\ Len(f) = 0 /\ 0 \in Nat
  BY <1>3
<1>5. u = Append(p, w) \o f
  <2>1. u \in Seq(PartUnit \cup {w})
    BY p \in Seq(PartUnit \cup {w})
  <2> QED
    BY <1>3, <2>1, ConcatEmptySeq
<1>6. Among(u, w, p, f)
  BY <1>4, <1>5, WholeAmongParts
<1>7. Surrounds(u, w, k, p, n, f, 0)
  BY <1>1, <1>2, <1>4, <1>5, PartsAround
<1>8. DOMAIN u = 1 .. k /\ Wholes(u) = {k} /\ \A i \in 1 .. n : u[i] = p[i]
  BY <1>2, <1>7 DEF Surrounds
<1>9. {i \in DOMAIN u : ~Batches!IsWhole(u[i])} = DOMAIN p
  <2>1. {i \in DOMAIN u : ~Batches!IsWhole(u[i])} = (1 .. k) \ {k}
    BY <1>8 DEF Wholes
  <2>2. (1 .. k) \ {k} = 1 .. n
    BY <1>1, <1>2
  <2> QED
    BY <1>1, <2>1, <2>2
<1>10. Batches!NoWhole(u) = [i \in DOMAIN p |-> u[i]]
  BY <1>9 DEF Batches!NoWhole, Batches!Restrict
<1>11. \A i \in DOMAIN p : u[i] = p[i]
  BY <1>1, <1>8
<1>12. Batches!NoWhole(u) = p
  <2>1. p = [i \in DOMAIN p |-> p[i]]
    OBVIOUS
  <2> QED
    BY <1>10, <1>11, <2>1
<1>13. Batches!Ids(f) = {}
  BY <1>4 DEF Batches!Ids
<1> QED
  BY <1>3, <1>6, <1>12, <1>13 DEF Among

-----------------------------------------------------------------------------
(* _build_transcript_batch and build_video_frame_caption_batch. *)

Whole(p) == Batches!WholeUnit("whole", Batches!Tokens(p), Batches!Ids(p))

IsMapping(v) == v = [x \in DOMAIN v |-> v[x]]

\* A batch whose whole is there with its vector, or without any.
WithWhole(b, p, given) ==
    /\ b.units = Append(p, Whole(p)) /\ IsMapping(b.vectors)
    /\ DOMAIN b.vectors = IF given THEN Batches!Ids(b.units) ELSE {}
    /\ given /\ Batches!Aggregation(Batches!Tokens(p)) = "centroid" =>
          b.vectors[WholeId] = Batches!Centroid(Batches!Restrict(b.vectors, Batches!Ids(p)), Batches!PositiveWeights(p))

PartsOnly(b, p, given) ==
    b.units = p /\ IsMapping(b.vectors) /\ DOMAIN b.vectors = IF given THEN Batches!Ids(p) ELSE {}

LEMMA NothingGiven ==
    Batches!NoVectors.given = FALSE /\ DOMAIN Batches!NoVectors.of = {} /\ IsMapping(Batches!NoVectors.of)
BY DEF Batches!NoVectors, IsMapping

LEMMA VectorsAsGiven ==
    ASSUME NEW v
    PROVE  Batches!Given(v).given = TRUE /\ Batches!Given(v).of = v
BY DEF Batches!Given

LEMMA PartsBuilt ==
    ASSUME NEW p \in Seq(PartUnit), NEW name, NEW V, V.given \in BOOLEAN, IsMapping(V.of),
           ~V.given => DOMAIN V.of = {},
           NEW b, b = Batches!BuildBatch(p, name, "off", V), b.error = "none"
    PROVE  PartsOnly(b, p, V.given)
<1>1. \A why : why # "none" => Batches!Refused(why).error # "none"
  BY DEF Batches!Refused
<1>2. /\ V.given => DOMAIN V.of = Batches!Ids(p)
      /\ b = Batches!Batch(p, V.of)
  BY <1>1 DEF Batches!BuildBatch
<1>3. b.units = p /\ b.vectors = V.of
  BY <1>2 DEF Batches!Batch
<1> QED
  BY <1>2, <1>3 DEF PartsOnly

LEMMA WholeBuilt ==
    ASSUME NEW p \in Seq(PartUnit), NEW V, V.given \in BOOLEAN, IsMapping(V.of),
           ~V.given => DOMAIN V.of = {},
           NEW b, b = Batches!BuildBatch(p, "whole", "caller_split", V), b.error = "none"
    PROVE  WithWhole(b, p, V.given)
<1>1. \A why : why # "none" => Batches!Refused(why).error # "none"
  BY DEF Batches!Refused
<1>2. PICK w : w = Whole(p)
  OBVIOUS
<1>3. w.kind = "whole_resource" /\ w.id = WholeId
  BY <1>2 DEF Whole, Batches!WholeUnit, WholeId
<1>4. PICK u : u = Append(p, w)
  OBVIOUS
<1>5. Batches!Ids(u) = Batches!Ids(p) \cup {WholeId} /\ WholeId \notin Batches!Ids(p)
  BY <1>3, <1>4, WholeAfterParts
<1>6. PICK long : long = (Batches!Tokens(p) > Limit)
  OBVIOUS
<1>7. Batches!Aggregation(Batches!Tokens(p)) = "centroid" <=> long
  BY <1>6 DEF Batches!Aggregation
<1>8. CASE ~long
  <2>1. V.given => DOMAIN V.of = Batches!Ids(u)
    BY <1>1, <1>2, <1>4, <1>6, <1>8 DEF Batches!BuildBatch, Whole
  <2>2. b = Batches!Batch(u, V.of)
    BY <1>1, <1>2, <1>4, <1>6, <1>8 DEF Batches!BuildBatch, Whole
  <2>3. b.units = u /\ b.vectors = V.of
    BY <2>2 DEF Batches!Batch
  <2> QED
    BY <1>2, <1>4, <1>7, <1>8, <2>1, <2>3 DEF WithWhole
<1>9. CASE long
  <2>1. PICK c : c = Batches!Centroid(V.of, Batches!PositiveWeights(p))
    OBVIOUS
  <2>2. V.given
    BY <1>1, <1>6, <1>9 DEF Batches!BuildBatch
  <2>3. DOMAIN V.of = Batches!Ids(p)
    BY <1>1, <1>6, <1>9, <2>2 DEF Batches!BuildBatch
  <2>4. PICK v : v = [x \in Batches!Ids(u) |-> IF x = w.id THEN c ELSE V.of[x]]
    OBVIOUS
  <2>5. b = Batches!Batch(u, v)
    BY <1>1, <1>2, <1>4, <1>6, <1>9, <2>1, <2>2, <2>4 DEF Batches!BuildBatch, Whole
  <2>6. b.units = u /\ b.vectors = v
    BY <2>5 DEF Batches!Batch
  <2>7. DOMAIN v = Batches!Ids(u) /\ v[WholeId] = c /\ \A x \in Batches!Ids(p) : v[x] = V.of[x]
    BY <1>3, <1>5, <2>4
  <2>8. Batches!Restrict(v, Batches!Ids(p)) = V.of
    BY <2>3, <2>7 DEF Batches!Restrict, IsMapping
  <2>9. IsMapping(v)
    BY <2>4 DEF IsMapping
  <2> QED
    BY <1>2, <1>4, <2>1, <2>2, <2>6, <2>7, <2>8, <2>9 DEF WithWhole
<1> QED
  BY <1>6, <1>8, <1>9

LEMMA TranscriptParts ==
    ASSUME IngestionAssumption, NEW r \in BatchRequests, NEW V, V.given \in BOOLEAN, IsMapping(V.of),
           ~V.given => DOMAIN V.of = {},
           NEW b, b = Batches!BuildTranscript(r, "off", V), b.error = "none"
    PROVE  PartsOnly(b, Batches!Passages(r), V.given)
<1>1. Batches!Passages(r) \in Seq(PartUnit)
  BY IngestionAssumption, UnitsOfRequest
<1>2. b = Batches!BuildBatch(Batches!Passages(r), "whole", "off", V)
  BY DEF Batches!BuildTranscript, Batches!Refused
<1> QED
  BY <1>1, <1>2, PartsBuilt

LEMMA TranscriptWhole ==
    ASSUME IngestionAssumption, NEW r \in BatchRequests, NEW V, V.given \in BOOLEAN, IsMapping(V.of),
           ~V.given => DOMAIN V.of = {},
           NEW b, b = Batches!BuildTranscript(r, "caller_split", V), b.error = "none"
    PROVE  WithWhole(b, Batches!Passages(r), V.given)
<1>1. Batches!Passages(r) \in Seq(PartUnit)
  BY IngestionAssumption, UnitsOfRequest
<1>2. b = Batches!BuildBatch(Batches!Passages(r), "whole", "caller_split", V)
  BY DEF Batches!BuildTranscript, Batches!Refused
<1> QED
  BY <1>1, <1>2, WholeBuilt

LEMMA FramesBuilt ==
    ASSUME IngestionAssumption, NEW r \in BatchRequests, NEW V, V.given \in BOOLEAN, IsMapping(V.of),
           ~V.given => DOMAIN V.of = {},
           NEW b, b = (IF r.frames = <<>> THEN Batches!Batch(<<>>, Batches!NoVectors.of) ELSE Batches!BuildFrames(r, V)),
           b.error = "none"
    PROVE  PartsOnly(b, Batches!Frames(r), V.given)
<1>1. Batches!Frames(r) \in Seq(PartUnit)
  BY IngestionAssumption, UnitsOfRequest
<1>2. CASE r.frames = <<>>
  <2>1. Batches!Frames(r) = <<>>
    BY <1>1, <1>2 DEF Batches!Frames
  <2>2. b.units = <<>> /\ b.vectors = Batches!NoVectors.of
    BY <1>2 DEF Batches!Batch
  <2>3. Batches!Ids(<<>>) = {}
    BY DEF Batches!Ids
  <2> QED
    BY <2>1, <2>2, <2>3, NothingGiven DEF PartsOnly
<1>3. CASE r.frames # <<>>
  <2>1. b = Batches!BuildBatch(Batches!Frames(r), "captions", "off", V)
    BY <1>3 DEF Batches!BuildFrames
  <2> QED
    BY <1>1, <2>1, PartsBuilt
<1> QED
  BY <1>2, <1>3

-----------------------------------------------------------------------------
(* A transcript of its own. *)

LEMMA TranscriptComplete ==
    ASSUME IngestionAssumption, NEW r \in BatchRequests, r.service # "video", NEW given \in BOOLEAN,
           NEW b, WithWhole(b, Batches!Passages(r), given)
    PROVE  Complete(r, b, given)
<1>1. PICK p \in Seq(PartUnit) : p = Batches!Passages(r)
  BY IngestionAssumption, UnitsOfRequest
<1>2. PICK w : w = Whole(p)
  OBVIOUS
<1>3. w.kind = "whole_resource" /\ w.id = WholeId /\ w.tokens = Batches!Tokens(p) /\ w.covers = Batches!Ids(p)
  BY <1>2 DEF Whole, Batches!WholeUnit, WholeId
<1>4. PICK u : u = Append(p, w)
  OBVIOUS
<1>5. Among(u, w, p, <<>>) /\ Batches!NoWhole(u) = p
  BY <1>3, <1>4, WholeAfterParts
<1>6. PICK k \in DOMAIN u : Wholes(u) = {k} /\ u[k] = w
  BY <1>5 DEF Among
<1>7. /\ b.units = u /\ DOMAIN b.vectors = IF given THEN Batches!Ids(u) ELSE {}
      /\ given /\ Batches!Aggregation(Batches!Tokens(p)) = "centroid" =>
            b.vectors[WholeId] = Batches!Centroid(Batches!Restrict(b.vectors, Batches!Ids(p)), Batches!PositiveWeights(p))
  BY <1>1, <1>2, <1>4 DEF WithWhole
<1> QED
  BY <1>1, <1>3, <1>5, <1>6, <1>7 DEF Complete

LEMMA PassagesComplete ==
    ASSUME IngestionAssumption, NEW r \in BatchRequests, r.service # "video",
           NEW b, PartsOnly(b, Batches!Passages(r), FALSE)
    PROVE  Complete(r, b, FALSE)
<1>1. PICK p \in Seq(PartUnit) : p = Batches!Passages(r)
  BY IngestionAssumption, UnitsOfRequest
<1>2. Batches!NoWhole(p) = p /\ Wholes(p) = {}
  BY PartsAlone
<1>3. b.units = p /\ DOMAIN b.vectors = {}
  BY <1>1 DEF PartsOnly
<1> QED
  BY <1>1, <1>2, <1>3 DEF Complete

LEMMA TranscriptPrepared ==
    ASSUME IngestionAssumption, NEW r \in BatchRequests, r.service # "video",
           NEW b, b = Batches!PrepareTranscript(r), b.error = "none"
    PROVE  Complete(r, b, FALSE)
<1>1. PICK V : V = Batches!NoVectors
  OBVIOUS
<1>2. V.given = FALSE /\ V.given \in BOOLEAN /\ IsMapping(V.of) /\ (~V.given => DOMAIN V.of = {})
  BY <1>1, NothingGiven
<1>3. b = Batches!BuildTranscript(r, "caller_split", V) \/ b = Batches!BuildTranscript(r, "off", V)
  BY <1>1 DEF Batches!PrepareTranscript
<1>4. CASE b = Batches!BuildTranscript(r, "caller_split", V)
  <2>1. WithWhole(b, Batches!Passages(r), V.given)
    BY IngestionAssumption, <1>2, <1>4, TranscriptWhole
  <2> QED
    BY IngestionAssumption, <1>2, <2>1, TranscriptComplete
<1>5. CASE b = Batches!BuildTranscript(r, "off", V)
  <2>1. PartsOnly(b, Batches!Passages(r), V.given)
    BY IngestionAssumption, <1>2, <1>5, TranscriptParts
  <2> QED
    BY IngestionAssumption, <1>2, <2>1, PassagesComplete
<1> QED
  BY <1>3, <1>4, <1>5

LEMMA TranscriptEmbedded ==
    ASSUME IngestionAssumption, NEW r \in BatchRequests, r.service # "video", NEW v, IsMapping(v),
           NEW b, b = Batches!EmbedTranscript(r, v), b.error = "none"
    PROVE  Complete(r, b, TRUE)
<1>1. PICK V : V = Batches!Given(v)
  OBVIOUS
<1>2. V.given = TRUE /\ V.given \in BOOLEAN /\ IsMapping(V.of) /\ (~V.given => DOMAIN V.of = {})
  BY <1>1, VectorsAsGiven
<1>3. b = Batches!BuildTranscript(r, "caller_split", V)
  BY <1>1 DEF Batches!EmbedTranscript
<1>4. WithWhole(b, Batches!Passages(r), V.given)
  BY IngestionAssumption, <1>2, <1>3, TranscriptWhole
<1> QED
  BY IngestionAssumption, <1>2, <1>4, TranscriptComplete

-----------------------------------------------------------------------------
(* A video: its transcript, its frames and the whole of both. *)

LEMMA MaxOfOne ==
    ASSUME NEW t \in Nat, t >= 1
    PROVE  Batches!Max({1, t}) = t
<1>1. t \in {1, t} /\ \A y \in {1, t} : t >= y
  OBVIOUS
<1>2. \A x \in {1, t} : (\A y \in {1, t} : x >= y) => x = t
  OBVIOUS
<1> QED
  BY <1>1, <1>2 DEF Batches!Max

\* Where a centroid can be taken, the weights are the tokens.
LEMMA WeightsAreTokens ==
    ASSUME NEW units, \A i \in DOMAIN units : units[i].tokens \in Nat,
           NEW vectors, Batches!CentroidOK(vectors, Batches!TokenWeights(units))
    PROVE  Batches!PositiveWeights(units) = Batches!TokenWeights(units)
<1>1. PICK weights : weights = Batches!TokenWeights(units)
  OBVIOUS
<1>2. DOMAIN weights = Batches!Ids(units) /\ weights = [x \in DOMAIN weights |-> weights[x]]
  BY <1>1 DEF Batches!TokenWeights
<1>3. \A x \in DOMAIN weights : ~(weights[x] < 1)
  BY <1>1 DEF Batches!CentroidOK, Batches!CentroidFails
<1>4. \A x \in DOMAIN weights : weights[x] \in Nat
  <2> SUFFICES ASSUME NEW x \in Batches!Ids(units)
               PROVE  weights[x] \in Nat
    BY <1>2
  <2>1. \E i \in DOMAIN units : units[i].id = x
    BY DEF Batches!Ids
  <2> DEFINE i == CHOOSE i \in DOMAIN units : units[i].id = x
  <2>2. i \in DOMAIN units
    BY <2>1
  <2>3. weights[x] = units[i].tokens
    BY <1>1 DEF Batches!TokenWeights
  <2> HIDE DEF i
  <2> QED
    BY <2>2, <2>3
<1>5. \A x \in DOMAIN weights : weights[x] >= 1
  BY <1>3, <1>4
<1>6. \A x \in DOMAIN weights : Batches!Max({1, weights[x]}) = weights[x]
  BY <1>4, <1>5, MaxOfOne
<1>7. Batches!PositiveWeights(units) = [x \in DOMAIN weights |-> Batches!Max({1, weights[x]})]
  BY <1>1, <1>2 DEF Batches!PositiveWeights
<1> QED
  BY <1>1, <1>2, <1>6, <1>7

\* What the whole of all parts says.
Aggregated(c, p, f, given, aggregation) ==
    LET parts == Batches!NoWhole(c.units)
    IN  /\ Batches!Ids(parts) = Batches!Ids(p) \cup Batches!Ids(f)
        /\ DOMAIN c.vectors = IF given THEN Batches!Ids(c.units) ELSE {}
        /\ \E k \in DOMAIN c.units :
              /\ Wholes(c.units) = {k} /\ c.units[k].id = WholeId
              /\ c.units[k].covers = Batches!Ids(parts) /\ c.units[k].tokens = Batches!Tokens(parts)
        /\ given /\ aggregation = "centroid" =>
              c.vectors[WholeId] =
                  Batches!Centroid(Batches!Restrict(c.vectors, Batches!Ids(parts)), Batches!PositiveWeights(parts))

\* The units u have the whole of s made one of all the parts.
CoversAll(u, s, parts, p, f) ==
    /\ Batches!NoWhole(u) = parts /\ Batches!Ids(parts) = Batches!Ids(p) \cup Batches!Ids(f)
    /\ Batches!Ids(u) = Batches!Ids(s)
    /\ Batches!Ids(s) = Batches!Ids(parts) \cup {WholeId} /\ WholeId \notin Batches!Ids(parts)
    /\ \E k \in DOMAIN u :
          /\ Wholes(u) = {k} /\ u[k].id = WholeId
          /\ u[k].covers = Batches!Ids(parts) /\ u[k].tokens = Batches!Tokens(parts)
          /\ Wholes(s) = {k} /\ k \in DOMAIN s /\ s[k].id = WholeId

LEMMA WholeOfAllCovers ==
    ASSUME NEW p \in Seq(PartUnit), NEW f \in Seq(PartUnit), NEW b, NEW s, s = b.units,
           s = Append(p, Whole(p)) \o f,
           NEW u, u = Batches!WholeOfAll(b), NEW parts, parts = Batches!NoWhole(s)
    PROVE  CoversAll(u, s, parts, p, f)
<1>1. PICK w : w = Whole(p)
  OBVIOUS
<1>2. w = [id |-> WholeId, kind |-> "whole_resource", tokens |-> Batches!Tokens(p), covers |-> Batches!Ids(p)]
  BY <1>1 DEF Whole, Batches!WholeUnit, WholeId
<1>3. w.kind = "whole_resource" /\ w.id = WholeId
  BY <1>2
<1>4. s = b.units
  OBVIOUS
<1>5. s = Append(p, w) \o f
  BY <1>1
<1>6. Among(s, w, p, f)
  BY <1>3, <1>5, WholeAmongParts
<1>7. PICK k \in DOMAIN s : Wholes(s) = {k} /\ s[k] = w
  BY <1>6 DEF Among
<1>8. Batches!Ids(parts) = Batches!Ids(p) \cup Batches!Ids(f)
  BY <1>4, <1>6 DEF Among
<1>9. Batches!Ids(s) = Batches!Ids(parts) \cup {WholeId} /\ WholeId \notin Batches!Ids(parts)
  BY <1>6, <1>8 DEF Among
<1>10. PICK z : z = [w EXCEPT !.tokens = Batches!Tokens(parts), !.covers = Batches!Ids(parts)]
  OBVIOUS
<1>11. /\ z.kind = "whole_resource" /\ z.id = WholeId
       /\ z.tokens = Batches!Tokens(parts) /\ z.covers = Batches!Ids(parts)
  BY <1>2, <1>10
<1>12. \A i \in DOMAIN s : Batches!IsWhole(s[i]) <=> i = k
  BY <1>7 DEF Wholes
<1>13. DOMAIN u = DOMAIN s /\ u[k] = z /\ \A i \in DOMAIN s : i # k => u[i] = s[i]
  <2>1. u = [i \in DOMAIN s |->
               IF Batches!IsWhole(s[i])
               THEN [s[i] EXCEPT !.tokens = Batches!Tokens(parts), !.covers = Batches!Ids(parts)] ELSE s[i]]
    BY <1>4 DEF Batches!WholeOfAll
  <2>2. DOMAIN u = DOMAIN s /\ \A i \in DOMAIN s : i # k => u[i] = s[i]
    BY <1>12, <2>1
  <2>3. u[k] = z
    BY <1>7, <1>10, <1>12, <2>1
  <2> QED
    BY <2>2, <2>3
<1>14. Batches!IsWhole(z)
  BY <1>11 DEF Batches!IsWhole
<1>15. \A i \in DOMAIN u : Batches!IsWhole(u[i]) <=> i = k
  BY <1>12, <1>13, <1>14
<1>16. Wholes(u) = {k}
  BY <1>7, <1>13, <1>15 DEF Wholes
<1>17. Batches!NoWhole(u) = parts
  <2>1. {i \in DOMAIN u : ~Batches!IsWhole(u[i])} = DOMAIN s \ {k}
    BY <1>13, <1>15
  <2>2. {i \in DOMAIN s : ~Batches!IsWhole(s[i])} = DOMAIN s \ {k}
    BY <1>12
  <2>3. Batches!NoWhole(u) = [i \in DOMAIN s \ {k} |-> u[i]]
    BY <2>1 DEF Batches!NoWhole, Batches!Restrict
  <2>4. parts = [i \in DOMAIN s \ {k} |-> s[i]]
    BY <1>4, <2>2 DEF Batches!NoWhole, Batches!Restrict
  <2> QED
    BY <1>13, <2>3, <2>4
<1>18. Batches!Ids(u) = Batches!Ids(s)
  <2>1. \A i \in DOMAIN s : u[i].id = s[i].id
    BY <1>3, <1>7, <1>11, <1>13
  <2> QED
    BY <1>13, <2>1 DEF Batches!Ids
<1> QED
  BY <1>3, <1>7, <1>8, <1>9, <1>11, <1>13, <1>16, <1>17, <1>18 DEF CoversAll

LEMMA PartsCounted ==
    ASSUME NEW p \in Seq(PartUnit), NEW f \in Seq(PartUnit),
           NEW w, w.kind = "whole_resource", NEW u, u = Append(p, w) \o f
    PROVE  \A i \in DOMAIN Batches!NoWhole(u) : Batches!NoWhole(u)[i].tokens \in Nat
<1>1. PICK n \in Nat : n = Len(p)
  OBVIOUS
<1>2. PICK m \in Nat : m = Len(f)
  OBVIOUS
<1>3. PICK k \in Nat : k = n + 1
  BY <1>1
<1>4. Surrounds(u, w, k, p, n, f, m)
  BY <1>1, <1>2, <1>3, PartsAround
<1>5. /\ DOMAIN u = 1 .. k + m /\ Wholes(u) = {k}
      /\ \A i \in 1 .. n : u[i] = p[i]
      /\ \A i \in 1 .. m : u[k + i] = f[i]
  BY <1>4 DEF Surrounds
<1>6. PICK c : c = Batches!NoWhole(u)
  OBVIOUS
<1>7. DOMAIN c = (1 .. k + m) \ {k} /\ \A i \in DOMAIN c : c[i] = u[i]
  BY <1>5, <1>6 DEF Batches!NoWhole, Batches!Restrict, Wholes
<1>8. \A x \in PartUnit : x.tokens \in Nat
  BY DEF PartUnit
<1>9. \A i \in DOMAIN c : c[i] \in PartUnit
  <2> TAKE i \in DOMAIN c
  <2>1. CASE i \in 1 .. n
    BY <1>1, <1>5, <1>7, <2>1
  <2>2. CASE i \notin 1 .. n
    <3>1. i - k \in 1 .. m /\ k + (i - k) = i
      BY <1>1, <1>2, <1>3, <1>7, <2>2
    <3>2. PICK j \in 1 .. m : k + j = i
      BY <3>1
    <3>3. c[i] = f[j]
      BY <1>5, <1>7, <3>2
    <3> QED
      BY <1>2, <3>2, <3>3
  <2> QED
    BY <2>1, <2>2
<1> QED
  BY <1>6, <1>8, <1>9

\* _aggregate_video_whole_resource
LEMMA AggregateCompletes ==
    ASSUME NEW p \in Seq(PartUnit), NEW f \in Seq(PartUnit), NEW units, units = Append(p, Whole(p)) \o f,
           NEW vectors, IsMapping(vectors), NEW given \in BOOLEAN,
           DOMAIN vectors = IF given THEN Batches!Ids(units) ELSE {},
           NEW j, j = Batches!Batch(units, vectors), NEW aggregation \in {"direct_text", "centroid"},
           NEW c, c = Batches!Aggregate(j, aggregation), c.error = "none"
    PROVE  Aggregated(c, p, f, given, aggregation)
<1>1. j = [error |-> "none", units |-> units, vectors |-> vectors]
  BY DEF Batches!Batch
<1>2. j.units = units /\ j.vectors = vectors
  BY <1>1
<1>3. PICK u : u = Batches!WholeOfAll(j)
  OBVIOUS
<1>4. PICK parts : parts = Batches!NoWhole(units)
  OBVIOUS
<1>5. CoversAll(u, units, parts, p, f)
  BY <1>2, <1>3, <1>4, WholeOfAllCovers
<1>6. PICK k \in DOMAIN u :
         /\ Wholes(u) = {k} /\ u[k].id = WholeId
         /\ u[k].covers = Batches!Ids(parts) /\ u[k].tokens = Batches!Tokens(parts)
         /\ Wholes(units) = {k} /\ k \in DOMAIN units /\ units[k].id = WholeId
  BY <1>5 DEF CoversAll
<1>9. /\ Batches!NoWhole(u) = parts /\ Batches!Ids(parts) = Batches!Ids(p) \cup Batches!Ids(f)
      /\ Batches!Ids(u) = Batches!Ids(units)
      /\ Batches!Ids(units) = Batches!Ids(parts) \cup {WholeId} /\ WholeId \notin Batches!Ids(parts)
  BY <1>5 DEF CoversAll
<1>10. DOMAIN vectors = IF given THEN Batches!Ids(u) ELSE {}
  BY <1>9
<1>11. \A v : (/\ v.units = u
               /\ DOMAIN v.vectors = IF given THEN Batches!Ids(u) ELSE {}
               /\ given /\ aggregation = "centroid" =>
                     v.vectors[WholeId] = Batches!Centroid(Batches!Restrict(v.vectors, Batches!Ids(parts)),
                                                           Batches!PositiveWeights(parts)))
            => Aggregated(v, p, f, given, aggregation)
  BY <1>6, <1>9 DEF Aggregated
<1>7. CASE aggregation = "direct_text" \/ DOMAIN vectors = {}
  <2>1. c = [j EXCEPT !.units = u]
    <3>1. aggregation = "direct_text" \/ DOMAIN j.vectors = {}
      BY <1>2, <1>7
    <3>2. Batches!Aggregate(j, aggregation) = [j EXCEPT !.units = Batches!WholeOfAll(j)]
      BY ONLY <3>1, Zenon DEF Batches!Aggregate
    <3> QED
      BY <1>3, <3>2
  <2>2. c = [error |-> "none", units |-> u, vectors |-> vectors]
    BY ONLY <1>1, <2>1
  <2>3. c.units = u /\ c.vectors = vectors
    BY ONLY <2>2
  <2>4. ~(given /\ aggregation = "centroid")
    BY <1>7, <1>9
  <2> QED
    BY <1>10, <1>11, <2>3, <2>4
<1>8. CASE aggregation # "direct_text" /\ DOMAIN vectors # {}
  <2>1. given /\ DOMAIN vectors = Batches!Ids(parts) \cup {WholeId}
    BY <1>8, <1>9
  <2>2. PICK whole : whole = CHOOSE i \in DOMAIN units : Batches!IsWhole(units[i])
    OBVIOUS
  <2>6. whole = k /\ units[whole].id = WholeId
    BY <1>6, <2>2 DEF Wholes
  <2>3. PICK others : others = Batches!Restrict(vectors, DOMAIN vectors \ {WholeId})
    OBVIOUS
  <2>4. PICK weights : weights = Batches!TokenWeights(parts)
    OBVIOUS
  <2>5. PICK centre : centre = Batches!Centroid(others, weights)
    OBVIOUS
  <2>7. c = IF ~Batches!CentroidOK(others, weights) THEN Batches!Refused("centroid")
                 ELSE [j EXCEPT !.units = u, !.vectors = [@ EXCEPT ![WholeId] = centre]]
    <3>1. PICK id : id = j.units[CHOOSE i \in DOMAIN j.units : Batches!IsWhole(j.units[i])].id
      OBVIOUS
    <3>2. id = WholeId
      BY <1>2, <2>2, <2>6, <3>1
    <3>3. ~(aggregation = "direct_text" \/ DOMAIN j.vectors = {})
      BY <1>2, <1>8
    <3>4. others = Batches!Restrict(j.vectors, DOMAIN j.vectors \ {id})
      BY <1>2, <2>3, <3>2
    <3>5. weights = Batches!TokenWeights(Batches!NoWhole(j.units))
      BY <1>2, <1>4, <2>4
    <3>6. c = IF ~Batches!CentroidOK(others, weights) THEN Batches!Refused("centroid")
              ELSE [j EXCEPT !.units = Batches!WholeOfAll(j), !.vectors = [@ EXCEPT ![id] = Batches!Centroid(others, weights)]]
      BY ONLY c = Batches!Aggregate(j, aggregation), <3>1, <3>3, <3>4, <3>5 DEF Batches!Aggregate
    <3> QED
      BY <1>3, <2>5, <3>2, <3>6
  <2>8. Batches!CentroidOK(others, weights)
    BY <2>7 DEF Batches!Refused
  <2>14. c = [error |-> "none", units |-> u, vectors |-> [vectors EXCEPT ![WholeId] = centre]]
    BY ONLY <1>1, <2>7, <2>8
  <2>9. c.units = u /\ c.vectors = [vectors EXCEPT ![WholeId] = centre]
    BY ONLY <2>14
  <2>10. /\ DOMAIN c.vectors = DOMAIN vectors /\ c.vectors[WholeId] = centre
         /\ \A x \in Batches!Ids(parts) : c.vectors[x] = vectors[x]
    BY <1>9, <2>1, <2>9
  <2>11. Batches!Restrict(c.vectors, Batches!Ids(parts)) = others
    <3>1. DOMAIN vectors \ {WholeId} = Batches!Ids(parts)
      BY <1>9, <2>1
    <3> QED
      BY <2>3, <2>10, <3>1 DEF Batches!Restrict
  <2>12. \A i \in DOMAIN parts : parts[i].tokens \in Nat
    <3>1. PICK w : w = Whole(p)
      OBVIOUS
    <3>2. w.kind = "whole_resource"
      BY <3>1 DEF Whole, Batches!WholeUnit
    <3>3. units = Append(p, w) \o f
      BY <3>1
    <3> QED
      BY <1>4, <3>2, <3>3, PartsCounted
  <2>13. Batches!PositiveWeights(parts) = weights
    BY <2>4, <2>8, <2>12, WeightsAreTokens
  <2> QED
    BY <1>10, <1>11, <2>1, <2>5, <2>9, <2>10, <2>11, <2>13
<1> QED
  BY <1>7, <1>8

\* The batches of the transcript and of the frames, put together.
LEMMA VectorsMerged ==
    ASSUME NEW v, NEW w
    PROVE  DOMAIN Batches!Merged(v, w) = DOMAIN v \cup DOMAIN w /\ IsMapping(Batches!Merged(v, w))
BY DEF Batches!Merged, IsMapping

LEMMA VideoComplete ==
    ASSUME IngestionAssumption, NEW r \in BatchRequests, r.service = "video", NEW given \in BOOLEAN,
           NEW b, Aggregated(b, Batches!Passages(r), Batches!Frames(r), given, Batches!VideoAggregation(r))
    PROVE  Complete(r, b, given)
<1>1. PICK parts : parts = Batches!NoWhole(b.units)
  OBVIOUS
<1>2. PICK k \in DOMAIN b.units :
         /\ Wholes(b.units) = {k} /\ b.units[k].id = WholeId
         /\ b.units[k].covers = Batches!Ids(parts) /\ b.units[k].tokens = Batches!Tokens(parts)
  BY <1>1 DEF Aggregated
<1>3. /\ Batches!Ids(parts) = Batches!Ids(Batches!Passages(r)) \cup Batches!Ids(Batches!Frames(r))
      /\ DOMAIN b.vectors = IF given THEN Batches!Ids(b.units) ELSE {}
      /\ given /\ Batches!VideoAggregation(r) = "centroid" =>
            b.vectors[WholeId] =
                Batches!Centroid(Batches!Restrict(b.vectors, Batches!Ids(parts)), Batches!PositiveWeights(parts))
  BY <1>1 DEF Aggregated
<1> QED
  BY <1>1, <1>2, <1>3 DEF Complete

\* A whole that gets every part of the video.
LEMMA VideoWhole ==
    ASSUME IngestionAssumption, NEW r \in BatchRequests, r.service = "video", NEW given \in BOOLEAN,
           NEW tb, WithWhole(tb, Batches!Passages(r), given),
           NEW fb, PartsOnly(fb, Batches!Frames(r), given),
           NEW b, b = Batches!Aggregate(Batches!Batch(tb.units \o fb.units, Batches!Merged(tb.vectors, fb.vectors)),
                                        Batches!VideoAggregation(r)),
           b.error = "none"
    PROVE  Complete(r, b, given)
<1>1. PICK p \in Seq(PartUnit) : p = Batches!Passages(r)
  BY IngestionAssumption, UnitsOfRequest
<1>2. PICK f \in Seq(PartUnit) : f = Batches!Frames(r)
  BY IngestionAssumption, UnitsOfRequest
<1>3. PICK w : w = Whole(p)
  OBVIOUS
<1>4. w.kind = "whole_resource" /\ w.id = WholeId
  BY <1>3 DEF Whole, Batches!WholeUnit, WholeId
<1>5. tb.units = Append(p, w) /\ DOMAIN tb.vectors = IF given THEN Batches!Ids(tb.units) ELSE {}
  BY <1>1, <1>3 DEF WithWhole
<1>6. fb.units = f /\ DOMAIN fb.vectors = IF given THEN Batches!Ids(f) ELSE {}
  BY <1>2 DEF PartsOnly
<1>7. PICK units : units = tb.units \o fb.units
  OBVIOUS
<1>8. units = Append(p, w) \o f
  BY <1>5, <1>6, <1>7
<1>9. PICK vectors : vectors = Batches!Merged(tb.vectors, fb.vectors)
  OBVIOUS
<1>10. DOMAIN vectors = DOMAIN tb.vectors \cup DOMAIN fb.vectors /\ IsMapping(vectors)
  BY <1>9, VectorsMerged
<1>11. Batches!Ids(units) = Batches!Ids(p) \cup Batches!Ids(f) \cup {WholeId}
  <2>1. Among(units, w, p, f)
    BY <1>4, <1>8, WholeAmongParts
  <2> QED
    BY <2>1 DEF Among
<1>12. Batches!Ids(tb.units) = Batches!Ids(p) \cup {WholeId}
  BY <1>4, <1>5, WholeAfterParts
<1>13. DOMAIN vectors = IF given THEN Batches!Ids(units) ELSE {}
  BY <1>5, <1>6, <1>10, <1>11, <1>12
<1>14. PICK j : j = Batches!Batch(units, vectors)
  OBVIOUS
<1>15. PICK aggregation \in {"direct_text", "centroid"} : aggregation = Batches!VideoAggregation(r)
  BY DEF Batches!VideoAggregation, Batches!Aggregation
<1>16. b = Batches!Aggregate(j, aggregation)
  BY <1>7, <1>9, <1>14, <1>15
<1>17. units = Append(p, Whole(p)) \o f
  BY <1>3, <1>8
<1>18. Aggregated(b, p, f, given, aggregation)
  <2>1. /\ units = Append(p, Whole(p)) \o f /\ IsMapping(vectors)
        /\ DOMAIN vectors = (IF given THEN Batches!Ids(units) ELSE {})
        /\ j = Batches!Batch(units, vectors) /\ b = Batches!Aggregate(j, aggregation) /\ b.error = "none"
    BY <1>10, <1>13, <1>14, <1>16, <1>17
  <2> QED
    BY ONLY <2>1, p \in Seq(PartUnit), f \in Seq(PartUnit), given \in BOOLEAN,
            aggregation \in {"direct_text", "centroid"}, AggregateCompletes
<1>19. Aggregated(b, Batches!Passages(r), Batches!Frames(r), given, Batches!VideoAggregation(r))
  BY <1>1, <1>2, <1>15, <1>18
<1> QED
  BY IngestionAssumption, <1>19, VideoComplete

\* Parts alone are complete where no vectors are needed.
LEMMA VideoOfParts ==
    ASSUME IngestionAssumption, NEW r \in BatchRequests, r.service = "video",
           NEW tb, PartsOnly(tb, Batches!Passages(r), FALSE),
           NEW fb, PartsOnly(fb, Batches!Frames(r), FALSE),
           NEW b, b = Batches!Batch(tb.units \o fb.units, Batches!Merged(tb.vectors, fb.vectors))
    PROVE  Complete(r, b, FALSE)
<1>1. PICK p \in Seq(PartUnit) : p = Batches!Passages(r)
  BY IngestionAssumption, UnitsOfRequest
<1>2. PICK f \in Seq(PartUnit) : f = Batches!Frames(r)
  BY IngestionAssumption, UnitsOfRequest
<1>3. tb.units = p /\ DOMAIN tb.vectors = {} /\ fb.units = f /\ DOMAIN fb.vectors = {}
  BY <1>1, <1>2 DEF PartsOnly
<1>4. PICK u : u = p \o f
  OBVIOUS
<1>5. u \in Seq(PartUnit) /\ Batches!Ids(u) = Batches!Ids(p) \cup Batches!Ids(f)
  BY <1>4, PartsJoined
<1>6. Batches!NoWhole(u) = u /\ Wholes(u) = {}
  BY <1>5, PartsAlone
<1>7. PICK vectors : vectors = Batches!Merged(tb.vectors, fb.vectors)
  OBVIOUS
<1>8. DOMAIN vectors = {}
  <2>1. DOMAIN vectors = DOMAIN tb.vectors \cup DOMAIN fb.vectors
    BY <1>7, VectorsMerged
  <2> QED
    BY <1>3, <2>1
<1>9. b.units = u /\ b.vectors = vectors
  BY <1>3, <1>4, <1>7 DEF Batches!Batch
<1> QED
  BY <1>1, <1>2, <1>5, <1>6, <1>8, <1>9 DEF Complete

\* VideoCompositionService.prepare, without vectors.
LEMMA VideoPrepared ==
    ASSUME IngestionAssumption, NEW r \in BatchRequests, r.service = "video",
           NEW b, b = Batches!Compose(r, Batches!NoVectors), b.error = "none"
    PROVE  Complete(r, b, FALSE)
<1>1. PICK V : V = Batches!NoVectors
  OBVIOUS
<1>2. V.given = FALSE /\ V.given \in BOOLEAN /\ IsMapping(V.of) /\ (~V.given => DOMAIN V.of = {})
  BY <1>1, NothingGiven
<1>3. PICK direct : direct = (Batches!VideoAggregation(r) = "direct_text")
  OBVIOUS
<1>4. PICK policy : policy = IF direct THEN "caller_split" ELSE "off"
  OBVIOUS
<1>5. PICK tb : tb = Batches!BuildTranscript(r, policy, V)
  OBVIOUS
<1>6. PICK fb : fb = IF r.frames = <<>> THEN Batches!Batch(<<>>, Batches!NoVectors.of) ELSE Batches!BuildFrames(r, V)
  OBVIOUS
<1>7. PICK j : j = Batches!Batch(tb.units \o fb.units, Batches!Merged(tb.vectors, fb.vectors))
  OBVIOUS
<1>8. b = IF tb.error # "none" THEN tb ELSE IF fb.error # "none" THEN fb
          ELSE IF direct THEN Batches!Aggregate(j, Batches!VideoAggregation(r)) ELSE j
  <2>1. b = Batches!Compose(r, V)
    BY <1>1
  <2> QED
    BY ONLY <1>1, <1>2, <1>3, <1>4, <1>5, <1>6, <1>7, <2>1 DEF Batches!Compose
<1>9. tb.error = "none" /\ fb.error = "none"
  BY <1>8
<1>10. PartsOnly(fb, Batches!Frames(r), V.given)
  BY IngestionAssumption, <1>1, <1>2, <1>6, <1>9, FramesBuilt
<1>11. CASE direct
  <2>1. tb = Batches!BuildTranscript(r, "caller_split", V)
    BY <1>4, <1>5, <1>11
  <2>2. WithWhole(tb, Batches!Passages(r), V.given)
    BY IngestionAssumption, <1>2, <1>9, <2>1, TranscriptWhole
  <2>3. b = Batches!Aggregate(j, Batches!VideoAggregation(r))
    BY <1>8, <1>9, <1>11
  <2> QED
    BY IngestionAssumption, <1>2, <1>7, <1>10, <2>2, <2>3, VideoWhole
<1>12. CASE ~direct
  <2>1. tb = Batches!BuildTranscript(r, "off", V)
    BY <1>4, <1>5, <1>12
  <2>2. PartsOnly(tb, Batches!Passages(r), V.given)
    BY IngestionAssumption, <1>2, <1>9, <2>1, TranscriptParts
  <2>3. b = j
    BY <1>8, <1>9, <1>12
  <2> QED
    BY IngestionAssumption, <1>2, <1>7, <1>10, <2>2, <2>3, VideoOfParts
<1> QED
  BY <1>3, <1>11, <1>12

\* VideoCompositionService.prepare, with the vectors of the provider.
LEMMA VideoEmbedded ==
    ASSUME IngestionAssumption, NEW r \in BatchRequests, r.service = "video", NEW v, IsMapping(v),
           NEW b, b = Batches!Compose(r, Batches!Given(v)), b.error = "none"
    PROVE  Complete(r, b, TRUE)
<1>1. PICK V : V = Batches!Given(v)
  OBVIOUS
<1>2. V.given = TRUE /\ V.of = v
  BY <1>1, VectorsAsGiven
<1>3. PICK lexical : lexical = Batches!BuildTranscript(
          r, IF Batches!VideoAggregation(r) # "direct_text" THEN "off" ELSE "caller_split", Batches!NoVectors)
  OBVIOUS
<1>4. PICK VT : VT = Batches!Given(Batches!Restrict(v, Batches!Ids(lexical.units)))
  OBVIOUS
<1>5. PICK VF : VF = Batches!Given(Batches!Restrict(v, Batches!Ids(Batches!Frames(r))))
  OBVIOUS
<1>6. PICK tb : tb = Batches!BuildTranscript(r, "caller_split", VT)
  OBVIOUS
<1>7. PICK fb : fb = IF r.frames = <<>> THEN Batches!Batch(<<>>, Batches!NoVectors.of) ELSE Batches!BuildFrames(r, VF)
  OBVIOUS
<1>8. PICK j : j = Batches!Batch(tb.units \o fb.units, Batches!Merged(tb.vectors, fb.vectors))
  OBVIOUS
<1>9. b = IF lexical.error # "none" THEN lexical
          ELSE IF DOMAIN v # Batches!Ids(lexical.units) \cup Batches!Ids(Batches!Frames(r))
               THEN Batches!Refused("one vector per unit")
          ELSE IF tb.error # "none" THEN tb ELSE IF fb.error # "none" THEN fb
          ELSE Batches!Aggregate(j, Batches!VideoAggregation(r))
  <2>1. b = Batches!Compose(r, V)
    BY <1>1
  <2> QED
    BY ONLY <1>2, <1>3, <1>4, <1>5, <1>6, <1>7, <1>8, <2>1 DEF Batches!Compose
<1>10. tb.error = "none" /\ fb.error = "none" /\ b = Batches!Aggregate(j, Batches!VideoAggregation(r))
  <2>1. Batches!Refused("one vector per unit").error # "none"
    BY DEF Batches!Refused
  <2> QED
    BY ONLY <1>9, <2>1, b.error = "none"
<1>11. VT.given = TRUE /\ VT.given \in BOOLEAN /\ IsMapping(VT.of) /\ (~VT.given => DOMAIN VT.of = {})
  <2>1. PICK part : part = Batches!Restrict(v, Batches!Ids(lexical.units))
    OBVIOUS
  <2>2. IsMapping(part)
    BY <2>1 DEF Batches!Restrict, IsMapping
  <2> QED
    BY <1>4, <2>1, <2>2, VectorsAsGiven
<1>12. VF.given = TRUE /\ VF.given \in BOOLEAN /\ IsMapping(VF.of) /\ (~VF.given => DOMAIN VF.of = {})
  <2>1. PICK part : part = Batches!Restrict(v, Batches!Ids(Batches!Frames(r)))
    OBVIOUS
  <2>2. IsMapping(part)
    BY <2>1 DEF Batches!Restrict, IsMapping
  <2> QED
    BY <1>5, <2>1, <2>2, VectorsAsGiven
<1>13. WithWhole(tb, Batches!Passages(r), VT.given)
  BY IngestionAssumption, <1>6, <1>10, <1>11, TranscriptWhole
<1>14. PartsOnly(fb, Batches!Frames(r), VF.given)
  BY IngestionAssumption, <1>7, <1>10, <1>12, FramesBuilt
<1> QED
  BY IngestionAssumption, <1>8, <1>10, <1>11, <1>12, <1>13, <1>14, VideoWhole

LEMMA LexicalComplete ==
    ASSUME IngestionAssumption, NEW r \in BatchRequests, NEW b, b = Batches!Lexical(r), b.error = "none"
    PROVE  Complete(r, b, FALSE)
<1>1. CASE r.service = "video"
  <2>1. b = Batches!Compose(r, Batches!NoVectors)
    BY <1>1 DEF Batches!Lexical
  <2> QED
    BY IngestionAssumption, <1>1, <2>1, VideoPrepared
<1>2. CASE r.service # "video"
  <2>1. b = Batches!PrepareTranscript(r)
    BY <1>2 DEF Batches!Lexical
  <2> QED
    BY IngestionAssumption, <1>2, <2>1, TranscriptPrepared
<1> QED
  BY <1>1, <1>2

LEMMA EmbeddedComplete ==
    ASSUME IngestionAssumption, NEW r \in BatchRequests, NEW v, IsMapping(v),
           NEW b, b = Batches!Embedded(r, v), b.error = "none"
    PROVE  Complete(r, b, TRUE)
<1>1. CASE r.service = "video"
  <2>1. b = Batches!Compose(r, Batches!Given(v))
    BY <1>1 DEF Batches!Embedded
  <2> QED
    BY IngestionAssumption, <1>1, <2>1, VideoEmbedded
<1>2. CASE r.service # "video"
  <2>1. b = Batches!EmbedTranscript(r, v)
    BY <1>2 DEF Batches!Embedded
  <2> QED
    BY IngestionAssumption, <1>2, <2>1, TranscriptEmbedded
<1> QED
  BY <1>1, <1>2

-----------------------------------------------------------------------------
(* The calls of both services: what is about to be published is complete,  *)
(* and the request of a conditional call names the source it started from. *)

BatchesInv ==
    /\ batchCall.pc \in {"idle", "embed", "publish", "done"}
    /\ batchCall.pc # "idle" =>
          batchCall = [pc |-> batchCall.pc, request |-> batchCall.request, from |-> batchCall.from,
                       batch |-> batchCall.batch, answer |-> batchCall.answer]
    /\ batchCall.pc \in {"embed", "publish"} =>
          /\ batchCall.request \in BatchRequests
          /\ batchCall.request.conditional => batchCall.request.binding = batchCall.from
    /\ batchCall.pc = "embed" => batchCall.request.embeddings
    /\ batchCall.pc = "publish" => Complete(batchCall.request, batchCall.batch, batchCall.request.embeddings)

LEMMA BatchesInitially ==
    ASSUME Batches!Init
    PROVE  BatchesInv
<1>1. batchCall.pc = "idle"
  BY DEF Batches!Init, Batches!Idle
<1> QED
  BY <1>1 DEF BatchesInv

LEMMA BatchEnds ==
    ASSUME BatchesInv, batchCall.pc # "idle", NEW answer0, Batches!End(answer0)
    PROVE  BatchesInv' /\ batchCall'.answer = answer0
<1>1. PICK pc0, request, from, batch, answer1 :
         batchCall = [pc |-> pc0, request |-> request, from |-> from, batch |-> batch, answer |-> answer1]
  BY DEF BatchesInv
<1>2. batchCall' = [pc |-> "done", request |-> request, from |-> from, batch |-> batch, answer |-> answer0]
  BY <1>1 DEF Batches!End
<1>3. batchCall'.pc = "done" /\ batchCall'.answer = answer0
  BY <1>2
<1> QED
  BY <1>2, <1>3 DEF BatchesInv

LEMMA BatchBegins ==
    ASSUME IngestionAssumption, BatchesInv, NEW r \in BatchRequests, Batches!Begin(r)
    PROVE  BatchesInv'
<1>1. PICK lexical : lexical = Batches!Lexical(r)
  OBVIOUS
<1>2. PICK started : started = [pc |-> "publish", request |-> r, from |-> generation, batch |-> lexical, answer |-> "none"]
  OBVIOUS
<1>3. batchCall' = IF ~Batches!BindingOK(r) THEN [started EXCEPT !.pc = "done", !.answer = "stale binding"]
                   ELSE IF lexical.error # "none" THEN [started EXCEPT !.pc = "done", !.answer = lexical.error]
                   ELSE IF r.embeddings THEN [started EXCEPT !.pc = "embed"] ELSE started
  BY <1>1, <1>2 DEF Batches!Begin
<1>4. CASE ~Batches!BindingOK(r) \/ lexical.error # "none"
  <2>1. PICK why : batchCall' = [pc |-> "done", request |-> r, from |-> generation, batch |-> lexical, answer |-> why]
    BY ONLY <1>2, <1>3, <1>4
  <2>2. batchCall'.pc = "done"
    BY <2>1
  <2> QED
    BY <2>1, <2>2 DEF BatchesInv
<1>5. CASE Batches!BindingOK(r) /\ lexical.error = "none"
  <2>1. r.conditional => r.binding = generation
    BY <1>5 DEF Batches!BindingOK
  <2>2. Complete(r, lexical, FALSE)
    BY IngestionAssumption, <1>1, <1>5, LexicalComplete
  <2>3. r.embeddings \in BOOLEAN
    BY DEF IngestionAssumption, Batches!RequestsAssumption
  <2>4. CASE r.embeddings
    <3>1. batchCall' = [pc |-> "embed", request |-> r, from |-> generation, batch |-> lexical, answer |-> "none"]
      BY ONLY <1>2, <1>3, <1>5, <2>4
    <3>2. batchCall'.pc = "embed" /\ batchCall'.request = r /\ batchCall'.from = generation
      BY <3>1
    <3> QED
      BY <2>1, <2>4, <3>1, <3>2 DEF BatchesInv
  <2>5. CASE ~r.embeddings
    <3>1. batchCall' = started
      BY ONLY <1>3, <1>5, <2>5
    <3>2. /\ batchCall'.pc = "publish" /\ batchCall'.request = r /\ batchCall'.from = generation
          /\ batchCall'.batch = lexical
      BY <1>2, <3>1
    <3>3. Complete(r, lexical, r.embeddings)
      BY <2>2, <2>3, <2>5
    <3> QED
      BY <1>2, <2>1, <3>1, <3>2, <3>3 DEF BatchesInv
  <2> QED
    BY <2>3, <2>4, <2>5
<1> QED
  BY <1>4, <1>5

LEMMA BatchEmbeds ==
    ASSUME IngestionAssumption, BatchesInv, NEW v, IsMapping(v), Batches!Embed(v)
    PROVE  BatchesInv'
<1>1. batchCall.pc = "embed"
  BY DEF Batches!Embed
<1>2. PICK pc0, request, from, batch, answer0 :
         batchCall = [pc |-> pc0, request |-> request, from |-> from, batch |-> batch, answer |-> answer0]
  BY <1>1 DEF BatchesInv
<1>3. request = batchCall.request /\ from = batchCall.from
  BY <1>2
<1>4. request \in BatchRequests /\ request.embeddings /\ (request.conditional => request.binding = from)
  BY <1>1, <1>3 DEF BatchesInv
<1>5. PICK built : built = Batches!Embedded(request, v)
  OBVIOUS
<1>6. IF built.error # "none" THEN Batches!End(built.error)
      ELSE batchCall' = [batchCall EXCEPT !.pc = "publish", !.batch = built]
  BY <1>3, <1>5 DEF Batches!Embed
<1>7. CASE built.error # "none"
  <2>1. Batches!End(built.error) /\ batchCall.pc # "idle"
    BY <1>1, <1>6, <1>7
  <2> QED
    BY <2>1, BatchEnds
<1>8. CASE built.error = "none"
  <2>1. batchCall' = [pc |-> "publish", request |-> request, from |-> from, batch |-> built, answer |-> answer0]
    BY ONLY <1>2, <1>6, <1>8
  <2>2. /\ batchCall'.pc = "publish" /\ batchCall'.request = request /\ batchCall'.from = from
        /\ batchCall'.batch = built
    BY <2>1
  <2>3. Complete(request, built, TRUE)
    BY IngestionAssumption, <1>4, <1>5, <1>8, EmbeddedComplete
  <2>4. request.embeddings = TRUE
    <3>1. request.embeddings \in BOOLEAN
      BY <1>4 DEF IngestionAssumption, Batches!RequestsAssumption
    <3> QED
      BY <1>4, <3>1
  <2>5. Complete(request, built, request.embeddings)
    BY <2>3, <2>4
  <2> QED
    BY <1>4, <2>1, <2>2, <2>5 DEF BatchesInv
<1> QED
  BY <1>7, <1>8

LEMMA BatchesKept ==
    ASSUME IngestionAssumption, BatchesInv, [Batches!Next]_batchVars
    PROVE  BatchesInv'
<1>1. CASE UNCHANGED batchVars
  BY <1>1 DEF batchVars, BatchesInv
<1>2. CASE \E r \in BatchRequests : Batches!Begin(r)
  BY IngestionAssumption, <1>2, BatchBegins
<1>3. CASE \E v \in [Batches!Ids(Batches!EmbeddedUnits) -> Vectors] : Batches!Embed(v)
  <2>1. PICK v \in [Batches!Ids(Batches!EmbeddedUnits) -> Vectors] : Batches!Embed(v)
    BY <1>3
  <2>2. IsMapping(v)
    BY DEF IsMapping
  <2> QED
    BY IngestionAssumption, <2>1, <2>2, BatchEmbeds
<1>4. ASSUME NEW error, Batches!EmbedFails(error) PROVE BatchesInv'
  <2>1. Batches!End(error) /\ batchCall.pc # "idle"
    BY <1>4 DEF Batches!EmbedFails
  <2> QED
    BY <2>1, BatchEnds
<1>5. CASE Batches!Publish
  <2>1. batchCall.pc # "idle" /\ (Batches!End("publication_conflict") \/ Batches!End("published"))
    BY <1>5 DEF Batches!Publish
  <2> QED
    BY <2>1, BatchEnds
<1>6. CASE Batches!NewSource
  <2>1. UNCHANGED batchCall
    BY <1>6 DEF Batches!NewSource
  <2> QED
    BY <2>1 DEF BatchesInv
<1>7. CASE Batches!Again
  <2>1. batchCall'.pc = "idle"
    BY <1>7 DEF Batches!Again, Batches!Idle
  <2> QED
    BY <2>1 DEF BatchesInv
<1> QED
  BY <1>1, <1>2, <1>3, <1>4, <1>5, <1>6, <1>7 DEF Batches!Next

LEMMA CompletePublished ==
    ASSUME BatchesInv
    PROVE  Batches!PublishedComplete
<1> SUFFICES ASSUME Batches!Publish, batchCall'.answer = "published"
             PROVE  /\ Complete(batchCall.request, batchCall.batch, batchCall.request.embeddings)
                    /\ batchCall.request.conditional => batchCall.request.binding = generation
  BY DEF Batches!PublishedComplete, Complete, Wholes
<1>1. batchCall.pc = "publish"
  BY DEF Batches!Publish
<1>2. ~(batchCall.request.conditional /\ generation # batchCall.from)
  <2>1. SUFFICES ASSUME Batches!End("publication_conflict")
                 PROVE  FALSE
    BY DEF Batches!Publish
  <2>2. batchCall'.answer = "publication_conflict"
    BY <1>1, <2>1, BatchEnds
  <2> QED
    BY <2>2
<1> QED
  BY <1>1, <1>2 DEF BatchesInv

(***************************************************************************)
(* The graph of a transcript or of a video that is published has all its   *)
(* passages and frames, one vector for each of its units or none at all,   *)
(* and a whole that covers and counts all of them and points where their   *)
(* centroid points; it was prepared from the source it replaces.  A call   *)
(* that ingests a file keeps what others added to the graph it replaces.   *)
(* This holds for every limit, every number of passages and frames, and    *)
(* all vectors a provider can return.                                      *)
(***************************************************************************)
THEOREM WritesAreComplete ==
    ASSUME IngestionAssumption
    PROVE  Calls!Spec /\ Batches!Spec => WritesComplete
<1>1. Calls!Init => CallsInv
  BY IngestionAssumption, CallsInitially
<1>2. CallsInv /\ [Calls!Next]_callVars => CallsInv'
  BY IngestionAssumption, CallsKept
<1>3. CallsInv /\ [Calls!Next]_callVars => Calls!OthersKept
  BY OthersAreKept
<1>4. Batches!Init => BatchesInv
  BY BatchesInitially
<1>5. BatchesInv /\ [Batches!Next]_batchVars => BatchesInv'
  BY IngestionAssumption, BatchesKept
<1>6. BatchesInv => Batches!PublishedComplete
  BY CompletePublished
<1>7. Calls!Spec => Calls!Init /\ [][Calls!Next]_callVars
  BY DEF Calls!Spec, Calls!vars, callVars
<1>8. Batches!Spec => Batches!Init /\ [][Batches!Next]_batchVars
  BY DEF Batches!Spec, Batches!batchVars, batchVars
<1> QED
  BY <1>1, <1>2, <1>3, <1>4, <1>5, <1>6, <1>7, <1>8, PTL DEF WritesComplete
=============================================================================
