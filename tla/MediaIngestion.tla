--------------------------- MODULE MediaIngestion ---------------------------
(***************************************************************************)
(* Calls that take one local file into the catalog while the file changes  *)
(* and others write: ImageIngestionService.ingest, through                 *)
(* ingest_native_image and its SourceResolver or directly as a rescan, and *)
(* ingest_native_media with its decoder processes                          *)
(* (src/src/mdrack/ingestion/images.py, native_decoding.py,                *)
(* application/native_media.py, media_search.py, source_resolution.py).    *)
(*                                                                         *)
(* There is one file and one resource.  A graph is seen as the bytes its   *)
(* provenance names, the reference (namespace and locator) of its source,  *)
(* its source generation, a token that every write renews, and its         *)
(* outputs: for each slot the bytes it was made from and the generation it *)
(* is marked with.  Merging is EnrichmentGraph's Reconcile over these four *)
(* slots.                                                                  *)
(***************************************************************************)
EXTENDS Integers, Sequences, FiniteSets

CONSTANTS
    Callers,      \* the callers
    Contents,     \* what the file can hold
    Ref,          \* the reference the catalog's graph has the file under
    Requests,     \* what a caller may ask: see Begin
    Nothing,      \* no graph, no output
    MaxChanges,   \* bound: changes of the file
    MaxCalls,     \* bound: calls
    MaxTokens     \* bound: writes to the catalog

VARIABLES
    file,         \* the bytes of the file now
    changes,
    graph,        \* the resource's graph, or Nothing
    token,        \* the last state token the catalog issued
    life,         \* the resource's lifecycle
    uuids,        \* how many generations were made up
    calls,
    call,         \* per caller: its call
    temps,        \* callers whose private copy of the file exists
    tools,        \* callers with a decoder process running
    named         \* every pair of generation and bytes the catalog ever held
vars == <<file, changes, graph, token, life, uuids, calls, call, temps, tools, named>>

\* What a caller asks of an image, a recording or a file known already.
RequestsAssumption ==
    \A q \in Requests :
        q.api \in {"image", "native", "rescan"} /\ q.texts \in BOOLEAN /\ q.titled \in BOOLEAN

Slots == {"text", "visual", "native", "note"}
Idle == [pc |-> "idle"]

\* A request names the operation and the reference; texts: it brings prepared
\* texts; titled: a title that the graph does not have.
Begin(q) ==
    [pc |-> IF q.api = "image" THEN "capture" ELSE "read", api |-> q.api, ref |-> q.ref,
     texts |-> q.texts, titled |-> q.titled, content |-> Nothing, snap |-> Nothing, snapLife |-> 0, cur |-> Nothing,
     gen |-> Nothing, tries |-> 0, wrote |-> FALSE]

\* The catalog holds nothing of the file yet, or what an earlier image or
\* native ingestion of some bytes left, perhaps annotated.
EarlierGraph(slot, gen, content, note) ==
    [raw |-> content, ref |-> Ref, gen |-> gen, tok |-> 1,
     out |-> [s \in Slots |-> IF s = slot \/ (s = "note" /\ note)
                              THEN [from |-> content, gen |-> gen] ELSE Nothing]]

Init ==
    /\ file \in Contents /\ changes = 0
    /\ \/ graph = Nothing /\ life = 0 /\ uuids = 0
       \/ \E content \in Contents, note \in BOOLEAN :
            /\ life = 1 /\ uuids = 1
            /\ \/ graph = EarlierGraph("visual", <<"uuid", 1>>, content, note)
               \/ graph = EarlierGraph("native", <<"sha", content>>, content, note)
    /\ token = life
    /\ named = IF graph = Nothing THEN {} ELSE {<<graph.gen, graph.raw>>}
    /\ calls = 0 /\ call = [c \in Callers |-> Idle]
    /\ temps = {} /\ tools = {}

Catalog == <<graph, token, life, named>>
Go(c, r) == call' = [call EXCEPT ![c] = r]

\* Any end of a call removes its private copy of the file (finally blocks).
End(c, answer) ==
    /\ Go(c, [pc |-> "done", api |-> call[c].api, answer |-> answer, wrote |-> call[c].wrote])
    /\ temps' = temps \ {c}

Start(c) ==
    /\ call[c].pc \in {"idle", "done"} /\ calls < MaxCalls
    /\ calls' = calls + 1
    /\ \E q \in Requests : Go(c, Begin(q))
    /\ UNCHANGED <<file, changes, Catalog, uuids, temps, tools>>

\* capture_source and _snapshot_file: the file is read once into a private
\* copy, which all later work uses.
Capture(c) ==
    /\ call[c].pc = "capture"
    /\ temps' = temps \cup {c}
    /\ Go(c, [call[c] EXCEPT !.content = file,
                             !.pc = IF call[c].api = "image" THEN "read"
                                    ELSE IF call[c].api = "native" THEN "decode" ELSE "prepare"])
    /\ UNCHANGED <<calls, file, changes, Catalog, uuids, tools>>

\* The catalog snapshot: before the file is opened, except that a resolver
\* has captured the image already.
Read(c) ==
    /\ call[c].pc = "read"
    /\ Go(c, [call[c] EXCEPT !.snap = graph, !.cur = graph, !.snapLife = life,
                             !.pc = IF call[c].api = "image" THEN "prepare" ELSE "capture"])
    /\ UNCHANGED <<calls, file, changes, Catalog, uuids, temps, tools>>

(***************************************************************************)
(* NativeMediaDecoder._run: a tool ends well, or it fails, writes too      *)
(* much, takes too long or its caller is cancelled; then it is killed if   *)
(* it runs and waited for.                                                 *)
(***************************************************************************)
RunTool(c) ==
    /\ call[c].pc = "decode" /\ c \notin tools
    /\ tools' = tools \cup {c}
    /\ UNCHANGED <<calls, file, changes, Catalog, uuids, call, temps>>

ToolEnds(c) ==
    /\ c \in tools /\ tools' = tools \ {c}
    /\ \/ Go(c, [call[c] EXCEPT !.pc = "prepare"]) /\ UNCHANGED temps
       \/ End(c, "native_decode_failed")
    /\ UNCHANGED <<calls, file, changes, Catalog, uuids>>

(***************************************************************************)
(* Between capture and publication: replay, bare rescan, or new outputs.   *)
(***************************************************************************)
SameSource(r) == r.snap # Nothing /\ r.snap.raw = r.content /\ r.snap.ref = r.ref

\* A stored image is replayed when nothing new is asked of it.
Replays(r) ==
    /\ r.api \in {"image", "rescan"} /\ ~r.texts /\ ~r.titled
    /\ SameSource(r)
    /\ r.api = "image" => r.snap.out["visual"] # Nothing

NeedsGeneration(r) == r.api # "native" /\ ~SameSource(r)

\* Images make up a generation for new bytes, native media names it after them.
Generation(r) ==
    IF SameSource(r) THEN r.snap.gen
    ELSE IF r.api = "native" THEN <<"sha", r.content>> ELSE <<"uuid", uuids + 1>>

Produces(r) ==
    CASE r.api = "image" -> {"visual"} \cup (IF r.texts THEN {"text"} ELSE {})
      [] r.api = "native" -> {"native"}
      [] r.api = "rescan" -> {}

\* _retained_vectors: the same bytes under the same generation were encoded
\* before, so that no provider is called.
Retained(r) ==
    /\ r.api = "native" /\ SameSource(r)
    /\ r.snap.out["native"] = [from |-> r.content, gen |-> r.snap.gen]

\* The providers and extractors the call awaits; any of them may fail.  A
\* rescan without a provider only renews the source of a graph whose bytes
\* changed, and has nothing to do for a file the catalog does not hold.
Prepare(c) ==
    LET r == call[c] IN
    /\ r.pc = "prepare"
    /\ \/ /\ Replays(r)
          /\ Go(c, [r EXCEPT !.pc = "check", !.gen = r.snap.gen])
          /\ UNCHANGED <<temps, uuids>>
       \/ /\ ~Replays(r)
          /\ r.api = "rescan" => r.snap # Nothing /\ r.snap.raw # r.content
          /\ uuids' = IF NeedsGeneration(r) THEN uuids + 1 ELSE uuids
          /\ Go(c, [r EXCEPT !.pc = "check", !.gen = Generation(r)])
          /\ UNCHANGED temps
       \/ /\ ~Replays(r) /\ ~Retained(r)
          /\ End(c, "failed")
          /\ UNCHANGED uuids
    /\ UNCHANGED <<calls, file, changes, Catalog, tools>>

\* Faulty variant: what the graph had is kept whatever its source was.
ReconciledKeepingAll(old, r) ==
    [s \in Slots |-> IF s \in Produces(r) THEN [from |-> r.content, gen |-> r.gen]
                     ELSE IF old # Nothing THEN old.out[s] ELSE Nothing]

Reconciled(old, r) ==
    LET mine == [s \in Slots |-> IF s \in Produces(r) THEN [from |-> r.content, gen |-> r.gen]
                                 ELSE Nothing]
        kept(s) == old # Nothing /\ old.gen = r.gen
    IN [s \in Slots |-> IF mine[s] # Nothing THEN mine[s]
                        ELSE IF kept(s) THEN old.out[s] ELSE Nothing]

\* What a write of r over the graph cur leaves; Nothing when no output does.
Written(cur, r) ==
    IF Replays(r) THEN [cur EXCEPT !.tok = token + 1]
    ELSE LET out == Reconciled(cur, r)
         IN IF \A s \in Slots : out[s] = Nothing THEN Nothing
            ELSE [raw |-> r.content, ref |-> r.ref, gen |-> r.gen, tok |-> token + 1, out |-> out]

\* reconcile refuses another source under a generation the graph has.
Refused(r) ==
    /\ ~Replays(r) /\ r.cur # Nothing
    /\ r.cur.gen = r.gen /\ (r.cur.raw # r.content \/ r.cur.ref # r.ref)

\* publish_reindex writes nothing when the graph has all it wants; it reads
\* once more to be sure.
NoChange(r) ==
    /\ r.api = "native" /\ r.cur # Nothing
    /\ [Written(r.cur, r) EXCEPT !.tok = r.cur.tok] = r.cur

\* The guarded port: the file is read again right before each write.
Check(c) ==
    LET r == call[c] IN
    /\ r.pc = "check"
    /\ IF Refused(r) THEN End(c, "failed")
       ELSE IF NoChange(r)
            THEN Go(c, [r EXCEPT !.pc = "confirm"]) /\ UNCHANGED temps
       ELSE IF file = r.content
            THEN Go(c, [r EXCEPT !.pc = "write"]) /\ UNCHANGED temps
       ELSE End(c, "source_changed")
    /\ UNCHANGED <<calls, file, changes, Catalog, uuids, tools>>

Confirm(c) ==
    LET r == call[c] IN
    /\ r.pc = "confirm"
    /\ Go(c, [r EXCEPT !.pc = IF graph = r.cur /\ life = r.snapLife
                              THEN "finish" ELSE "reread"])
    /\ UNCHANGED <<calls, file, changes, Catalog, uuids, temps, tools>>

\* The conditional write: refused unless the graph is the one it was
\* prepared against.
Write(c) ==
    LET r == call[c] IN
    /\ r.pc = "write"
    /\ IF graph = r.cur /\ life = r.snapLife
       THEN /\ graph' = Written(r.cur, r)
            /\ token' = token + 1
            /\ named' = IF graph' = Nothing THEN named
                        ELSE named \cup {<<graph'.gen, graph'.raw>>}
            /\ life' = IF r.cur = Nothing THEN life + 1 ELSE life
            /\ Go(c, [r EXCEPT !.pc = "finish", !.wrote = TRUE])
       ELSE Go(c, [r EXCEPT !.pc = "reread"]) /\ UNCHANGED Catalog
    /\ UNCHANGED <<calls, file, changes, uuids, temps, tools>>

\* publish_reindex and the replay loop after a refused write: one more try
\* on a graph of the same lifecycle and source whose target slots are as
\* they were, or already as wanted.
StillMine(r) ==
    /\ life = r.snapLife /\ graph # Nothing /\ r.snap # Nothing
    /\ graph.gen = r.snap.gen /\ graph.raw = r.snap.raw /\ graph.ref = r.snap.ref
    /\ \A s \in Produces(r) :
        \/ graph.out[s] = r.snap.out[s]
        \/ graph.out[s] = [from |-> r.content, gen |-> r.gen]
    /\ (Replays(r) /\ r.api = "image") => graph.out["visual"] # Nothing

Reread(c) ==
    LET r == call[c] IN
    /\ r.pc = "reread"
    /\ IF r.tries < 1 /\ StillMine(r)
       THEN Go(c, [r EXCEPT !.pc = "check", !.cur = graph, !.tries = 1]) /\ UNCHANGED temps
       ELSE End(c, IF r.tries >= 1 THEN "conflict" ELSE "stale")
    /\ UNCHANGED <<calls, file, changes, Catalog, uuids, tools>>

\* The call returns; a resolver's context manager reads the file once more.
Finish(c) ==
    LET r == call[c] IN
    /\ r.pc = "finish"
    /\ End(c, IF r.api = "image" /\ file # r.content THEN "source_changed" ELSE "published")
    /\ UNCHANGED <<calls, file, changes, Catalog, uuids, tools>>

(***************************************************************************)
(* Everybody else.                                                         *)
(***************************************************************************)
ChangeFile ==
    /\ changes < MaxChanges /\ changes' = changes + 1
    /\ \E b \in Contents \ {file} : file' = b
    /\ UNCHANGED <<calls, Catalog, uuids, call, temps, tools>>

\* An enrichment attaches an output to the source the graph has.
Annotate ==
    /\ graph # Nothing /\ graph.out["note"] = Nothing /\ token < MaxTokens
    /\ graph' = [graph EXCEPT !.out["note"] = [from |-> graph.raw, gen |-> graph.gen],
                              !.tok = token + 1]
    /\ token' = token + 1
    /\ UNCHANGED <<calls, file, changes, life, named, uuids, call, temps, tools>>

Delete ==
    /\ graph # Nothing /\ token < MaxTokens
    /\ graph' = Nothing /\ token' = token + 1 /\ life' = life + 1
    /\ UNCHANGED <<calls, file, changes, named, uuids, call, temps, tools>>

Work(c) ==
    \/ Start(c) \/ Capture(c) \/ Read(c) \/ RunTool(c) \/ ToolEnds(c) \/ Prepare(c)
    \/ Check(c) \/ Confirm(c) \/ Write(c) \/ Reread(c) \/ Finish(c)

Next == (\E c \in Callers : Work(c)) \/ ChangeFile \/ Annotate \/ Delete

Spec == Init /\ [][Next]_vars

(***************************************************************************)
(* Properties.                                                             *)
(***************************************************************************)
\* Every output of a published graph was made from the bytes its provenance
\* names, under the graph's generation, and a generation never stands for
\* two contents, in the whole life of the catalog.
SourcesTrue ==
    /\ graph # Nothing =>
        \A s \in Slots : graph.out[s] # Nothing =>
            graph.out[s] = [from |-> graph.raw, gen |-> graph.gen]
    /\ \A p, q \in named : p[1] = q[1] => p[2] = q[2]

\* No private copy of the file and no decoder process outlives its call.
NothingLeftBehind ==
    /\ \A c \in temps : call[c].pc \notin {"idle", "done"}
    /\ \A c \in tools : call[c].pc = "decode"

\* A write of a call replaces only the graph the call worked from, and keeps
\* the outputs others attached to the same source.
OthersKept ==
    \A c \in Callers :
        (call[c].pc = "write" /\ call'[c].pc = "finish") =>
            /\ graph = call[c].cur
            /\ (graph # Nothing /\ graph' # Nothing /\ graph'.gen = graph.gen) =>
                    graph'.out["note"] = graph.out["note"]

\* What the decision record says of every adapter: source_changed means that
\* the catalog was not written.
ChangedLeavesGraph ==
    \A c \in Callers :
        (call[c].pc = "done" /\ call[c].answer = "source_changed") => ~call[c].wrote
=============================================================================
