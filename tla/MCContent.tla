------------------------------ MODULE MCContent ------------------------------
(***************************************************************************)
(* From a document to the index and out again: the structural chunker, the *)
(* first chunker, the resource graph of a document, the grouping of timed  *)
(* text, the scan, the tables of the first schema, source metadata,        *)
(* manifests, the archive of artifacts, the search services and search in  *)
(* prepared media.  They share no state, so a behaviour exercises one.     *)
(***************************************************************************)
EXTENDS Content, SequencesExt, TLC

VARIABLES area, chunking, building, preparing, disk, index, scan, done, edits, faults,
    metadata, published, publishes, search, media

-----------------------------------------------------------------------------
(* The structural chunker. *)

Character(bytes, boundary, white) == [bytes |-> bytes, boundary |-> boundary, white |-> white]
Letter == Character(1, 3, FALSE)
Wide == Character(3, 3, FALSE)
Space == Character(1, 2, TRUE)
Stop == Character(1, 1, TRUE)
Blank == Character(1, 0, TRUE)
Texts == UNION {[1 .. n -> {Letter, Wide, Space, Stop, Blank}] : n \in 1 .. 5}
ProseBlock(kind, heading, text) == [kind |-> kind, heading |-> heading, text |-> text]
Line(chars, width, white) == [chars |-> chars, width |-> width, white |-> white]
LineBlock(kind, lines) == [kind |-> kind, heading |-> 2, lines |-> lines, definitions |-> <<>>]

Short == <<Letter, Letter>>
Long == <<Letter, Letter, Stop, Letter, Space, Wide, Letter, Letter, Letter>>
LineTexts ==
    {<<Line(2, 1, FALSE), Line(3, 1, FALSE), Line(1, 2, FALSE)>>,
     <<Line(2, 1, FALSE), Line(13, 1, FALSE), Line(2, 1, FALSE)>>,
     <<Line(2, 1, FALSE), Line(2, 1, FALSE), Line(2, 1, FALSE), Line(2, 1, FALSE), Line(2, 1, FALSE)>>,
     <<Line(2, 1, FALSE), Line(1, 1, FALSE), Line(0, 1, TRUE), Line(0, 1, TRUE), Line(2, 1, FALSE)>>}
Blocks ==
    {[kind |-> "heading"], ProseBlock("paragraph", 0, Short), ProseBlock("paragraph", 2, Short), ProseBlock("paragraph", 0, Long),
     ProseBlock("list", 0, Short), ProseBlock("list", 9, Long), ProseBlock("callout", 0, Short)}
    \cup {LineBlock(k, ls) : k \in {"code", "table"}, ls \in LineTexts}
    \cup {[LineBlock("python", ls) EXCEPT !.definitions = d] : ls \in LineTexts, d \in {<<>>, <<<<2, 3>>>>}}
ChunkDocuments == UNION {[1 .. n -> Blocks] : n \in 1 .. 2} \cup {<<ProseBlock("paragraph", 0, t)>> : t \in Texts}
                  \cup [1 .. 3 -> {b \in Blocks : b.kind \in {"heading", "paragraph", "list"}}]
ChunkConfigs == {[min |-> 3, target |-> 6, hard |-> 8, tokens |-> 3, window |-> 2, rows |-> 2],
                 [min |-> 2, target |-> 3, hard |-> 5, tokens |-> 1, window |-> 3, rows |-> 1]}

-----------------------------------------------------------------------------
(* The first chunker. *)

Heading(level) == [kind |-> "heading", level |-> level, chars |-> 1]
TextOf(sentences) == [kind |-> "text", sentences |-> sentences]
CodeOf(chars) == [kind |-> "code", chars |-> chars]
LegacyBlocks ==
    {Heading(1), Heading(2), Heading(3), TextOf(<<<<2>>>>), TextOf(<<<<3, 2>>, <<4>>, <<2, 2>>>>), TextOf(<<<<2, 3, 2, 4>>>>),
     CodeOf(3), CodeOf(11)}
Chunker == INSTANCE Chunking WITH
    Documents <- ChunkDocuments, Configs <- ChunkConfigs,
    Files <- UNION {[1 .. n -> LegacyBlocks] : n \in 1 .. 4},
    Limits <- {[min |-> 3, target |-> 6, hard |-> 9, overlap |-> 2], [min |-> 4, target |-> 8, hard |-> 14, overlap |-> 0]}

-----------------------------------------------------------------------------
(* The resource graph of a document. *)

Titled(level, title) == [kind |-> "heading", level |-> level, title |-> title]
Chunked(text, chunks) == [kind |-> "text", text |-> text, chunks |-> chunks]
Parts == {Titled(1, "A"), Titled(2, "A"), Titled(2, "B"), Chunked("x", 1), Chunked("x", 2), Chunked("y", 1)}
Value(type, value) == [type |-> type, value |-> value]
Frontmatters ==
    {[path \in {} |-> path],
     [path \in {"/title", "/tags", "/aliases"} |->
        IF path = "/tags" THEN [list |-> <<Value("i", "1"), Value("s", "1"), Value("s", "1")>>] ELSE Value("s", "x")]}
Rule(path, mode) == [path |-> path, mode |-> mode]
Asked(policy, tokens, whole, provider, space) ==
    [policy |-> policy, tokens |-> tokens, whole |-> whole, provider |-> provider, space |-> space]
Batch == INSTANCE DocumentBatch WITH
    Documents <- UNION {[1 .. n -> Parts] : n \in 0 .. 3} \cup [1 .. 4 -> {Titled(1, "A"), Titled(2, "A"), Titled(3, "A"), Chunked("x", 1)}],
    Metadata <- Frontmatters,
    Projections <- {<<Rule("/title", "canonical_title"), Rule("/tags", "facet_many"), Rule("/aliases", "lexical_text")>>},
    Requests <- {Asked("default", 0, FALSE, TRUE, FALSE), Asked("default", 0, FALSE, FALSE, FALSE),
                 Asked("centroid", 2, TRUE, TRUE, FALSE), Asked("centroid", 1, FALSE, TRUE, FALSE),
                 Asked("reject", 2, TRUE, TRUE, TRUE), Asked("centroid", 2, TRUE, FALSE, TRUE)}

-----------------------------------------------------------------------------
(* Timed text. *)

Atom(step, length, tokens, mark) == [step |-> step, length |-> length, tokens |-> tokens, mark |-> mark]
AtomShapes == {Atom(0, 2, 1, FALSE), Atom(1, 3, 1, TRUE), Atom(2, 2, 2, FALSE), Atom(3, 1, 2, TRUE), Atom(4, 6, 1, FALSE), Atom(5, 2, 5, TRUE)}
AtomsFrom(shapes) ==
    LET start(i) == FoldLeft(LAMBDA t, s : t + s.step, 0, SubSeq(shapes, 2, i))
    IN  [i \in 1 .. Len(shapes) |->
            [start |-> start(i), end |-> start(i) + shapes[i].length, tokens |-> shapes[i].tokens,
             speaker |-> IF shapes[i].mark THEN "b" ELSE "a", sentence |-> shapes[i].mark, line |-> FALSE]]
Backwards == Reverse(AtomsFrom(<<Atom(0, 2, 1, FALSE), Atom(3, 1, 2, TRUE)>>))
TimeLimits(minTokens, targetTokens, softTokens, hardTokens, minDuration, targetDuration, softDuration, hardDuration) ==
    [minTokens |-> minTokens, targetTokens |-> targetTokens, softTokens |-> softTokens, hardTokens |-> hardTokens,
     minDuration |-> minDuration, targetDuration |-> targetDuration, softDuration |-> softDuration, hardDuration |-> hardDuration,
     mediumPause |-> 1, strongPause |-> 2]
Transcripts == {AtomsFrom(s) : s \in UNION {[1 .. n -> AtomShapes] : n \in 0 .. 4}} \cup {Backwards}
TranscriptPolicies == {TimeLimits(2, 3, 4, 5, 3, 5, 7, 9), TimeLimits(3, 4, 9, 9, 5, 5, 8, 8)}
\* A token that ends one atom and begins the next is one in the joined text.
CountedTokens(atoms, i, j) ==
    LET shared == {k \in i .. j - 1 : atoms[k].tokens = 5 /\ atoms[k + 1].tokens = 1}
    IN  FoldLeft(LAMBDA sum, k : sum + atoms[k].tokens, 0, [n \in 1 .. j - i + 1 |-> i + n - 1]) - 2 * Cardinality(shared)

-----------------------------------------------------------------------------
(* The scan. *)

Scanner == INSTANCE MarkdownIndex WITH
    Paths <- {1, 2, 3}, Contents <- {"x", "y"}, MaxEdits <- 3, MaxFaults <- 1,
    Initially <- {<<"x", "absent", "absent">>, <<"x", "x", "absent">>}

-----------------------------------------------------------------------------
(* The tables of the first schema: two writers, and one on its own with more *)
(* profiles and preparations.                                                *)

TwoSections == [sections |-> <<0, 1>>, chunks |-> <<[section |-> 1, text |-> 2], [section |-> 2, text |-> 2], [section |-> 2, text |-> 0]>>]
OneSection == [sections |-> <<0>>, chunks |-> <<[section |-> 1, text |-> 3]>>]
Profile(name, fingerprint, dimensions) == [name |-> name, fingerprint |-> fingerprint, dimensions |-> dimensions]
ChunkedFiles == {TwoSections, OneSection}
ModelProfiles == {Profile("a", "x", 2), Profile("a", "y", 2)}
Offline == Profile("", "", 0)
VectorSizes == [x |-> 2, y |-> 2]
OwnTables == INSTANCE IndexStorage WITH Writers <- {1}, Sources <- ChunkedFiles,
    Profiles <- ModelProfiles \cup {Profile("b", "y", 3)}, MaxPrepared <- 3

-----------------------------------------------------------------------------
(* Source metadata. *)

MStr(t) == [kind |-> "str", text |-> t]
MLeaf(k, t) == [kind |-> k, text |-> t]
MList(items) == [kind |-> "list", items |-> items]
MMap(items) == [kind |-> "map", items |-> items]
Field(key, value) == [key |-> MStr(key), value |-> value]
MTexts == <<"", "1", "2", "a", "b", "date", "long", "null", "true">>
MBytes(t) == CASE t = "" -> 0 [] t \in {"1", "2", "a", "b"} -> 1 [] t = "long" -> 9 [] t = "date" -> 6 [] OTHER -> 4
MScalars == {MStr("1"), MLeaf("int", "1"), MLeaf("bool", "true"), MLeaf("null", "null"), MLeaf("date", "date"), MStr("long"), MLeaf("bytes", "a"),
   MLeaf("float", "NaN"), MLeaf("object", "a"), MLeaf("float", "1"), MStr("")}
MLists == {MList(<<>>), MList(<<MStr("a"), MStr("a"), MLeaf("int", "1")>>), MList(<<MStr("b"), MLeaf("bytes", "a"), MStr("long")>>),
   [kind |-> "set", items |-> <<MLeaf("int", "2"), MStr("b"), MStr("a")>>], MList(<<MList(<<MLeaf("date", "date")>>), MStr("b")>>),
   MList(<<MStr("a"), MStr("b"), MStr("1"), MStr("2")>>)}
MMaps == {MMap(<<Field("a", v)>>) : v \in MScalars \cup MLists} \cup {MMap(<<Field("a", MStr("1")), Field("long", MStr("b"))>>),
   MMap(<<[key |-> MLeaf("int", "1"), value |-> MStr("a")]>>)}
MSources == {MList(<<>>)} \cup {MMap(<<Field("a", v), Field("b", w)>>) : v \in MScalars \cup MLists \cup MMaps, w \in {MStr("1"), MLeaf("int", "1"), MLeaf("bytes", "a")} \cup MLists}
   \cup {MMap(<<Field("a", m), Field("b", MStr("b")), Field("1", MStr("a")), Field("2", MStr("a"))>>) : m \in MMaps}
   \cup {MMap(<<Field("b", MMap(<<Field("a", m)>>))>>) : m \in MMaps}
Projection(path, mode, namespace) == [path |-> path, mode |-> mode, namespace |-> namespace]
MPolicies == {<<Projection(<<"a">>, "facet", "x"), Projection(<<"b">>, "facet_many", "x"), Projection(<<"b">>, "canonical_title", "")>>,
  <<Projection(<<"a">>, "facet_many", "x"), Projection(<<"b", "1">>, "facet", "y"), Projection(<<"a">>, "lexical_text", ""), Projection(<<"b">>, "metadata_only", "")>>,
  <<Projection(<<"a", "a">>, "facet", "x"), Projection(<<"a">>, "lexical_text", ""), Projection(<<"b">>, "lexical_text", "")>>}
MLimits == {[depth |-> 3, keys |-> 3, items |-> 3, bytes |-> 5, total |-> 40], [depth |-> 2, keys |-> 2, items |-> 4, bytes |-> 9, total |-> 12]}
MFilters == {[path |-> p, json |-> j] : p \in {<<"a">>, <<"b">>, <<"a", "a">>, <<"b", "1">>}, j \in {"i1", "s1", "b", "sa", "n"}}
MParse(j) == CASE j = "i1" -> MLeaf("int", "1") [] j = "s1" -> MStr("1") [] j = "b" -> MLeaf("bool", "true") [] j = "sa" -> MStr("a") [] OTHER -> MList(<<>>)
Declared == INSTANCE SourceMetadata WITH
    Sources <- MSources, Policies <- MPolicies, Limits <- MLimits, Filters <- MFilters,
    Tokens <- UNION {[1 .. n -> {"~", "0", "1", "/"}] : n \in 0 .. 4}, Texts <- MTexts, BytesOf <- MBytes, ParseJson <- MParse

-----------------------------------------------------------------------------
(* Manifests. *)

Rep(id, text) == [id |-> id, text |-> text]
Un(id, rep, ord, text) == [id |-> id, representation |-> rep, ordinal |-> ord, text |-> text]
Sp(id, policy) == [id |-> id, dimensions |-> 2, policy |-> policy, codec |-> policy]
Ve(unit, space, a, b) == [unit |-> unit, space |-> space, values |-> <<a, b>>]
Fa(n, v, p) == [namespace |-> n, value |-> v, origin |-> 1, producer |-> p]
Doc(id, title, source, meta) == [id |-> id, title |-> title, source |-> source, metadata |-> meta, depth |-> 3]
\* Two representations, units out of order, vectors of two precisions.
Written == [resource |-> Doc(1, 1, 2, 1), representations |-> <<Rep(2, 1), Rep(1, -1)>>,
            units |-> <<Un(2, 2, 0, 1), Un(3, 1, 1, 2), Un(1, 1, 0, 2)>>,
            spaces |-> <<Sp(1, "float32")>>, vectors |-> <<Ve(3, 1, 3, 4), Ve(1, 1, 2, 0)>>,
            facets |-> <<Fa(1, 2, 1), Fa(1, 2, 0)>>]
Visual == [resource |-> Doc(1, -1, 0, 1), representations |-> <<Rep(1, -1)>>, units |-> <<Un(1, 1, 0, -1)>>,
           spaces |-> <<Sp(1, "none")>>, vectors |-> <<Ve(1, 1, 3, 0)>>, facets |-> <<>>]
Tiny == [Visual EXCEPT !.spaces = <<Sp(1, "float32")>>, !.vectors = <<Ve(1, 1, 1, 0)>>]
Bulky == [Visual EXCEPT !.units[1].text = 9]
Heavy == [Visual EXCEPT !.resource.source = 5]
Pay(b) == [bytes |-> 9, encoding |-> TRUE, json |-> "ok", depth |-> 3, contract |-> TRUE, version |-> TRUE, unknown |-> "none", missing |-> "none", batch |-> b]
Pays == {Pay(Written), Pay(Tiny), [Pay(Written) EXCEPT !.bytes = 99], [Pay(Visual) EXCEPT !.encoding = FALSE],
  [Pay(Visual) EXCEPT !.json = "duplicate_key"], [Pay(Visual) EXCEPT !.depth = 9], [Pay(Visual) EXCEPT !.contract = FALSE],
  [Pay(Visual) EXCEPT !.version = FALSE], [Pay(Visual) EXCEPT !.missing = "facets"], [Pay(Visual) EXCEPT !.unknown = "units"], Pay(Bulky), Pay(Heavy),
  Pay([Visual EXCEPT !.spaces[1].codec = "float32"])}
Flags(vectors, text, redact) == [vectors |-> vectors, text |-> text, redact |-> redact]
PublishedGraphs == {Written, Visual, Tiny, Bulky, Heavy}
ExportFlags == {Flags(TRUE, TRUE, FALSE), Flags(FALSE, TRUE, TRUE), Flags(TRUE, FALSE, FALSE)}
\* What is published, imported, and imported again from an export of it.
Imports(P) == {Exchange!ManifestValue(Exchange!Imported(p)) : p \in {q \in P : ~Exchange!Failed(Exchange!Imported(q))}}
Exported(G) == {p \in {Exchange!Encode(b, o) : b \in G, o \in ExportFlags} : ~Exchange!Failed(p)}
PublishedOrImported ==
    Imports(Pays) \cup {Exchange!ManifestValue(Exchange!Canonical(b)) : b \in {g \in PublishedGraphs : Exchange!Canonicalizable(g)}}
ImportedAgain(G) == G \cup Imports(Exported(G))
StoredGraphs == ImportedAgain(ImportedAgain(PublishedOrImported))

-----------------------------------------------------------------------------
(* Search over a catalog that others publish to. *)

SearchFields == {"unit_kinds", "media_types", "resource_kinds", "modalities", "representation_kinds"}
RepresentationOf(kind) ==
    IF kind = "text_chunk" THEN "retrieval_text" ELSE IF kind = "whole_resource" THEN "metadata_text" ELSE "transcript"

\* A unit: its resource, kind, kind of resource (which goes with its media
\* type), text score, vector score and the row of the text index.
Found(resource, kind, form, text, vector, row) ==
    [resource |-> resource, text |-> text, vector |-> vector, row |-> row, textual |-> kind = "whole_resource",
     attr |-> [unit_kinds |-> kind, media_types |-> form, resource_kinds |-> form, modalities |-> "text",
               representation_kinds |-> RepresentationOf(kind)]]
\* A unit of the pixels, without text.
PixelsOnly(unit) == [unit EXCEPT !.textual = FALSE, !.attr["modalities"] = "image"]

\* A video and a recording with speech, a picture and a document.
SearchUnits ==
    1 :> Found(1, "whole_resource", "video", 2, 4, 3) @@ 2 :> Found(1, "time_segment", "video", 2, 2, 1)
    @@ 3 :> Found(2, "time_segment", "audio", 2, 3, 2) @@ 4 :> Found(1, "frame", "video", 1, 3, 6)
    @@ 5 :> [Found(1, "whole_resource", "video", 1, 4, 5) EXCEPT !.textual = FALSE]
    @@ 6 :> Found(3, "whole_resource", "image", 1, 3, 4)
    @@ 7 :> Found(4, "text_chunk", "document", 2, 2, 7) @@ 8 :> Found(4, "text_chunk", "document", 1, 3, 8)
    @@ 9 :> PixelsOnly(Found(3, "whole_resource", "image", 0, 4, 9)) @@ 10 :> Found(2, "whole_resource", "audio", 0, 2, 10)

Full == [units |-> SearchUnits, space |-> "gemma", facets |-> [r \in 1 .. 4 |-> IF r = 1 THEN {"draft"} ELSE {}]]
\* The video was withdrawn and the document chunked anew.
Smaller == [Full EXCEPT !.units = [u \in {3, 6, 7} |-> IF u = 7 THEN Found(4, "text_chunk", "document", 3, 2, 9) ELSE SearchUnits[u]]]
\* Another model, and vectors of norm zero.
Renewed == [Full EXCEPT !.space = "qwen", !.units = [u \in 1 .. 10 |-> [SearchUnits[u] EXCEPT !.vector = 1]]]
Zero == [Full EXCEPT !.units = [u \in {1, 3, 7} |-> [SearchUnits[u] EXCEPT !.vector = 1]]]

Unfiltered == [filter |-> [f \in SearchFields |-> {}], any |-> {}, all |-> {}, none |-> {}]
Frames == [Unfiltered EXCEPT !.filter["unit_kinds"] = {"frame", "text_chunk"}]
Finished == [Unfiltered EXCEPT !.none = {"draft"}, !.filter["media_types"] = {"video", "audio", "document"}]

SearchCatalogs == {Full, Smaller, Renewed, Zero}
SearchScopes == {Unfiltered, Frames, Finished}
Finder == INSTANCE Retrieval WITH
    Fields <- SearchFields, Catalogs <- SearchCatalogs, Scopes <- SearchScopes, QuerySpace <- "gemma",
    Limits <- {1, 2}, Whole <- {1, 9}, RrfK <- 1, MaxRank <- 10, MaxPublishes <- 1

-----------------------------------------------------------------------------
(* Search in prepared batches. *)

At(unit, time) == unit @@ [time |-> time]
\* Two videos and a recording; texts with and without words of the query.
MediaUnits(t) ==
    1 :> At(Found(1, "time_segment", "video", t[1], 0, 1), 0) @@ 2 :> At(Found(1, "time_segment", "video", t[2], 0, 2), 5)
    @@ 3 :> At(Found(1, "frame", "video", t[3], 0, 3), 2) @@ 4 :> At(Found(1, "frame", "video", t[4], 0, 4), 6)
    @@ 5 :> At(Found(2, "frame", "video", 2, 0, 5), 1) @@ 6 :> At(Found(2, "frame", "video", 0, 0, 6), -1)
    @@ 7 :> At(Found(3, "time_segment", "audio", 1, 0, 7), -1) @@ 8 :> At(Found(2, "whole_resource", "video", 2, 0, 8), 0)
MediaBatches == {[units |-> MediaUnits(t), space |-> "none", facets |-> [r \in 1 .. 3 |-> IF r = 2 THEN {"draft"} ELSE {}]] : t \in [1 .. 4 -> {0, 2}]}
Media == INSTANCE MediaRetrieval WITH
    Fields <- SearchFields, RrfK <- 60, MaxRank <- 4, Batches <- MediaBatches,
    MediaScopes <- {Unfiltered, Finished, [Unfiltered EXCEPT !.filter["unit_kinds"] = {"frame"}]},
    MediaLimits <- {0, 1, 3, 5}, MediaWeights <- {<<1, 1>>, <<2, 1>>, <<0, 1>>, <<1, 0>>, <<0, 0>>}

-----------------------------------------------------------------------------
scanVars == <<disk, index, scan, done, edits, faults>>
searchVars == <<published, publishes, search>>
pureVars == <<chunking, building, preparing, grouping, metadata, media>>
vars == <<area, pureVars, scanVars, manifestVars, searchVars, tableVars, archiveVars>>

\* What is not exercised stays in one fixed initial state.
Init ==
    /\ area \in {"chunking", "building", "preparing", "grouping", "scanning", "metadata", "manifests", "searching", "media", "tables", "own tables", "archive"}
    /\ Chunker!Init /\ Chunker!LegacyInit /\ Batch!Init /\ Timed!Init /\ Declared!Init /\ Exchange!Init /\ Media!Init
    /\ Scanner!Init /\ (area # "scanning" => disk = <<"x", "absent", "absent">>)
    /\ Finder!Init /\ (area # "searching" => published = Full)
    /\ Archive!Init /\ (area # "archive" => marker = "absent")
    /\ (IF area = "own tables" THEN OwnTables!Init ELSE Tables!Init)

Next ==
    /\ area' = area
    /\ \/ area = "chunking" /\ Chunker!Next /\ UNCHANGED <<building, preparing, grouping, metadata, media, scanVars, manifestVars, searchVars, tableVars, archiveVars>>
       \/ area = "building" /\ Chunker!LegacyNext /\ UNCHANGED <<chunking, preparing, grouping, metadata, media, scanVars, manifestVars, searchVars, tableVars, archiveVars>>
       \/ area = "preparing" /\ Batch!Next /\ UNCHANGED <<chunking, building, grouping, metadata, media, scanVars, manifestVars, searchVars, tableVars, archiveVars>>
       \/ area = "grouping" /\ Timed!Next /\ UNCHANGED <<chunking, building, preparing, metadata, media, scanVars, manifestVars, searchVars, tableVars, archiveVars>>
       \/ area = "metadata" /\ Declared!Next /\ UNCHANGED <<chunking, building, preparing, grouping, media, scanVars, manifestVars, searchVars, tableVars, archiveVars>>
       \/ area = "media" /\ Media!Next /\ UNCHANGED <<chunking, building, preparing, grouping, metadata, scanVars, manifestVars, searchVars, tableVars, archiveVars>>
       \/ area = "scanning" /\ Scanner!Next /\ UNCHANGED <<pureVars, manifestVars, searchVars, tableVars, archiveVars>>
       \/ area = "manifests" /\ Exchange!Next /\ UNCHANGED <<pureVars, scanVars, searchVars, tableVars, archiveVars>>
       \/ area = "searching" /\ Finder!Next /\ UNCHANGED <<pureVars, scanVars, manifestVars, tableVars, archiveVars>>
       \/ area = "tables" /\ Tables!Next /\ UNCHANGED <<pureVars, scanVars, manifestVars, searchVars, archiveVars>>
       \/ area = "own tables" /\ OwnTables!Next /\ UNCHANGED <<pureVars, scanVars, manifestVars, searchVars, archiveVars>>
       \/ area = "archive" /\ Archive!Next /\ UNCHANGED <<pureVars, scanVars, manifestVars, searchVars, tableVars>>

Spec == Init /\ [][Next]_vars

\* The chunks of a document show all of it, within the limits and cut where
\* it hurts least, and the first chunker loses nothing below its first section
\* (Chunking); the graph of a document is the document's (DocumentBatch).
DocumentsFaithful ==
    Chunker!ChunksComplete /\ Chunker!CutsNatural /\ Chunker!LimitsNeverExceeded /\ Chunker!LegacyComplete /\ Batch!BatchFaithful
\* A scan leaves the index as the files are (MarkdownIndex), and its tables
\* answer for all of them (IndexStorage).
IndexFaithful ==
    /\ Scanner!IndexFaithful
    /\ area = "tables" => Tables!TablesSound
    /\ area = "own tables" => OwnTables!TablesSound /\ OwnTables!TextExact
\* Metadata is kept within its limits and found by exact typed values
\* (SourceMetadata).
MetadataExact == Declared!MetadataExact
\* A manifest stands for the graph it was made from (Manifests).
ManifestsFaithful == Exchange!ManifestsFaithful
\* What a search answers is what fusing its branches over one state of the
\* catalog gives, a failing semantic branch does not lose lexical results, and
\* similar resources are the nearest ones (Retrieval); a search in prepared
\* media finds the best units (MediaRetrieval).
SearchesTrue == Finder!AnswersFused /\ Finder!LexicalKept /\ Finder!SimilarExact /\ Media!MediaFound

\* The three statements below do not hold; README, section 5.
\* Only atoms that cannot be separated are refused as unsplittable
\* (TimedGrouping).
UnsplittableIsConnected == Timed!UnsplittableIsConnected
\* One block never keeps its whole file out of the index (Chunking).
BuildSucceeds == Chunker!BuildSucceeds
\* Success means that every file is indexed (MarkdownIndex).
ScanComplete == Scanner!ScanComplete

=============================================================================
