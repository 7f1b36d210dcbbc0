---------------------------- MODULE DocumentBatch ----------------------------
(***************************************************************************)
(* From a parsed document to one resource graph (application/indexing.py   *)
(* _prepare_structural_file and _prepare_legacy_file, compatibility.py     *)
(* prepared_file_to_resource_batch, metadata_projection.py): identities,   *)
(* sections, embeddings, projection of the metadata, validation.           *)
(*                                                                         *)
(* A block stands on the line of its position and is a heading with a      *)
(* level and a title, or a text that was cut into a number of equal        *)
(* chunks.  A logical id is the tuple of what it is the hash of.  With the *)
(* first chunker a text is large enough for chunks of its own, and its     *)
(* first chunk begins with the headings that stand right above it.         *)
(***************************************************************************)
EXTENDS Integers, Sequences, SequencesExt, FiniteSetsExt, TLC

CONSTANTS
    Documents,      \* the parsed documents, sequences of blocks
    Metadata,       \* their frontmatter: a function from pointers to values
    Projections,    \* the projection policies, sequences of [path, mode]
    Requests        \* how it is asked for: [policy, tokens, whole, provider, space]

VARIABLE preparing  \* the preparation of one document

IdlePreparing == [pc |-> "idle"]
Init == preparing = IdlePreparing

\* The sections of the first chunker.
First == INSTANCE Chunking WITH
    Configs <- {}, Files <- Documents, Limits <- {}, chunking <- preparing, building <- preparing

Indices(n) == [i \in 1 .. n |-> i]
IsHeading(block) == block.kind = "heading"

-----------------------------------------------------------------------------
(* Headings and identities. *)

\* Of the given headings those still open at block i, and their titles.
OpenHeadings(document, headings, i) ==
    SelectSeq(Indices(i), LAMBDA h :
        h \in headings /\ \A k \in h + 1 .. i : (k \in headings => document[k].level > document[h].level))
OpenTitles(document, headings, i) ==
    LET open == OpenHeadings(document, headings, i) IN [k \in 1 .. Len(open) |-> document[open[k]].title]
HeadingLines(document) == {i \in DOMAIN document : IsHeading(document[i])}
HeadingPath(document, i) == OpenTitles(document, HeadingLines(document), i)
ContentOf(block) == IF IsHeading(block) THEN block.title ELSE block.text

\* The number of positions before i with the same key.
OrdinalIn(n, Key(_), i) == Cardinality({k \in 1 .. i - 1 : Key(k) = Key(i)})

\* _stable_document_identities.
BlockId(document, i) ==
    LET key(k) == <<document[k].kind, HeadingPath(document, k), ContentOf(document[k])>>
    IN  Append(key(i), OrdinalIn(Len(document), key, i))

\* The chunks of the chunker, in the order of the document.
ChunksOf(document) ==
    FlattenSeq([i \in 1 .. Len(document) |->
        IF IsHeading(document[i]) THEN <<>>
        ELSE [k \in 1 .. document[i].chunks |-> [block |-> i, path |-> HeadingPath(document, i), text |-> <<document[i].text>>]]])

\* _stable_chunk_identities.
ChunkId(document, chunks, k) ==
    LET key(c) == <<BlockId(document, chunks[c].block), chunks[c].text>>
    IN  Append(key(k), OrdinalIn(Len(chunks), key, k))

-----------------------------------------------------------------------------
(* The first chunker: sections at H2 to H4, each with the path of those    *)
(* above it; what else there is goes by the first H1 or the record's id.   *)

SectionHeadings(document) == {h \in HeadingLines(document) : document[h].level \in 2 .. 4}
TopHeadings(document) == {h \in HeadingLines(document) : document[h].level = 1}
DocumentTitle(document) ==
    IF TopHeadings(document) = {} THEN "record id" ELSE document[Min(TopHeadings(document))].title

LegacyPath(document, section) ==
    IF section.first \in SectionHeadings(document)
    THEN OpenTitles(document, SectionHeadings(document), section.first) ELSE <<DocumentTitle(document)>>

\* The logical id of a section numbers those of one path.
LegacySectionId(document, section) ==
    LET path == LegacyPath(document, section)
    IN  <<path, Cardinality({s \in First!BuildSections(document) : s.first < section.first /\ LegacyPath(document, s) = path})>>

LegacySections(document) ==
    LET sections == First!BuildSections(document)
    IN  {[key |-> s.first, parent |-> Max({p.first : p \in First!ParentOf(sections, s)} \cup {0}),
          first |-> s.first, last |-> s.last] : s \in sections}

\* Right above block i, in the section that owns it.
HeadingsAbove(document, owner, i) ==
    SelectSeq(Indices(i - 1), LAMBDA h : h >= owner.first /\ \A k \in h .. i - 1 : IsHeading(document[k]))

\* A block that no section owns is dropped.
LegacyChunks(document) ==
    LET sections == First!BuildSections(document)
        owned(i) == ~IsHeading(document[i]) /\ First!Owner(sections, i) # {}
        chunksOf(i) ==
            LET owner == CHOOSE s \in First!Owner(sections, i) : TRUE
                above == HeadingsAbove(document, owner, i)
                text == <<document[i].text>>
            IN  [k \in 1 .. document[i].chunks |->
                    [block |-> i, section |-> owner, path |-> LegacyPath(document, owner),
                     text |-> IF k = 1 THEN [h \in 1 .. Len(above) |-> document[above[h]]] \o text ELSE text]]
    IN  FlattenSeq([i \in 1 .. Len(document) |-> IF owned(i) THEN chunksOf(i) ELSE <<>>])

\* Equal chunks are numbered in their section, and named by its path alone.
LegacyChunkId(document, chunks, k) ==
    LET key(c) == <<LegacySectionId(document, chunks[c].section), chunks[c].text>>
    IN  <<chunks[k].path, chunks[k].text, OrdinalIn(Len(chunks), key, k)>>

-----------------------------------------------------------------------------
(* Stored sections of the structural chunker. *)

\* The last heading of a chunk's path that starts at or before it.
SectionKey(document, chunk) ==
    LET candidates == {h \in HeadingLines(document) : HeadingPath(document, h) = chunk.path /\ h <= chunk.block}
    IN  IF candidates = {} THEN 0 ELSE Max(candidates)

\* Its own chunks; a heading without any spans those below it.
RelatedChunks(document, chunks, h) ==
    LET own == {k \in DOMAIN chunks : SectionKey(document, chunks[k]) = h}
        path == HeadingPath(document, h)
        following == {b \in HeadingLines(document) : b > h /\ Len(HeadingPath(document, b)) <= Len(path)}
        below == {k \in DOMAIN chunks :
                    /\ chunks[k].block >= h /\ (following = {} \/ chunks[k].block < Min(following))
                    /\ Len(chunks[k].path) >= Len(path) /\ SubSeq(chunks[k].path, 1, Len(path)) = path}
    IN  IF own = {} /\ h # 0 THEN below ELSE own

ParentKey(document, h) ==
    LET path == HeadingPath(document, h)
        parents == {b \in HeadingLines(document) : HeadingPath(document, b) = Front(path) /\ b < h}
    IN  IF h = 0 \/ Len(path) <= 1 \/ parents = {} THEN 0 ELSE Max(parents)

StoredSections(document, chunks) ==
    LET keys == HeadingLines(document) \cup {SectionKey(document, chunks[k]) : k \in DOMAIN chunks}
        lines(h) == {chunks[k].block : k \in RelatedChunks(document, chunks, h)} \cup (IF h = 0 THEN {} ELSE {h})
    IN  {[key |-> h, parent |-> ParentKey(document, h), first |-> Min(lines(h)), last |-> Max(lines(h))] : h \in keys}

-----------------------------------------------------------------------------
(* MetadataProjectionPolicy.project. A scalar is [type, value]. *)

Scalar(v) == "type" \in DOMAIN v
Scalars(v) == IF "list" \in DOMAIN v THEN v.list ELSE IF Scalar(v) THEN <<v>> ELSE <<>>

ValidProjections(rules) == \A i, j \in DOMAIN rules : rules[i].path = rules[j].path => i = j

TitleOf(metadata, rules, fallback) ==
    FoldLeft(LAMBDA title, r :
                 IF r.mode = "canonical_title" /\ r.path \in DOMAIN metadata
                    /\ Scalar(metadata[r.path]) /\ metadata[r.path].type = "s"
                 THEN metadata[r.path].value ELSE title,
             fallback, rules)

\* Every facet once; the type is a part of its encoding.
FacetsOf(metadata, rules) ==
    {<<r.path, v.type, v.value>> : <<r, v>> \in
        UNION {{<<r, v>> : v \in (IF r.mode = "facet" THEN (IF Scalar(metadata[r.path]) THEN {metadata[r.path]} ELSE {})
                                  ELSE IF "list" \in DOMAIN metadata[r.path] THEN ToSet(metadata[r.path].list) ELSE {})} :
               r \in {x \in ToSet(rules) : x.mode \in {"facet", "facet_many"} /\ x.path \in DOMAIN metadata}}}

\* The rendered text of scalars, the first of equal ones.
LexicalValues(metadata, rules) ==
    LET texts(r) == LET vs == Scalars(metadata[r.path]) IN [k \in 1 .. Len(vs) |-> vs[k].value]
        all == FoldLeft(LAMBDA acc, r : IF r.mode = "lexical_text" /\ r.path \in DOMAIN metadata
                                        THEN acc \o texts(r) ELSE acc, <<>>, rules)
    IN  FoldLeft(LAMBDA acc, t : IF t \in ToSet(acc) THEN acc ELSE Append(acc, t), <<>>, all)

-----------------------------------------------------------------------------
(* The preparation. *)

Begin ==
    /\ preparing = IdlePreparing
    /\ \E document \in Documents, metadata \in Metadata, rules \in Projections,
          request \in Requests, legacy \in BOOLEAN :
          /\ ValidProjections(rules)
          /\ preparing' = [pc |-> "identify", document |-> document, metadata |-> metadata, rules |-> rules,
                           request |-> request, legacy |-> legacy,
                           chunks |-> <<>>, sections |-> {}, vectors |-> <<>>]

Identify ==
    /\ preparing.pc = "identify"
    /\ LET p == preparing
           chunks == IF p.legacy THEN LegacyChunks(p.document) ELSE ChunksOf(p.document)
           id(k) == IF p.legacy THEN LegacyChunkId(p.document, chunks, k) ELSE ChunkId(p.document, chunks, k)
           section(k) == IF p.legacy THEN chunks[k].section.first ELSE SectionKey(p.document, chunks[k])
       IN  preparing' = [p EXCEPT
               !.pc = "embed",
               !.chunks = [k \in 1 .. Len(chunks) |->
                              [id |-> id(k), block |-> chunks[k].block, path |-> chunks[k].path, text |-> chunks[k].text,
                               section |-> section(k)]],
               !.sections = IF p.legacy THEN LegacySections(p.document) ELSE StoredSections(p.document, chunks)]

\* Without a provider or without chunks there are no vectors; a provider may
\* raise or answer with another number of them.
Embed ==
    /\ preparing.pc = "embed"
    /\ LET p == preparing
           n == Len(p.chunks)
       IN  \/ /\ n = 0 \/ ~p.request.provider
              /\ preparing' = [p EXCEPT !.pc = "project"]
           \/ /\ n > 0 /\ p.request.provider
              /\ preparing' = [p EXCEPT !.pc = "project", !.vectors = [k \in 1 .. n |-> <<"of", k>>]]
           \/ /\ n > 0 /\ p.request.provider
              /\ preparing' = [p EXCEPT !.pc = "embedding_count_mismatch"]

Unit(id, representation, text) == [id |-> id, representation |-> representation, text |-> text]

ChunkUnits(p) == [k \in 1 .. Len(p.chunks) |-> Unit(p.chunks[k].id, "retrieval_text", p.chunks[k].text)]
MetadataUnits(p) ==
    LET values == LexicalValues(p.metadata, p.rules)
    IN  IF values = <<>> THEN <<>> ELSE <<Unit(<<"metadata">>, "metadata_text", values)>>

\* A text beyond max_tokens is aggregated from its chunks or rejected.
IsLong(p) == p.request.policy # "default" /\ Len(p.chunks) > p.request.tokens
Aggregation(p) == IF p.request.whole /\ ~IsLong(p) THEN "direct" ELSE "centroid"
WholeUnit(p) == Unit(<<"whole", Aggregation(p)>>, "whole_resource_text", FlattenSeq([k \in 1 .. Len(p.chunks) |-> p.chunks[k].text]))

\* The given vector, the weighted centroid of the chunks', or none.
WholeVector(p) ==
    IF p.request.whole THEN <<"given">> ELSE IF p.vectors # <<>> THEN <<"centroid">> ELSE <<>>

ProjectFails(p) ==
    \/ IsLong(p) /\ p.request.policy = "reject"
    \/ IsLong(p) /\ p.vectors = <<>>
    \/ p.request.whole /\ p.vectors = <<>> /\ ~p.request.space

BatchOf(p) ==
    LET units == ChunkUnits(p) \o MetadataUnits(p) \o <<WholeUnit(p)>>
        own == {<<p.chunks[k].id, p.vectors[k]>> : k \in DOMAIN p.vectors}
        whole == IF WholeVector(p) = <<>> THEN {} ELSE {<<WholeUnit(p).id, WholeVector(p)>>}
    IN  [representations |-> {"retrieval_text", "whole_resource_text"}
                             \cup (IF MetadataUnits(p) = <<>> THEN {} ELSE {"metadata_text"}),
         units |-> units, vectors |-> own \cup whole,
         facets |-> FacetsOf(p.metadata, p.rules), title |-> TitleOf(p.metadata, p.rules, "file name")]

Project ==
    /\ preparing.pc = "project"
    /\ preparing' = IF ProjectFails(preparing) THEN [preparing EXCEPT !.pc = "projection_refused"]
                    ELSE [preparing EXCEPT !.pc = "validate"] @@ [batch |-> BatchOf(preparing)]

\* ResourceBatchValidator: the first rule that is broken.
ValidationError(batch) ==
    LET ids == [k \in 1 .. Len(batch.units) |-> batch.units[k].id]
        vectored == {v[1] : v \in batch.vectors}
    IN  IF Cardinality(ToSet(ids)) # Len(ids) THEN "unit_id_not_unique"
        ELSE IF {batch.units[k].representation : k \in DOMAIN batch.units} # batch.representations
        THEN "representation_without_unit"
        ELSE IF \E k \in DOMAIN batch.units : batch.units[k].text = <<>> /\ batch.units[k].id \notin vectored
        THEN "unit_without_text"
        ELSE "none"

Validate ==
    /\ preparing.pc = "validate"
    /\ preparing' = [preparing EXCEPT !.pc = IF ValidationError(preparing.batch) = "none" THEN "published"
                                             ELSE ValidationError(preparing.batch)]

Next == Begin \/ Identify \/ Embed \/ Project \/ Validate

Spec == Init /\ [][Next]_preparing

-----------------------------------------------------------------------------
\* What the first chunker cannot tell apart: equal texts under two sections
\* of one path.
LegacyTwins(p) ==
    p.legacy /\ \E i, j \in DOMAIN p.chunks :
        p.chunks[i].path = p.chunks[j].path /\ p.chunks[i].text = p.chunks[j].text /\ p.chunks[i].section # p.chunks[j].section

\* The headings that open a section, and what the first chunker loses: the
\* blocks above the first H1 of a file with no other headings.
OpeningHeadings(p) == IF p.legacy THEN SectionHeadings(p.document) ELSE HeadingLines(p.document)
Lost(p) ==
    IF p.legacy /\ SectionHeadings(p.document) = {} /\ TopHeadings(p.document) # {}
    THEN 1 .. Min(TopHeadings(p.document)) - 1 ELSE {}

\* A published document has one unit per chunk, each under an identity of its
\* own, with the vector that was made of it; every text has chunks, and each
\* is in the section of the nearest heading above it that opens one (above
\* the first: in none, or in the first chunker's section of the document
\* itself); sections span what they hold.  It is refused by
\* the validation only when it has no text or, with the first chunker, holds
\* one text twice under one heading path.
BatchFaithful ==
    LET p == preparing
        n == Len(p.chunks)
        nearest(i) == {h \in OpeningHeadings(p) : h <= i}
        itself == IF ~p.legacy THEN 0 ELSE Max(Lost(p) \cup {0}) + 1
    IN  /\ p.pc = "published" =>
              /\ {p.chunks[k].block : k \in 1 .. n} = {i \in DOMAIN p.document : ~IsHeading(p.document[i])} \ Lost(p)
              /\ \A k \in 1 .. n : p.batch.units[k].text = p.chunks[k].text
              /\ Cardinality({p.batch.units[k].id : k \in 1 .. n}) = n
              /\ p.vectors # <<>> => \A k \in 1 .. n :
                    {v \in p.batch.vectors : v[1] = p.batch.units[k].id} = {<<p.chunks[k].id, <<"of", k>>>>}
              /\ \A k \in 1 .. n : p.chunks[k].section =
                    LET above == nearest(p.chunks[k].block) IN IF above = {} THEN itself ELSE Max(above)
              /\ \A s \in p.sections : /\ s.first <= s.last
                                       /\ s.parent < s.key \/ s.key = 0
                                       /\ \A k \in 1 .. n : p.chunks[k].section = s.key =>
                                              s.first <= p.chunks[k].block /\ p.chunks[k].block <= s.last
        /\ p.pc = "unit_id_not_unique" => LegacyTwins(p)
        /\ p.pc = "unit_without_text" => n = 0
        /\ p.pc # "representation_without_unit" \/ n = 0

=============================================================================
