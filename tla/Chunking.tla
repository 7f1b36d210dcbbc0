------------------------------ MODULE Chunking ------------------------------
(***************************************************************************)
(* The two chunkers.                                                       *)
(*                                                                         *)
(* StructuralChunker (application/chunking.py): the blocks of a document   *)
(* become drafts, one block after another, small neighbours are merged,    *)
(* and every draft becomes a retrieval chunk.                              *)
(*                                                                         *)
(* Prose is a sequence of characters; a character has a number of UTF-8    *)
(* bytes, may be white, and carries the strongest boundary that follows it:*)
(* 0 paragraph, 1 sentence, 2 word, 3 none.  Code, diagrams and tables are *)
(* sequences of lines, each with its characters and bytes per character.   *)
(* A draft remembers which positions of its block it shows.                *)
(*                                                                         *)
(* The first chunker (markdown/section_builder.py, chunk_builder.py):      *)
(* headings of levels 2 to 4 become a tree of sections, every block goes   *)
(* to the deepest section around it, and each section is packed, split,    *)
(* merged and overlapped by itself.  Block i stands on line i.  A heading  *)
(* has a level, a text is a sequence of sentences, a sentence a sequence   *)
(* of word lengths.  A draft keeps the blocks it shows and the number of   *)
(* its characters.                                                         *)
(***************************************************************************)
EXTENDS Integers, Sequences, SequencesExt, FiniteSetsExt

CONSTANTS
    Documents,      \* the documents, sequences of blocks
    Configs,        \* the chunking configurations
    Files,          \* the files parsed for the first chunker, sequences of blocks
    Limits          \* min_chunk_chars, target_chunk_chars, hard_limit_chars, overlap_chars

VARIABLES
    chunking,       \* the call of StructuralChunker.build
    building        \* the call of build_sections and build_chunks

IdleChunking == [pc |-> "idle"]
Init == chunking = IdleChunking

AtMost(a, b) == IF a <= b THEN a ELSE b
AtLeast(a, b) == IF a >= b THEN a ELSE b

\* StructuralChunkingConfig.
ValidConfig(c) ==
    /\ \A limit \in {c.min, c.target, c.hard, c.tokens, c.window, c.rows} : limit >= 1
    /\ c.target <= c.hard /\ c.min <= c.target

-----------------------------------------------------------------------------
(* Budgets. *)

Prose == {"paragraph", "list", "blockquote", "callout", "unknown"}
Mergeable == {"paragraph", "list", "blockquote"}
Separators == {"heading", "frontmatter", "thematic_break"}

\* _embedding_prefix: headings and a label, cut to leave room for the body.
PrefixBytes(config, block) ==
    LET full == block.heading + (IF block.kind = "paragraph" THEN 0 ELSE 1)
    IN  AtMost(full, AtLeast(0, config.tokens * 4 - 6))

\* _body_limits.
BodyLimits(config, block, useTarget) ==
    LET prefix == PrefixBytes(config, block)
    IN  [chars |-> AtMost(IF useTarget THEN config.target ELSE config.hard, config.hard),
         bytes |-> AtLeast(1, config.tokens * 4 - prefix - (IF prefix > 0 THEN 2 ELSE 0))]

WithinBudget(chars, bytes, budget) == chars <= budget.chars /\ bytes <= budget.bytes

-----------------------------------------------------------------------------
(* _split_range: ranges <<first, last>> of a text. *)

BytesIn(text, s, e) == FoldLeft(LAMBDA sum, c : sum + c.bytes, 0, SubSeq(text, s, e))
Fits(text, s, e, budget) == WithinBudget(e - s + 1, BytesIn(text, s, e), budget)

\* _units: the text from s to e cut after every boundary of the level.
Units(text, s, e, level) ==
    LET cuts == SelectSeq([i \in 1 .. e - s + 1 |-> s + i - 1], LAMBDA i : i = e \/ text[i].boundary <= level)
    IN  [k \in 1 .. Len(cuts) |-> <<IF k = 1 THEN s ELSE cuts[k - 1] + 1, cuts[k]>>]

\* Level 3: as many characters as fit.
SplitCharacters(text, s, e, budget) ==
    FoldLeft(LAMBDA pieces, i :
                 IF pieces # <<>> /\ Fits(text, Last(pieces)[1], i, budget)
                 THEN [pieces EXCEPT ![Len(pieces)] = <<@[1], i>>]
                 ELSE Append(pieces, <<i, i>>),
             <<>>, [i \in 1 .. e - s + 1 |-> s + i - 1])

\* _pack_units: units that fit are packed together, the others split deeper.
PackUnits(text, units, budget, Deeper(_, _)) ==
    LET flushed(acc) == IF acc.open = <<>> THEN acc.pieces ELSE Append(acc.pieces, acc.open)
        take(acc, u) ==
            IF ~Fits(text, u[1], u[2], budget)
            THEN [pieces |-> flushed(acc) \o Deeper(u[1], u[2]), open |-> <<>>]
            ELSE IF acc.open = <<>> THEN [acc EXCEPT !.open = u]
            ELSE IF Fits(text, acc.open[1], u[2], budget) THEN [acc EXCEPT !.open = <<@[1], u[2]>>]
            ELSE [pieces |-> flushed(acc), open |-> u]
    IN  flushed(FoldLeft(take, [pieces |-> <<>>, open |-> <<>>], units))

\* One level: a text that fits is left alone, one unit goes a level deeper.
SplitLevel(text, s, e, budget, level, Deeper(_, _)) ==
    LET units == Units(text, s, e, level)
    IN  IF Fits(text, s, e, budget) THEN <<<<s, e>>>>
        ELSE IF Len(units) > 1 THEN PackUnits(text, units, budget, Deeper)
        ELSE Deeper(s, e)

SplitWords(text, s, e, budget) ==
    SplitLevel(text, s, e, budget, 2, LAMBDA a, b : SplitCharacters(text, a, b, budget))
SplitSentences(text, s, e, budget) ==
    SplitLevel(text, s, e, budget, 1, LAMBDA a, b : SplitWords(text, a, b, budget))
SplitProse(text, budget) ==
    SplitLevel(text, 1, Len(text), budget, 0, LAMBDA a, b : SplitSentences(text, a, b, budget))

White(text, s, e) == \A i \in s .. e : text[i].white

-----------------------------------------------------------------------------
(* Drafts of a block. *)

Draft(b, block, from, to, chars, bytes, white, mergeable) ==
    [blocks |-> <<b>>, kind |-> block.kind, heading |-> block.heading, from |-> from, to |-> to,
     chars |-> chars, bytes |-> bytes, white |-> white, mergeable |-> mergeable]

ProseDrafts(config, b, block) ==
    LET text == block.text
        budget == BodyLimits(config, block, block.kind = "paragraph")
        ranges == IF White(text, 1, Len(text)) THEN <<>> ELSE SplitProse(text, budget)
        shown == SelectSeq(ranges, LAMBDA r : ~White(text, r[1], r[2]))
    IN  [k \in 1 .. Len(shown) |->
            Draft(b, block, shown[k][1], shown[k][2], shown[k][2] - shown[k][1] + 1,
                  BytesIn(text, shown[k][1], shown[k][2]), FALSE,
                  block.kind \in Mergeable /\ Len(ranges) = 1)]

\* Lines i to j joined by line feeds.
LineChars(lines, i, j) == FoldLeft(LAMBDA sum, l : sum + l.chars, j - i, SubSeq(lines, i, j))
LineBytes(lines, i, j) == FoldLeft(LAMBDA sum, l : sum + l.chars * l.width, j - i, SubSeq(lines, i, j))
LinesFit(lines, i, j, budget) == WithinBudget(LineChars(lines, i, j), LineBytes(lines, i, j), budget)
BlankLines(lines, i, j) == \A k \in i .. j : lines[k].white

LineDraft(b, block, lines, i, j) ==
    Draft(b, block, i, j, LineChars(lines, i, j), LineBytes(lines, i, j), BlankLines(lines, i, j), FALSE)

\* The line feed after line j, which the last line does not have.
LineFeed(lines, j) == IF j < Len(lines) THEN 1 ELSE 0

\* A line beyond the budget is cut into slices of characters; the line feed
\* that ends it goes with the last slice, or is a slice of its own.
FragmentLine(b, block, lines, i, budget) ==
    LET line == lines[i]
        size == AtMost(budget.chars, budget.bytes \div line.width)
        count == (line.chars + size - 1) \div size
        slice(k) == IF k < count THEN size ELSE line.chars - size * (count - 1)
        feed == LineFeed(lines, i)
        joins == WithinBudget(slice(count) + feed, slice(count) * line.width + feed, budget)
    IN  [k \in 1 .. count |-> Draft(b, block, i, i, slice(k), slice(k) * line.width, line.white, FALSE)]
        \o (IF joins THEN <<>> ELSE <<Draft(b, block, i, i, 1, 1, TRUE, FALSE)>>)

\* _line_drafts: windows of lines, closed by their number or by the budget.
LineDrafts(config, b, block) ==
    LET lines == block.lines
        budget == BodyLimits(config, block, FALSE)
        flushed(acc, i) == IF acc.first = i THEN acc.drafts
                           ELSE Append(acc.drafts, LineDraft(b, block, lines, acc.first, i - 1))
        take(acc, i) ==
            LET full == acc.first < i /\ (i - acc.first >= config.window \/ ~LinesFit(lines, acc.first, i, budget))
                here == IF full THEN [drafts |-> flushed(acc, i), first |-> i] ELSE acc
            IN  IF LinesFit(lines, i, i, budget) THEN here
                ELSE [drafts |-> flushed(here, i) \o FragmentLine(b, block, lines, i, budget), first |-> i + 1]
        n == Len(lines)
        walked == FoldLeft(take, [drafts |-> <<>>, first |-> 1], [i \in 1 .. n |-> i])
    IN  IF n = 0 THEN <<>> ELSE flushed(walked, n + 1)

\* Lines i to j with the line feed that ends them.
SliceFits(lines, i, j, budget) ==
    WithinBudget(LineChars(lines, i, j) + LineFeed(lines, j), LineBytes(lines, i, j) + LineFeed(lines, j), budget)

\* _line_drafts_for_range: a definition of Python code that is too large.
RangeDrafts(config, b, block, from, to, budget) ==
    LET lines == block.lines
        take(acc, i) ==
            IF acc # <<>> /\ Last(acc)[2] = i - 1 /\ i - Last(acc)[1] < config.window
               /\ SliceFits(lines, Last(acc)[1], i, budget)
            THEN [acc EXCEPT ![Len(acc)] = <<@[1], i>>] ELSE Append(acc, <<i, i>>)
        windows == FoldLeft(take, <<>>, [k \in 1 .. to - from + 1 |-> from + k - 1])
    IN  FlattenSeq([k \in 1 .. Len(windows) |->
            IF SliceFits(lines, windows[k][1], windows[k][2], budget)
            THEN <<LineDraft(b, block, lines, windows[k][1], windows[k][2])>>
            ELSE FragmentLine(b, block, lines, windows[k][1], budget)])

\* _python_drafts: definitions at the top level and the code between them;
\* without any, or when the code does not parse, windows of lines.
PythonDrafts(config, b, block) ==
    LET lines == block.lines
        budget == BodyLimits(config, block, FALSE)
        n == Len(lines)
        tops == block.definitions
        between(k) == <<IF k = 1 THEN 1 ELSE tops[k - 1][2] + 1, IF k > Len(tops) THEN n ELSE tops[k][1] - 1>>
        all == FlattenSeq([k \in 1 .. Len(tops) |-> <<between(k), tops[k]>>]) \o <<between(Len(tops) + 1)>>
        ranges == SelectSeq(all, LAMBDA r : r[1] <= r[2] /\ ~BlankLines(lines, r[1], r[2]))
    IN  FlattenSeq([k \in 1 .. Len(ranges) |->
            IF SliceFits(lines, ranges[k][1], ranges[k][2], budget) /\ ranges[k][2] - ranges[k][1] < config.window
            THEN <<LineDraft(b, block, lines, ranges[k][1], ranges[k][2])>>
            ELSE RangeDrafts(config, b, block, ranges[k][1], ranges[k][2], budget)])

\* _table_drafts: the two header lines are repeated with every group of
\* rows; what cannot be shown is replaced by a marker of bounded size.
Marker(b, block, i, j) == Draft(b, block, i, j, 1, 1, FALSE, FALSE)

TableDrafts(config, b, block) ==
    LET lines == block.lines
        n == Len(lines)
        budget == BodyLimits(config, block, FALSE)
        chars(i, j) == LineChars(lines, 1, 2) + 1 + LineChars(lines, i, j)
        bytes(i, j) == LineBytes(lines, 1, 2) + 1 + LineBytes(lines, i, j)
        shows(i, j) == WithinBudget(chars(i, j), bytes(i, j), budget)
        take(acc, i) ==
            IF acc # <<>> /\ shows(Last(acc)[1], i) /\ i - Last(acc)[1] < config.rows
            THEN [acc EXCEPT ![Len(acc)] = <<@[1], i>>] ELSE Append(acc, <<i, i>>)
        groups == FoldLeft(take, <<>>, [k \in 1 .. n - 2 |-> k + 2])
    IN  IF n <= 2
        THEN <<IF LinesFit(lines, 1, n, budget) THEN LineDraft(b, block, lines, 1, n) ELSE Marker(b, block, 1, n)>>
        ELSE [k \in 1 .. Len(groups) |->
                LET i == groups[k][1]
                    j == groups[k][2]
                IN  IF shows(i, j)
                    THEN Draft(b, block, IF i = 3 THEN 1 ELSE i, j, chars(i, j), bytes(i, j), FALSE, FALSE)
                    ELSE Marker(b, block, i, j)]

BlockDrafts(config, b, block) ==
    CASE block.kind \in Prose -> ProseDrafts(config, b, block)
      [] block.kind = "python" -> IF block.definitions = <<>> THEN LineDrafts(config, b, block)
                                  ELSE PythonDrafts(config, b, block)
      [] block.kind \in {"code", "mermaid"} -> LineDrafts(config, b, block)
      [] block.kind = "table" -> TableDrafts(config, b, block)

-----------------------------------------------------------------------------
(* build: the stream of drafts, None where a heading stood. *)

Begin ==
    /\ chunking = IdleChunking
    /\ \E document \in Documents, config \in Configs :
          /\ ValidConfig(config)
          /\ chunking' = [pc |-> "draft", config |-> config, document |-> document, next |-> 1,
                          stream |-> <<>>, merged |-> <<>>, pending |-> <<>>, chunks |-> <<>>]

Separator == [separator |-> TRUE]

DraftBlock ==
    /\ chunking.pc = "draft"
    /\ LET c == chunking
           block == c.document[c.next]
           drafts == IF block.kind \in Separators THEN <<Separator>> ELSE BlockDrafts(c.config, c.next, block)
       IN  chunking' = [c EXCEPT !.stream = @ \o drafts, !.next = @ + 1,
                                 !.pc = IF c.next = Len(c.document) THEN "merge" ELSE "draft"]

\* _merge_pair: same kind and heading, within the target of the first block.
Joined(left, right) ==
    [left EXCEPT !.blocks = @ \o right.blocks, !.to = right.to,
                 !.chars = @ + 2 + right.chars, !.bytes = @ + 2 + right.bytes]
\* Anything mergeable that fits.
CanMergeAnything(c, left, right) ==
    LET both == Joined(left, right)
    IN  WithinBudget(both.chars, both.bytes, BodyLimits(c.config, c.document[left.blocks[1]], TRUE))
CanMerge(c, left, right) ==
    LET both == Joined(left, right)
    IN  /\ left.kind = right.kind /\ left.heading = right.heading
        /\ WithinBudget(both.chars, both.bytes, BodyLimits(c.config, c.document[left.blocks[1]], TRUE))

\* _merge_small_drafts: one draft of the stream.
MergeDraft ==
    /\ chunking.pc = "merge"
    /\ chunking.stream # <<>>
    /\ LET c == chunking
           draft == Head(c.stream)
           alone == draft = Separator \/ ~draft.mergeable
           left == c.pending[1]
           small == left.chars < c.config.min \/ draft.chars < c.config.min
           moved == IF alone
                    THEN [c EXCEPT !.merged = @ \o c.pending \o (IF draft = Separator THEN <<>> ELSE <<draft>>),
                                   !.pending = <<>>]
                    ELSE IF c.pending = <<>> THEN [c EXCEPT !.pending = <<draft>>]
                    ELSE IF small /\ CanMerge(c, left, draft) THEN [c EXCEPT !.pending = <<Joined(left, draft)>>]
                    ELSE [c EXCEPT !.merged = Append(@, left), !.pending = <<draft>>]
       IN  chunking' = [moved EXCEPT !.stream = Tail(c.stream)]

FlushPending ==
    /\ chunking.pc = "merge"
    /\ chunking.stream = <<>>
    /\ chunking' = [chunking EXCEPT !.pc = "build", !.merged = @ \o chunking.pending, !.pending = <<>>]

EstimateTokens(bytes) == AtLeast(1, (bytes + 3) \div 4)

\* The checks of build and of RetrievalChunk.
Refused(c, draft) ==
    LET prefix == PrefixBytes(c.config, c.document[draft.blocks[1]])
        embedded == draft.bytes + (IF prefix > 0 THEN prefix + 2 ELSE 0)
    IN  IF draft.chars > c.config.hard THEN "hard_character_limit"
        ELSE IF EstimateTokens(embedded) > c.config.tokens THEN "token_limit"
        ELSE IF draft.white THEN "display_content_required" ELSE "none"

BuildChunk ==
    /\ chunking.pc = "build"
    /\ LET c == chunking
           n == Len(c.chunks) + 1
       IN  IF n > Len(c.merged) THEN chunking' = [c EXCEPT !.pc = "done"]
           ELSE IF Refused(c, c.merged[n]) # "none" THEN chunking' = [c EXCEPT !.pc = Refused(c, c.merged[n])]
           ELSE chunking' = [c EXCEPT !.chunks = Append(@, c.merged[n])]

Next == Begin \/ DraftBlock \/ MergeDraft \/ FlushPending \/ BuildChunk

Spec == Init /\ [][Next]_chunking

-----------------------------------------------------------------------------
\* The white positions of a block, none of which needs to be shown.
WhiteAt(block, i) == IF block.kind \in Prose THEN block.text[i].white ELSE block.lines[i].white
Positions(block) == IF block.kind \in Prose THEN 1 .. Len(block.text)
                    ELSE IF block.kind = "table" /\ Len(block.lines) > 2 THEN 3 .. Len(block.lines)
                    ELSE 1 .. Len(block.lines)

\* The chunks of a document that was built show every block that has text:
\* all of it, in the order of the document, no prose twice; chunks of several
\* blocks join neighbours of one kind under one heading; no limit of the
\* configuration is ever exceeded.
ChunksComplete ==
    chunking.pc = "done" =>
        LET c == chunking
            single(b) == SelectSeq(c.chunks, LAMBDA d : d.blocks = <<b>>)
            joined(b) == {d \in DOMAIN c.chunks : b \in {c.chunks[d].blocks[k] : k \in DOMAIN c.chunks[d].blocks}}
        IN  /\ \A b \in {x \in DOMAIN c.document : c.document[x].kind \notin Separators} :
                  LET block == c.document[b]
                      own == single(b)
                      shown == UNION {own[k].from .. own[k].to : k \in DOMAIN own}
                      merged == \E d \in joined(b) : Len(c.chunks[d].blocks) > 1
                  IN  /\ merged \/ \A i \in Positions(block) : WhiteAt(block, i) \/ i \in shown
                      /\ merged => joined(b) = {CHOOSE d \in joined(b) : TRUE}
                      /\ \A k \in 1 .. Len(own) - 1 : own[k].to <= own[k + 1].from
                      /\ block.kind \in Prose => \A k \in 1 .. Len(own) - 1 : own[k].to < own[k + 1].from
            /\ \A d \in DOMAIN c.chunks :
                  LET blocks == c.chunks[d].blocks
                  IN  \A k \in 1 .. Len(blocks) - 1 :
                        /\ blocks[k] < blocks[k + 1]
                        /\ \A b \in blocks[k] + 1 .. blocks[k + 1] - 1 :
                              c.document[b].kind \notin Separators /\ joined(b) = {}
                        /\ c.document[blocks[k]].kind = c.document[blocks[k + 1]].kind
                        /\ c.document[blocks[k]].heading = c.document[blocks[k + 1]].heading
            /\ \A d \in 1 .. Len(c.chunks) - 1 :
                  c.chunks[d].blocks[1] <= c.chunks[d + 1].blocks[1]

\* Prose is only cut inside a word, a sentence or a paragraph that does not
\* fit by itself.
CutsNatural ==
    chunking.pc = "done" =>
        LET c == chunking
        IN  \A d \in DOMAIN c.chunks :
              LET chunk == c.chunks[d]
                  block == c.document[chunk.blocks[1]]
                  budget == BodyLimits(c.config, block, block.kind = "paragraph")
              IN  Len(chunk.blocks) = 1 /\ block.kind \in Prose /\ chunk.to < Len(block.text) =>
                    LET unitAt(level) == CHOOSE u \in ToSet(Units(block.text, 1, Len(block.text), level)) :
                                            u[1] <= chunk.to /\ chunk.to <= u[2]
                    IN  \A level \in 0 .. 2 :
                          block.text[chunk.to].boundary > level =>
                              ~Fits(block.text, unitAt(level)[1], unitAt(level)[2], budget)

\* No document is refused: limits leave room for every block, so that one
\* block cannot keep its whole file out of the index.
BuildSucceeds == chunking.pc \notin {"hard_character_limit", "token_limit", "display_content_required"}

\* The limits are never the reason.
LimitsNeverExceeded == chunking.pc \notin {"hard_character_limit", "token_limit"}

-----------------------------------------------------------------------------
(* The first chunker. *)

IdleBuilding == [pc |-> "idle"]
LegacyInit == building = IdleBuilding

IsHeading(block) == block.kind = "heading"
Lines(blocks) == 1 .. Len(blocks)
HeadingsAt(blocks, levels) == {i \in Lines(blocks) : IsHeading(blocks[i]) /\ blocks[i].level \in levels}

-----------------------------------------------------------------------------
(* build_sections. *)

Section(level, first, last) == [level |-> level, first |-> first, last |-> last]

\* A section ends before the next one of its level or above.
SectionEnd(blocks, heads, i) ==
    LET closing == {j \in heads : j > i /\ blocks[j].level <= blocks[i].level}
    IN  IF closing = {} THEN Len(blocks) ELSE Min(closing) - 1

\* Everything without headings; from the first H1 on with nothing below it;
\* else the tree of H2 to H4, and what stands before it.
BuildSections(blocks) ==
    LET heads == HeadingsAt(blocks, 2 .. 4)
        tops == HeadingsAt(blocks, {1})
        any == HeadingsAt(blocks, 1 .. 6)
        tree == {Section(blocks[i].level, i, SectionEnd(blocks, heads, i)) : i \in heads}
    IN  IF any = {} \/ (heads = {} /\ tops = {}) THEN {Section(2, 1, AtLeast(1, Len(blocks)))}
        ELSE IF heads = {} THEN {Section(2, Min(tops), Len(blocks))}
        ELSE IF Min(heads) = 1 THEN tree ELSE tree \cup {Section(2, 1, Min(heads) - 1)}

\* parent_id: the heading on top of the stack when the section is met.
ParentOf(sections, s) ==
    LET above == {t \in sections : t.first < s.first /\ s.first <= t.last /\ t.level < s.level}
    IN  IF above = {} THEN {} ELSE {CHOOSE t \in above : \A u \in above : u.first <= t.first}

\* _assign_blocks_to_sections: the first match in descending (level, start).
Owner(sections, i) ==
    LET around == {s \in sections : s.first <= i /\ i <= s.last}
    IN  IF around = {} THEN {}
        ELSE {CHOOSE s \in around : \A t \in around : t.level < s.level \/ (t.level = s.level /\ t.first <= s.first)}

-----------------------------------------------------------------------------
(* _pack_section_blocks. *)

SizeOf(words) == FoldLeft(LAMBDA sum, w : sum + w, IF words = <<>> THEN 0 ELSE Len(words) - 1, words)
WordsOf(block) == IF block.kind = "text" THEN FlattenSeq(block.sentences) ELSE <<block.chars>>

\* Headings go with the block that follows them in the section.
GroupSectionBlocks(blocks, owned) ==
    FoldLeft(LAMBDA acc, i : IF IsHeading(blocks[i]) THEN [acc EXCEPT !.pending = Append(@, i)]
                             ELSE [groups |-> Append(acc.groups, Append(acc.pending, i)), pending |-> <<>>],
             [groups |-> <<>>, pending |-> <<>>], owned).groups

GroupChars(blocks, group) ==
    FoldLeft(LAMBDA sum, i : sum + SizeOf(WordsOf(blocks[i])), 2 * (Len(group) - 1), group)
TextOnly(blocks, group) == \A k \in DOMAIN group : blocks[group[k]].kind \in {"heading", "text"}

\* Pieces of whole units, as many as fit; a unit is never cut.
PackSizes(sizes, limit) ==
    FoldLeft(LAMBDA pieces, n : IF pieces # <<>> /\ Last(pieces) + 1 + n <= limit
                                THEN [pieces EXCEPT ![Len(pieces)] = @ + 1 + n] ELSE Append(pieces, n),
             <<>>, sizes)

\* _split_text_by_sentences; one sentence is split by words.
SplitSizes(blocks, group, target) ==
    LET sentences == blocks[Last(group)].sentences
        sizes == [k \in 1 .. Len(sentences) |-> SizeOf(sentences[k])]
        titles == [k \in 1 .. Len(group) - 1 |-> blocks[group[k]].chars]
    IN  PackSizes(titles \o (IF Len(sentences) > 1 THEN sizes ELSE sentences[1]), target)

DraftOf(blocks, section, group, chars) ==
    [section |-> section, blocks |-> group, chars |-> chars, text |-> TextOnly(blocks, group)]

PackSection(c, section, owned) ==
    LET blocks == c.blocks
        limits == c.limits
        flushed(acc) == IF acc.open = <<>> THEN acc.drafts
                        ELSE Append(acc.drafts, DraftOf(blocks, section, acc.open, acc.chars))
        add(acc, group, chars) ==
            LET grown == [acc EXCEPT !.open = @ \o group, !.chars = @ + chars + (IF acc.open = <<>> THEN 0 ELSE 2)]
            IN  IF grown.chars >= limits.target THEN [drafts |-> flushed(grown), open |-> <<>>, chars |-> 0] ELSE grown
        take(acc, group) ==
            LET chars == GroupChars(blocks, group)
                room == IF acc.open # <<>> /\ acc.chars + chars + 2 > limits.hard
                        THEN [drafts |-> flushed(acc), open |-> <<>>, chars |-> 0] ELSE acc
                pieces == SplitSizes(blocks, group, limits.target)
            IN  IF room.open = <<>> /\ chars > limits.hard /\ TextOnly(blocks, group)
                THEN [room EXCEPT !.drafts = @ \o [k \in 1 .. Len(pieces) |-> DraftOf(blocks, section, group, pieces[k])]]
                ELSE add(room, group, chars)
    IN  flushed(FoldLeft(take, [drafts |-> <<>>, open |-> <<>>, chars |-> 0], GroupSectionBlocks(blocks, owned)))

-----------------------------------------------------------------------------
(* _merge_small_chunks and _apply_overlap. *)

MergeDrafts(left, right) ==
    [left EXCEPT !.blocks = @ \o right.blocks, !.chars = @ + 2 + right.chars, !.text = @ /\ right.text]
Together(left, right, hard) == left.chars + 2 + right.chars <= hard

\* A small draft joins the one before it, or else the one after it.
MergeSmall(limits, drafts) ==
    LET take(acc, i) ==
            LET draft == drafts[i]
                small == draft.chars < limits.min
            IN  IF acc.skip THEN [acc EXCEPT !.skip = FALSE]
                ELSE IF small /\ acc.merged # <<>> /\ Together(Last(acc.merged), draft, limits.hard)
                THEN [acc EXCEPT !.merged = Append(Front(@), MergeDrafts(Last(@), draft))]
                ELSE IF small /\ i < Len(drafts) /\ Together(draft, drafts[i + 1], limits.hard)
                THEN [merged |-> Append(acc.merged, MergeDrafts(draft, drafts[i + 1])), skip |-> TRUE]
                ELSE [acc EXCEPT !.merged = Append(@, draft)]
        merged == FoldLeft(take, [merged |-> <<>>, skip |-> FALSE], [i \in 1 .. Len(drafts) |-> i]).merged
        n == Len(merged)
    IN  IF Len(drafts) <= 1 THEN drafts
        ELSE IF n >= 2 /\ merged[n].chars < limits.min /\ Together(merged[n - 1], merged[n], limits.hard)
        THEN Append(SubSeq(merged, 1, n - 2), MergeDrafts(merged[n - 1], merged[n]))
        ELSE merged

\* Text drafts of one section repeat the end of the one before, which may
\* itself have been extended, as far as the hard limit allows.
ApplyOverlap(limits, drafts) ==
    LET take(done, i) ==
            LET previous == Last(done)
                room == limits.hard - drafts[i].chars
                wanted == IF limits.overlap < previous.chars THEN limits.overlap ELSE previous.chars
                overlap == IF wanted + 1 <= room THEN wanted ELSE room - 1
            IN  IF done # <<>> /\ limits.overlap > 0 /\ previous.section = drafts[i].section
                   /\ previous.text /\ drafts[i].text /\ room > 1
                THEN Append(done, [drafts[i] EXCEPT !.chars = @ + 1 + overlap])
                ELSE Append(done, drafts[i])
    IN  FoldLeft(take, <<>>, [i \in 1 .. Len(drafts) |-> i])

-----------------------------------------------------------------------------
(* build_chunks, one section after another. *)

LegacyBegin ==
    /\ building = IdleBuilding
    /\ \E blocks \in Files, limits \in Limits :
          building' = [pc |-> "pack", blocks |-> blocks, limits |-> limits, at |-> 1,
                       sections |-> BuildSections(blocks), drafts |-> <<>>]

\* The sections in the order of their first lines.
PackNext ==
    /\ building.pc = "pack"
    /\ LET c == building
           here == {s \in c.sections : s.first = c.at}
           s == CHOOSE x \in here : TRUE
           owned == SelectSeq([i \in 1 .. Len(c.blocks) |-> i], LAMBDA i : Owner(c.sections, i) = {s})
           more == IF here = {} THEN <<>> ELSE MergeSmall(c.limits, PackSection(c, s, owned))
       IN  building' = [c EXCEPT !.drafts = @ \o more, !.at = @ + 1,
                                 !.pc = IF c.at = Len(c.blocks) THEN "overlap" ELSE "pack"]

Overlap ==
    /\ building.pc = "overlap"
    /\ building' = [building EXCEPT !.pc = "done", !.drafts = ApplyOverlap(building.limits, @)]

LegacyNext == LegacyBegin \/ PackNext \/ Overlap

LegacySpec == LegacyInit /\ [][LegacyNext]_building

-----------------------------------------------------------------------------
\* Every block with content below the first section is in a chunk of its own
\* section, the sections nest, chunks keep the order of the file, and a chunk
\* beyond the hard limit is one group, or one sentence, that is itself.
LegacyComplete ==
    building.pc = "done" =>
        LET c == building
            first == Min({s.first : s \in c.sections})
            holds(d, i) == i \in ToSet(d.blocks)
        IN  /\ \A i \in first .. Len(c.blocks) :
                  ~IsHeading(c.blocks[i]) =>
                      \E d \in ToSet(c.drafts) : holds(d, i) /\ {d.section} = Owner(c.sections, i)
            /\ first > 1 => HeadingsAt(c.blocks, 2 .. 4) = {}
            /\ \A s, t \in c.sections : s.first < t.first => t.first > s.last \/ t.last <= s.last
            /\ \A s \in c.sections : \A p \in ParentOf(c.sections, s) : s.last <= p.last
            /\ \A k \in DOMAIN c.drafts : \A m \in DOMAIN c.drafts :
                  k < m /\ c.drafts[k].section = c.drafts[m].section =>
                      Last(c.drafts[k].blocks) <= Last(c.drafts[m].blocks)
            /\ \A d \in ToSet(c.drafts) :
                  d.chars > c.limits.hard => Cardinality({i \in ToSet(d.blocks) : ~IsHeading(c.blocks[i])}) = 1

=============================================================================
