--------------------------- MODULE SourceMetadata ---------------------------
(***************************************************************************)
(* The metadata of a source (front matter): normalized to bounded JSON     *)
(* (metadata_normalization), projected along pointers to a title, typed    *)
(* facets and lexical values (metadata_projection), and found again by     *)
(* exact typed values from the command line (metadata_filters).            *)
(*                                                                         *)
(* A value is a leaf [kind, text], of kind "null", "bool", "int", "float", *)
(* "str", "date", "bytes" or "object"; a list or a set of values; or a map,*)
(* a sequence of [key, value].  The text of a leaf is its rendering.       *)
(***************************************************************************)
EXTENDS Integers, Sequences, FiniteSets, SequencesExt

CONSTANTS
    Sources,       \* what sources declare
    Policies,      \* sequences of [path, mode, namespace]; a path is a sequence of texts
    Limits,        \* [depth, keys, items, bytes, total]
    Filters,       \* [path, json], as typed on the command line
    Tokens,        \* reference tokens of pointers, sequences of characters
    Texts,         \* every text, in the order of their bytes
    BytesOf(_),    \* the length of a text
    ParseJson(_)   \* the value a JSON text stands for

VARIABLE metadata

Leaf(kind, text) == [kind |-> kind, text |-> text]
Map(items) == [kind |-> "map", items |-> items]
Rejected(category) == [kind |-> "rejected", text |-> category]
Missing == [kind |-> "missing"]
IsRejected(v) == v.kind = "rejected"
IsScalar(v) == v.kind \in {"null", "bool", "int", "float", "str"}

-----------------------------------------------------------------------------
(* Normalization: a value, and the categories of what was left out. *)

Outcome(value, counts) == [value |-> value, counts |-> counts]
Refuse(category) == Outcome(Rejected(category), <<>>)

\* A date is rendered as it is, whatever the limit of strings.
NormalLeaf(v, limits) ==
    CASE v.kind = "str" /\ BytesOf(v.text) > limits.bytes -> Refuse("STRING_LIMIT_EXCEEDED")
      [] v.kind = "float" /\ v.text \in {"NaN", "Infinity"} -> Refuse("NON_FINITE_NUMBER")
      [] v.kind = "date" -> Outcome(Leaf("str", v.text), <<>>)
      [] v.kind = "bytes" -> Refuse("BINARY_UNSUPPORTED")
      [] v.kind = "object" -> Refuse("TYPE_UNSUPPORTED")
      [] OTHER -> Outcome(v, <<>>)

RECURSIVE Normal(_, _, _)

\* _canonical_sort_key: strings start with a quote, before digits and letters.
SortKey(v) == (CHOOSE i \in DOMAIN Texts : Texts[i] = v.text) + IF v.kind = "str" THEN 0 ELSE Len(Texts)

\* A list stands or falls with its first unusable item; a set becomes a sorted list.
NormalItems(v, limits, depth) ==
    LET all == [i \in DOMAIN v.items |-> Normal(v.items[i], limits, depth + 1)]
        bad == SelectInSeq(all, LAMBDA o : IsRejected(o.value))
        met == IF bad = 0 THEN all ELSE SubSeq(all, 1, bad)
        items == [i \in DOMAIN all |-> all[i].value]
    IN  IF Len(v.items) > limits.items THEN Refuse("ARRAY_ITEM_LIMIT_EXCEEDED")
        ELSE Outcome(IF bad > 0 THEN all[bad].value
                     ELSE [kind |-> "list",
                           items |-> IF v.kind = "set" THEN SortSeq(items, LAMBDA x, y : SortKey(x) < SortKey(y)) ELSE items],
                     FlattenSeq([i \in DOMAIN met |-> met[i].counts]))

KeyFault(key, limits) == IF BytesOf(key.text) > limits.bytes THEN "KEY_LIMIT_EXCEEDED" ELSE "none"

\* A field whose key or value is unusable is left out and counted.
NormalField(field, limits, depth) ==
    IF KeyFault(field.key, limits) # "none" THEN Refuse(KeyFault(field.key, limits)) ELSE Normal(field.value, limits, depth + 1)
NormalMap(v, limits, depth) ==
    LET all == [i \in DOMAIN v.items |-> NormalField(v.items[i], limits, depth)]
        kept == SelectSeq([i \in DOMAIN all |-> i], LAMBDA i : ~IsRejected(all[i].value))
        counted(o) == IF IsRejected(o.value) THEN Append(o.counts, o.value.text) ELSE o.counts
    IN  IF Len(v.items) > limits.keys THEN Refuse("OBJECT_KEY_LIMIT_EXCEEDED")
        ELSE IF \E i \in DOMAIN v.items : v.items[i].key.kind # "str" THEN Refuse("NON_STRING_KEY")
        ELSE Outcome(Map([i \in DOMAIN kept |-> [key |-> v.items[kept[i]].key, value |-> all[kept[i]].value]]),
                     FlattenSeq([i \in DOMAIN all |-> counted(all[i])]))

Normal(v, limits, depth) ==
    IF depth > limits.depth THEN Refuse("DEPTH_LIMIT_EXCEEDED")
    ELSE IF v.kind = "map" THEN NormalMap(v, limits, depth)
    ELSE IF v.kind \in {"list", "set"} THEN NormalItems(v, limits, depth)
    ELSE NormalLeaf(v, limits)

\* canonical_metadata_bytes, counted in texts and brackets.
RECURSIVE TreeBytes(_)
TreeBytes(v) ==
    CASE v.kind = "map" -> 2 + FoldLeft(LAMBDA n, f : n + BytesOf(f.key.text) + TreeBytes(f.value), 0, v.items)
      [] v.kind = "list" -> 2 + FoldLeft(LAMBDA n, i : n + TreeBytes(i), 0, v.items)
      [] OTHER -> BytesOf(v.text)

\* normalize_metadata under "warn_and_continue".
Normalized(source, limits) ==
    LET o == IF source.kind = "map" THEN Normal(source, limits, 0) ELSE Refuse("ROOT_NOT_OBJECT")
        read == IF IsRejected(o.value) THEN Outcome(Map(<<>>), Append(o.counts, o.value.text)) ELSE o
    IN  IF TreeBytes(read.value) > limits.total THEN Outcome(Map(<<>>), Append(read.counts, "SIZE_LIMIT_EXCEEDED")) ELSE read

-----------------------------------------------------------------------------
(* Pointers. *)

\* _decode_pointer_token: one pass, an escape takes the next character.
DecodeToken(token) ==
    LET step(d, c) ==
            IF d.escape THEN [text |-> Append(d.text, IF c = "0" THEN "~" ELSE "/"), escape |-> FALSE, valid |-> d.valid /\ c \in {"0", "1"}]
            ELSE IF c = "~" THEN [d EXCEPT !.escape = TRUE] ELSE [d EXCEPT !.text = Append(@, c)]
        end == FoldLeft(step, [text |-> <<>>, escape |-> FALSE, valid |-> TRUE], token)
    IN  [text |-> end.text, valid |-> end.valid /\ ~end.escape]

Digits == <<"0", "1", "2">>

\* resolve_json_pointer, one token at a time.
Resolve(source, path) ==
    LET step(v, token) ==
            IF v.kind = "map"
            THEN LET i == SelectInSeq(v.items, LAMBDA f : f.key.text = token) IN IF i = 0 THEN Missing ELSE v.items[i].value
            ELSE IF v.kind = "list"
            THEN LET i == SelectInSeq(Digits, LAMBDA d : d = token) IN IF i \in 1 .. Len(v.items) THEN v.items[i] ELSE Missing
            ELSE Missing
    IN  FoldLeft(step, source, path)

-----------------------------------------------------------------------------
(* Facets. *)

\* FacetScalarCodec: a prefix for the type, then the canonical text.
Prefix(kind) == CASE kind = "str" -> "s" [] kind = "int" -> "i" [] kind = "float" -> "f" [] kind = "bool" -> "b" [] OTHER -> "z"
\* Faulty variant: numbers share a prefix.
EncodeUntyped(v) == <<IF v.kind \in {"int", "str"} THEN "s" ELSE Prefix(v.kind), v.text>>
Encode(v) == <<Prefix(v.kind), v.text>>

AllScalar(v) == v.kind = "list" /\ \A i \in DOMAIN v.items : IsScalar(v.items[i])
Added(values, x) == IF Contains(values, x) THEN values ELSE Append(values, x)
AddFacets(p, namespace, values) ==
    [p EXCEPT !.facets = FoldLeft(LAMBDA fs, v : Added(fs, <<namespace, Encode(v)>>), @, values)]
AddTexts(p, values) ==
    [p EXCEPT !.lexical = FoldLeft(LAMBDA ts, v : IF v.text = "" THEN ts ELSE Added(ts, v.text), @, values)]

\* MetadataProjectionPolicy.project
Applied(source, p, projection) ==
    LET v == Resolve(source, projection.path)
        many == IF v.kind = "list" THEN v.items ELSE <<v>>
    IN  CASE projection.mode = "canonical_title" -> IF v.kind = "str" /\ v.text # "" THEN [p EXCEPT !.title = v.text] ELSE p
          [] projection.mode = "facet" -> IF IsScalar(v) THEN AddFacets(p, projection.namespace, <<v>>) ELSE p
          [] projection.mode = "facet_many" -> IF AllScalar(v) THEN AddFacets(p, projection.namespace, v.items) ELSE p
          [] projection.mode = "lexical_text" -> IF IsScalar(v) \/ AllScalar(v) THEN AddTexts(p, many) ELSE p
          [] OTHER -> p
Projected(source, policy, fallback) ==
    FoldLeft(LAMBDA p, projection : Applied(source, p, projection), [title |-> fallback, facets |-> <<>>, lexical |-> <<>>], policy)

\* metadata_filters_from_cli: the path must be one that is projected to facets.
FacetModes == {"facet", "facet_many"}
CliFacet(policy, filter) ==
    LET i == SelectInSeq(policy, LAMBDA p : p.path = filter.path /\ p.mode \in FacetModes)
        v == ParseJson(filter.json)
    IN  IF i = 0 \/ ~IsScalar(v) THEN <<"invalid">> ELSE <<policy[i].namespace, Encode(v)>>

\* compile_metadata_filters, and the facets of a resource that it selects.
Selects(any, all, none, facets) ==
    /\ any # {} => any \cap facets # {}
    /\ all \subseteq facets
    /\ none \cap facets = {}

-----------------------------------------------------------------------------
(* One source through the three steps, and one filter tried on it. *)

Init == metadata = [step |-> "idle"]

\* normalize_metadata on what a source declares.
Normalize ==
    /\ metadata.step = "idle"
    /\ \E source \in Sources, limits \in Limits, policy \in Policies, filter \in Filters :
          metadata' = [step |-> "normalized", source |-> source, policy |-> policy, limits |-> limits,
                       filter |-> filter, result |-> Normalized(source, limits)]
\* A reference token of a pointer is decoded.
ReadToken ==
    /\ metadata.step = "idle"
    /\ \E t \in Tokens : metadata' = [step |-> "token", token |-> t, decoded |-> DecodeToken(t)]
Project ==
    /\ metadata.step = "normalized"
    /\ LET projected == Projected(metadata.result.value, metadata.policy, "fallback")
           facet == CliFacet(metadata.policy, metadata.filter)
       IN  metadata' = [step |-> "projected", source |-> metadata.source, policy |-> metadata.policy, limits |-> metadata.limits,
                        filter |-> metadata.filter, result |-> metadata.result, projected |-> projected, facet |-> facet,
                        found |-> facet # <<"invalid">> /\ Selects({}, {facet}, {}, Range(projected.facets))]

Next == Normalize \/ ReadToken \/ Project
Spec == Init /\ [][Next]_metadata

-----------------------------------------------------------------------------
RECURSIVE Within(_, _, _)
Within(v, limits, depth) ==
    /\ depth <= limits.depth
    /\ v.kind = "map" => /\ Len(v.items) <= limits.keys
                         /\ \A i \in DOMAIN v.items :
                               /\ v.items[i].key.kind = "str" /\ BytesOf(v.items[i].key.text) <= limits.bytes
                               /\ Within(v.items[i].value, limits, depth + 1)
    /\ v.kind = "list" => Len(v.items) <= limits.items /\ \A i \in DOMAIN v.items : Within(v.items[i], limits, depth + 1)
    /\ v.kind = "map" \/ v.kind = "list" \/ IsScalar(v)

RECURSIVE Leaves(_)
Leaves(v) ==
    CASE v.kind = "map" -> UNION {Leaves(v.items[i].value) : i \in DOMAIN v.items}
      [] v.kind \in {"list", "set"} -> UNION {Leaves(v.items[i]) : i \in DOMAIN v.items}
      [] OTHER -> {v}
TooLong(v, limits) == {l \in Leaves(v) : l.kind = "str" /\ BytesOf(l.text) > limits.bytes}
RenderedDates(source) == {Leaf("str", l.text) : l \in {d \in Leaves(source) : d.kind = "date"}}

Escape(text) == FlattenSeq([i \in DOMAIN text |-> CASE text[i] = "~" -> <<"~", "0">> [] text[i] = "/" -> <<"~", "1">> [] OTHER -> <<text[i]>>])

\* The scalars a resource has in a namespace, without codec or folds.
Holds(source, policy, namespace, v) ==
    \E i \in DOMAIN policy :
       LET at == Resolve(source, policy[i].path) IN
       /\ policy[i].mode \in FacetModes /\ policy[i].namespace = namespace
       /\ \/ policy[i].mode = "facet" /\ at = v
          \/ policy[i].mode = "facet_many" /\ AllScalar(at) /\ Contains(at.items, v)

(***************************************************************************)
(* What normalization keeps is within every limit, except that a date may  *)
(* be longer than a string may; normalizing it again changes nothing and   *)
(* reports nothing exactly when no date is (normalize_metadata).  A filter *)
(* finds a resource exactly when its metadata has that value of that type  *)
(* where the policy looks (FacetScalarCodec, MetadataProjectionPolicy,     *)
(* metadata_filters_from_cli).  Decoding undoes the escaping of a pointer  *)
(* token (_decode_pointer_token).                                          *)
(***************************************************************************)
MetadataExact ==
    /\ metadata.step \in {"normalized", "projected"} =>
          /\ Within(metadata.result.value, metadata.limits, 0)
          /\ TreeBytes(metadata.result.value) <= metadata.limits.total
          /\ TooLong(metadata.result.value, metadata.limits) \subseteq RenderedDates(metadata.source)
          /\ Normalized(metadata.result.value, metadata.limits) = Outcome(metadata.result.value, <<>>)
                <=> TooLong(metadata.result.value, metadata.limits) = {}
    /\ metadata.step = "projected" /\ metadata.facet # <<"invalid">> =>
          (metadata.found <=> Holds(metadata.result.value, metadata.policy, metadata.facet[1], ParseJson(metadata.filter.json)))
    /\ metadata.step = "token" =>
          /\ metadata.decoded.valid /\ ~Contains(metadata.token, "/") => Escape(metadata.decoded.text) = metadata.token
          /\ DecodeToken(Escape(metadata.token)) = [text |-> metadata.token, valid |-> TRUE]
=============================================================================
