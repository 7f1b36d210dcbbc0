------------------------------ MODULE Retrieval ------------------------------
(***************************************************************************)
(* The search services of the application (application/retrieval.py,       *)
(* application/media_search.py, resources.py, transcript_ingestion.py,     *)
(* ingestion/images.py) and of mdrack_core over a catalog that other       *)
(* connections publish to.  A call embeds its query (an await), pins one   *)
(* snapshot when it has a read session, resolves the embedding space, runs *)
(* its branches one after another and fuses what they found.  A branch may *)
(* fail; each service decides what that means.                             *)
(***************************************************************************)
EXTENDS CoreSearch, TLC

CONSTANTS
    Catalogs,       \* snapshots the catalog can be in
    QuerySpace,     \* the space of the configured provider
    Limits,         \* result limits asked for
    Scopes,         \* scopes asked for
    Whole,          \* units of kind whole_resource used as similarity basis
    MaxPublishes    \* publications while a search runs

VARIABLES
    published,      \* the current content of the catalog
    publishes,      \* publications so far
    search          \* the call

searchVars == <<published, publishes, search>>

Services == {"text", "semantic", "hybrid", "legacy", "preset", "media", "similar", "timed", "image",
             "unified", "textual", "catalog_text", "catalog_vector", "metadata"}
Faults == {"none", "adapter_timeout", "repeated"}
Idle == [pc |-> "idle"]

Init ==
    /\ published \in Catalogs
    /\ publishes = 0
    /\ search = Idle

\* Reads of a session see its snapshot, other reads the catalog as it is.
View == IF search.session THEN search.snapshot ELSE published

Request == [target |-> search.target, limit |-> search.limit, evidenceLimit |-> 2]

Answer(items, reason) == search' = [search EXCEPT !.pc = "done", !.items = items, !.reason = reason]
Raise(error) == search' = [search EXCEPT !.pc = "raised", !.reason = error]
Reads == UNCHANGED <<published, publishes>>

-----------------------------------------------------------------------------
(* Branches of each service; weights in tenths. *)

Only(kind) == [NoFilter EXCEPT !["unit_kinds"] = {kind}]
Lexical(id, weight, limit, override) ==
    [id |-> id, kind |-> "lexical", weight |-> weight, limit |-> limit, override |-> override,
     space |-> "none"]
Vector(id, weight, limit, override) ==
    [id |-> id, kind |-> "vector", weight |-> weight, limit |-> limit, override |-> override,
     space |-> QuerySpace]

\* search_text, search_semantic and search_hybrid search the text chunks.
TextBranches(c) == IF c.mode = "semantic" \/ c.weights[1] = 0 THEN <<>>
                   ELSE <<Lexical("text", c.weights[1], 2 * c.limit, Only("text_chunk"))>>
SemanticBranches(c) ==
    <<Vector("semantic", c.weights[2], IF c.mode = "semantic" THEN c.limit ELSE 2 * c.limit, Only("text_chunk"))>>

\* build_resource_search_request with the balanced preset.
PresetLexical(c) ==
    <<Lexical("transcript_text", 4, MaxRank, Only("time_segment")),
      Lexical("frame_caption_text", 4, MaxRank, Only("frame")),
      Lexical("metadata_text", 2, MaxRank, Only("whole_resource"))>>
PresetVector(c) ==
    <<Vector("transcript_semantic", 6, MaxRank, Only("time_segment")),
      Vector("frame_caption_semantic", 6, MaxRank, Only("frame"))>>

\* TimedRetrievalService searches the passages; a weight of zero drops a
\* branch.  ImageIngestionService searches whatever a picture has.
TimedLexical(c) == IF c.mode = "semantic" \/ c.weights[1] = 0 THEN <<>>
                   ELSE <<Lexical("transcript_text", c.weights[1], MaxRank, Only("time_segment"))>>
TimedVector(c) == IF c.mode = "text" \/ c.weights[2] = 0 THEN <<>>
                  ELSE <<Vector("transcript_semantic", c.weights[2], MaxRank, Only("time_segment"))>>
ImageLexical(c) == IF c.mode = "semantic" THEN <<>> ELSE <<Lexical("text", 10, 2 * c.limit, NoFilter)>>
ImageVector(c) == <<Vector("semantic", 10, 2 * c.limit, NoFilter)>>

\* UnifiedTextSearchService searches all text of a scope.
UnifiedLexical == <<Lexical("unified_text", 10, MaxRank, NoFilter)>>
UnifiedVector == <<Vector("unified_semantic", 10, MaxRank, NoFilter)>>

\* PreparedResourceCatalog.search_text and search_vector, with one branch each.
CatalogLexical == <<Lexical("text", 10, MaxRank, NoFilter)>>
CatalogVector == <<Vector("semantic", 10, MaxRank, NoFilter)>>

\* MetadataCatalogService.search: the body and the metadata text of resources.
Of(representation, kind) == [Only(kind) EXCEPT !["representation_kinds"] = {representation}]
MetadataBranches(c) ==
    SelectSeq(<<Lexical("body", c.weights[1], MaxRank, Of("retrieval_text", "text_chunk")),
                Lexical("metadata", c.weights[2], MaxRank, Of("metadata_text", "whole_resource"))>>, LAMBDA b : b.weight > 0)

LexicalPlan(c) ==
    IF c.service = "catalog_text" THEN CatalogLexical
    ELSE IF c.service = "catalog_vector" THEN <<>>
    ELSE IF c.service = "metadata" THEN MetadataBranches(c)
    ELSE IF c.service = "preset" THEN (IF c.mode = "semantic" THEN <<>> ELSE PresetLexical(c))
    ELSE IF c.service = "media" THEN (IF c.mode = "semantic" \/ c.query # "text" THEN <<>>
                                      ELSE <<Lexical("lexical", 10, MaxRank, NoFilter)>>)
    ELSE IF c.service = "timed" THEN TimedLexical(c)
    ELSE IF c.service = "image" THEN ImageLexical(c)
    ELSE IF c.service = "unified" THEN (IF c.mode = "semantic" THEN <<>> ELSE UnifiedLexical)
    ELSE TextBranches(c)
VectorPlan(c) ==
    IF c.service = "catalog_vector" THEN CatalogVector
    ELSE IF c.service = "preset" THEN PresetVector(c)
    ELSE IF c.service = "media" THEN <<Vector("vector", 10, MaxRank, NoFilter)>>
    ELSE IF c.service = "timed" THEN TimedVector(c)
    ELSE IF c.service = "image" THEN ImageVector(c)
    ELSE IF c.service = "unified" THEN UnifiedVector
    ELSE SemanticBranches(c)

\* _intersect: what is left of a filter, or a kind that matches nothing.
Narrowed(current, required) ==
    IF current = {} THEN required
    ELSE IF current \cap required = {} THEN {"no_match"} ELSE current \cap required

\* _timed_scope and the scope of an image search.
ServiceScope(c) ==
    CASE c.service = "timed" ->
            [c.scope EXCEPT !.filter["unit_kinds"] = Narrowed(@, {"time_segment"}),
                            !.filter["resource_kinds"] = Narrowed(@, {"audio", "video"})]
      [] c.service = "image" -> [AnyScope EXCEPT !.filter["resource_kinds"] = {"image"}]
      [] OTHER -> c.scope

\* resolve_unified_text_scope: the filters behind a public name.
UnifiedScopes ==
    LET alias(kinds, units) ==
            [AnyScope EXCEPT !.filter = [NoFilter EXCEPT !["modalities"] = {"text"}, !["resource_kinds"] = kinds, !["unit_kinds"] = units]]
    IN  [all |-> alias({}, {}), notes |-> alias({"document"}, {}), audio |-> alias({"audio"}, {}),
         video |-> alias({"video"}, {"time_segment"}), frames |-> alias({"video"}, {"frame"}), images |-> alias({"image"}, {})]

\* _resolve_unified_text_similarity_scope: the same kinds, whole resources only.
SimilarityScope(scope) == [scope EXCEPT !.filter["unit_kinds"] = {"whole_resource"}]

\* SearchRequest: a search has a branch, and no two branches share an id.
ValidBranches(plan) ==
    /\ plan # <<>>
    /\ \A i, j \in DOMAIN plan : plan[i].id = plan[j].id => i = j
    /\ \A i \in DOMAIN plan : plan[i].limit > 0

-----------------------------------------------------------------------------
(* The start of a call and the await of the provider. *)

ServiceTarget(service) ==
    IF service \in {"preset", "media", "image", "unified", "metadata"} THEN "resource" ELSE "unit"

\* What a caller can ask for.  Only media search takes other queries than
\* text and lets the caller choose allow_partial; presets always allow it and
\* hybrid search never does.
Askable(c) ==
    /\ c.service \in {"text", "semantic", "hybrid"} => c.mode = c.service
    /\ c.service = "legacy" => c.mode = "hybrid" /\ ~c.session
    /\ c.service \in {"similar", "textual", "catalog_vector"} => c.mode = "semantic"
    /\ c.service \in {"catalog_text", "metadata"} => c.mode = "text"
    /\ c.service \in {"catalog_text", "catalog_vector"} => ~c.session
    /\ c.service \notin {"catalog_text", "catalog_vector"} => c.target = ServiceTarget(c.service)
    /\ c.service \notin {"similar", "textual"} => c.exclude
    /\ c.scope \in IF c.service \in {"unified", "textual"} THEN Range(UnifiedScopes) ELSE Scopes
    /\ IF c.service = "media" THEN c.query # "text" => c.mode # "text" ELSE c.query = "text"
    /\ c.service # "media" => c.allowPartial = (c.service \notin {"hybrid", "image"})
    /\ c.service = "image" => c.scope = AnyScope
    /\ c.service \notin {"hybrid", "legacy", "timed", "metadata"} => c.weights = <<4, 6>>

Calls ==
    {c \in [service : Services, mode : {"text", "semantic", "hybrid"}, query : {"text", "image", "stored"}, target : {"unit", "resource"},
            limit : Limits, scope : Scopes \cup Range(UnifiedScopes), allowPartial : BOOLEAN, session : BOOLEAN, exclude : BOOLEAN,
            weights : {<<4, 6>>, <<0, 6>>, <<4, 0>>}, basis : Whole] : Askable(c)}

Fresh(c) ==
    [pc |-> IF c.service = "legacy" THEN "legacy"
            ELSE IF c.service \notin {"similar", "textual", "catalog_vector"} /\ c.mode # "text" /\ c.query # "stored" /\ c.weights[2] > 0
            THEN "embed" ELSE "open",
     asking |-> c.scope, vector |-> c.service = "catalog_vector", reason |-> "none", snapshot |-> published, plan |-> <<>>, outcomes |-> <<>>,
     own |-> 0, asked |-> 0, fetch |-> 0, previous |-> <<>>, space |-> QuerySpace, retried |-> FALSE, items |-> <<>>]

Begin ==
    /\ search.pc = "idle"
    /\ \E c \in Calls : search' = [c EXCEPT !.scope = ServiceScope(c)] @@ Fresh(c)
    /\ Reads

\* The legacy storage is asked for text before the query is embedded.
LegacyText ==
    /\ search.pc = "legacy"
    /\ LET plan == TextBranches(search)
       IN  search' = [search EXCEPT !.pc = IF search.weights[2] = 0 THEN "open" ELSE "embed", !.plan = plan,
                          !.outcomes = [i \in 1 .. Len(plan) |->
                              ExecuteBranch(published, plan[i], search.scope, "none")]]
    /\ Reads

\* embed_query or encode: a usable vector, or one of the reported failures.
Embed(result) ==
    /\ search.pc = "embed"
    /\ IF result = "vector"
       THEN search' = [search EXCEPT !.pc = "open", !.vector = TRUE]
       ELSE IF search.service = "media" /\ ~(search.allowPartial /\ search.query = "text" /\ search.mode = "hybrid")
       THEN Raise("embedding_provider_error")
       ELSE search' = [search EXCEPT !.pc = "open", !.reason = result]
    /\ Reads

\* The read session pins the state of the catalog at its entry.
Open ==
    /\ search.pc = "open"
    /\ search' = [search EXCEPT !.snapshot = published,
                                !.pc = CASE search.service = "similar" -> "basis"
                                         [] search.service = "textual" -> "identity" [] OTHER -> "plan"]
    /\ Reads

\* A stored unit is its own query: read with its vector in the session.
StoredVector(u) ==
    u \in DOMAIN View.units /\ View.space = QuerySpace /\ View.units[u].vector # NoVector

\* resolve_embedding_spaces: the space of the provider, when the catalog has it.
SpaceResolved == View.space = QuerySpace

\* A media search cannot do without its space when nothing else is left.
MediaNeedsSpace(lexical) == ~search.allowPartial \/ lexical = <<>>

\* The space of the query vector is resolved; without one the vector
\* branches are dropped and the reason is kept.
Plan ==
    /\ search.pc = "plan"
    /\ LET vector == search.vector \/ search.query = "stored"
           \* these name their own space and let the branch fail
           usable == vector /\ (SpaceResolved \/ search.service \in {"image", "catalog_vector"})
           media == search.service = "media"
           reason == IF vector /\ ~usable THEN "incompatible_embedding_profile" ELSE search.reason
           lexical == IF search.service = "legacy" THEN search.plan ELSE LexicalPlan(search)
           plan == lexical \o (IF usable THEN VectorPlan(search) ELSE <<>>)
       IN  IF search.query = "stored" /\ ~StoredVector(search.basis) THEN Raise("similarity_basis_unavailable")
           ELSE IF media /\ vector /\ ~usable /\ MediaNeedsSpace(lexical) THEN Raise("embedding_space_unavailable")
           ELSE IF search.service = "timed" /\ plan = <<>>
                THEN Answer(<<>>, IF reason = "none" THEN "branch_unavailable" ELSE reason)
           ELSE IF search.mode = "semantic" /\ ~usable /\ ~media THEN Answer(<<>>, reason)
           ELSE IF ~ValidBranches(plan) /\ search.service # "legacy" THEN Raise("at least one search branch is required")
           ELSE search' = [search EXCEPT !.pc = "branch", !.plan = plan, !.reason = reason, !.vector = vector]
    /\ Reads

-----------------------------------------------------------------------------
(* RetrievalService.search of the core. *)

FirstFailure(outcomes) == outcomes[SelectInSeq(outcomes, Failed)].error
Successful ==
    LET ok == SelectSeq([i \in 1 .. Len(search.outcomes) |-> i], LAMBDA i : ~Failed(search.outcomes[i]))
    IN  [k \in 1 .. Len(ok) |-> [branch |-> search.plan[ok[k]], candidates |-> search.outcomes[ok[k]].list]]

\* One branch reads one state of the catalog; a failure stops the search
\* unless partial answers are allowed.
RunBranch(fault) ==
    /\ search.pc = "branch"
    /\ Len(search.outcomes) < Len(search.plan)
    /\ \E outcome \in {ExecuteBranch(View, search.plan[Len(search.outcomes) + 1], search.scope, fault)} :
          LET outcomes == Append(search.outcomes, outcome)
              none == \A i \in DOMAIN outcomes : Failed(outcomes[i])
          IN  search' = [search EXCEPT !.outcomes = outcomes,
                            !.pc = IF \/ Failed(outcome) /\ ~search.allowPartial
                                      \/ Len(outcomes) = Len(search.plan) /\ none THEN "failed" ELSE "branch"]
    /\ Reads

\* Hybrid search asks again without the vector branch that failed, once;
\* a failing text branch is the caller's query.
RetryLexical(category) ==
    search' = [search EXCEPT !.pc = "branch", !.retried = TRUE, !.reason = category,
                             !.plan = LexicalPlan(search), !.outcomes = <<>>]

HybridFails(category) ==
    IF search.retried THEN Raise(category)
    ELSE IF search.plan[Len(search.outcomes)].kind = "lexical" THEN Raise("invalid_text_query")
    ELSE IF LexicalPlan(search) = <<>> THEN Answer(<<>>, category)
    ELSE RetryLexical(category)

\* A preset allows partial answers: it fails when every branch failed.
PresetFails(category) ==
    IF search.retried \/ search.mode = "semantic" THEN Answer(<<>>, category) ELSE RetryLexical(category)

\* So does a timed search, whose second request must succeed.
TimedFails(category) ==
    IF LexicalPlan(search) = <<>> THEN Answer(<<>>, category)
    ELSE IF search.retried THEN Raise(category) ELSE RetryLexical(category)

\* A unified search asks for text alone, whatever its mode was.
UnifiedFails(category) ==
    IF search.retried \/ \A i \in DOMAIN search.plan : search.plan[i].kind = "lexical" THEN Answer(<<>>, category)
    ELSE search' = [search EXCEPT !.pc = "branch", !.retried = TRUE, !.reason = category,
                                  !.plan = UnifiedLexical, !.outcomes = <<>>]

\* What each service makes of the error the core raised.
CoreFails ==
    /\ search.pc = "failed"
    /\ LET category == FirstFailure(search.outcomes)
       IN  CASE search.service = "text" -> Raise("invalid_text_query")
             [] search.service \in {"semantic", "legacy"} -> Answer(<<>>, category)
             [] search.service \in {"media", "image", "catalog_text", "catalog_vector", "metadata"} -> Raise(category)
             [] search.service = "timed" -> TimedFails(category)
             [] search.service = "hybrid" -> HybridFails(category)
             [] search.service = "preset" -> PresetFails(category)
             [] search.service = "unified" -> UnifiedFails(category)
    /\ Reads

\* Fusion; the first degradation becomes the reason unless there is one.
FuseBranches ==
    /\ search.pc = "branch"
    /\ Len(search.outcomes) = Len(search.plan)
    /\ LET items == Fuse(Request, Successful)
           failed == \E i \in DOMAIN search.outcomes : Failed(search.outcomes[i])
           reason == IF search.reason = "none" /\ failed THEN FirstFailure(search.outcomes) ELSE search.reason
       IN  IF search.service \in {"media", "unified"}
           THEN search' = [search EXCEPT !.pc = "hydrate", !.items = items, !.reason = reason]
           ELSE Answer(items, reason)
    /\ Reads

\* _map_result of the unified search: what is gone is left out.  The score an
\* item shows outside hybrid mode, that of its first evidence, is abstracted.
Hydrated ==
    LET there(item) == [item EXCEPT !.evidence = SelectSeq(@, LAMBDA e : e.unit \in DOMAIN View.units)]
    IN  SelectSeq([i \in DOMAIN search.items |-> there(search.items[i])], LAMBDA item : item.evidence # <<>>)

\* Media search reads every unit of the evidence again.
Hydrate ==
    /\ search.pc = "hydrate"
    /\ IF search.service = "unified" THEN Answer(Hydrated, search.reason)
       ELSE IF \A i \in DOMAIN search.items : \A e \in Range(search.items[i].evidence) : e.unit \in DOMAIN View.units
       THEN Answer(search.items, search.reason)
       ELSE Raise("media_hydration_failed")
    /\ Reads

-----------------------------------------------------------------------------
(* ResourceQueryService.find_similar_resource and find_textual_similarity. *)

\* The whole units of a resource that stand for its text, with a vector.
Identities(r) ==
    {u \in DOMAIN View.units :
        /\ View.units[u].resource = r /\ View.units[u].vector # NoVector
        /\ View.units[u].attr["unit_kinds"] = "whole_resource" /\ View.units[u].attr["modalities"] = "text"
        /\ View.units[u].textual}

\* A resource has one such unit, or the search says why not.  search.basis is
\* a unit of the resource asked for.
ReadIdentity ==
    /\ search.pc = "identity"
    /\ LET r == IF search.basis \in DOMAIN View.units THEN View.units[search.basis].resource ELSE 0
           found == Identities(r)
       IN  IF search.scope = UnifiedScopes["frames"] THEN Answer(<<>>, "scope_not_similarity_compatible")
           ELSE IF r = 0 THEN Answer(<<>>, "resource_unavailable")
           ELSE IF found = {} THEN Answer(<<>>, "textual_similarity_identity_unavailable")
           ELSE IF Cardinality(found) # 1 THEN Answer(<<>>, "textual_similarity_identity_ambiguous")
           ELSE search' = [search EXCEPT !.pc = "textual basis", !.basis = CHOOSE u \in found : TRUE,
                                         !.space = View.space, !.scope = SimilarityScope(@)]
    /\ Reads

\* find_textual_similarity reads the unit and its vector again.
ReadTextualBasis ==
    /\ search.pc = "textual basis"
    /\ IF \/ search.basis \notin DOMAIN View.units \/ View.space # search.space
          \/ View.units[search.basis].vector = NoVector
          \/ View.units[search.basis].attr["unit_kinds"] # "whole_resource"
       THEN Answer(<<>>, "branch_unavailable")
       ELSE IF View.units[search.basis].attr["modalities"] # "text" \/ ~View.units[search.basis].textual
       THEN Answer(<<>>, "textual_similarity_identity_unavailable")
       ELSE search' = [search EXCEPT !.pc = "basis"]
    /\ Reads

-----------------------------------------------------------------------------
(* ResourceDiscoveryService.similar. *)

\* The basis must be a whole-resource unit with a vector in the space.
ReadBasis ==
    /\ search.pc = "basis"
    /\ LET u == search.basis
           filter == search.scope.filter["unit_kinds"]
       IN  IF \/ u \notin DOMAIN View.units \/ View.space # search.space
              \/ View.units[u].attr["unit_kinds"] # "whole_resource" \/ View.units[u].vector = NoVector
           THEN Answer(<<>>, "branch_unavailable")
           ELSE IF filter # {} /\ "whole_resource" \notin filter THEN Answer(<<>>, "none")
           ELSE LET asked == search.limit + (IF search.exclude THEN 1 ELSE 0)
                IN  search' = [search EXCEPT !.pc = IF search.service = "textual" THEN "fetch" ELSE "similar",
                                             !.own = View.units[u].resource, !.asked = asked, !.fetch = asked]
    /\ Reads

\* The units nearest to the basis, and those of other resources among them.
FindSimilar(limit, fault) ==
    ExecuteBranch(View, [Vector("similarity", 10, limit, Only("whole_resource")) EXCEPT !.space = search.space],
                  search.scope, fault)
Others(candidates) == SelectSeq(candidates, LAMBDA c : ~search.exclude \/ c.resource # search.own)

\* Asks for one more than the limit, and for twice as many as long as too
\* few of the candidates belong to other resources.
AskSimilar(fault) ==
    /\ search.pc = "similar"
    /\ \E found \in {FindSimilar(search.asked, fault)} :
          LET others == Others(found.list)
              selected == SubSeq(others, 1, Min({Len(others), search.limit}))
          IN  IF Failed(found) THEN Answer(<<>>, found.error)
              ELSE IF Len(selected) = search.limit \/ Len(found.list) < search.asked THEN Answer(selected, "none")
              ELSE search' = [search EXCEPT !.asked = 2 * @]
    /\ Reads

\* _TextualSimilaritySearchPort below the same loop: the catalog is asked for
\* more until enough of what it returns stands for text, or nothing new comes.
AskTextual(fault) ==
    /\ search.pc = "fetch"
    /\ \E raw \in {FindSimilar(search.fetch, fault)} :
          LET ids == [i \in DOMAIN raw.list |-> raw.list[i].unit]
              textual == SelectSeq(raw.list, LAMBDA c : View.units[c.unit].textual)
              more == Len(textual) < search.asked /\ Len(raw.list) >= search.fetch /\ ids # search.previous
              port == SubSeq(textual, 1, Min({Len(textual), search.asked}))
              others == Others(port)
              selected == SubSeq(others, 1, Min({Len(others), search.limit}))
          IN  IF Failed(raw) THEN Answer(<<>>, raw.error)
              ELSE IF more THEN search' = [search EXCEPT !.fetch = 2 * @, !.previous = ids]
              ELSE IF Len(selected) = search.limit \/ Len(port) < search.asked THEN Answer(selected, "none")
              ELSE search' = [search EXCEPT !.asked = 2 * @, !.fetch = 2 * search.asked, !.previous = <<>>]
    /\ Reads

-----------------------------------------------------------------------------
\* Another connection commits.
Publish ==
    /\ publishes < MaxPublishes
    /\ search.pc \notin {"idle", "done", "raised"}
    /\ \E c \in Catalogs : c # published /\ published' = c
    /\ publishes' = publishes + 1
    /\ UNCHANGED search

EmbedResults == {"vector", "embedding_provider_error"}

Call == LegacyText \/ (\E r \in EmbedResults : Embed(r)) \/ Open \/ Plan \/ (\E f \in Faults : RunBranch(f))
            \/ CoreFails \/ FuseBranches \/ Hydrate \/ ReadBasis \/ (\E f \in Faults : AskSimilar(f))
            \/ ReadIdentity \/ ReadTextualBasis \/ (\E f \in {"none", "adapter_timeout"} : AskTextual(f))

Next ==
    \/ Begin
    \/ Call \/ Publish

Spec == Init /\ [][Next]_searchVars

-----------------------------------------------------------------------------
\* A search with a read session answers from the one state it pinned: every
\* branch found what that state holds, whatever was published meanwhile, and
\* the items are the best of them, exactly scored and in order; no service
\* shows evidence outside the scope it was asked for.
AnswersFused ==
    search.pc = "done" /\ search.service \notin {"similar", "textual"} /\ search.items # <<>> =>
        /\ (search.service = "unified" => search.session) => FusedRight(Request, Successful, search.items)
        /\ search.session => \A i \in DOMAIN Successful :
               LET b == Successful[i].branch
               IN  Hits(Successful[i].candidates) = ExecuteBranch(search.snapshot, b, search.scope, "none")
        /\ search.session => \A i \in DOMAIN search.items : \A e \in Range(search.items[i].evidence) :
               /\ Matches(search.snapshot, e.unit, search.asking)
               /\ search.service = "timed" => search.snapshot.units[e.unit].attr["unit_kinds"] = "time_segment"
               /\ search.service = "image" => search.snapshot.units[e.unit].attr["resource_kinds"] = "image"

\* A failing vector branch or provider never costs the text results of a
\* hybrid search, and an answer says it is degraded exactly when a branch or
\* the provider failed, the space was not there or no branch was left.
LexicalKept ==
    search.pc = "done" /\ search.service \in {"hybrid", "preset", "media", "legacy", "timed", "image", "unified"} =>
        /\ LET found(b) == ExecuteBranch(search.snapshot, b, search.scope, "none")
               lexical == {i \in DOMAIN search.plan : search.plan[i].kind = "lexical"}
           IN  search.session /\ search.items = <<>> =>
                   \A i \in lexical : Failed(search.outcomes[i]) \/ found(search.plan[i]).list = <<>>
        /\ search.reason = "none" =>
               /\ \A i \in DOMAIN search.outcomes : ~Failed(search.outcomes[i])
               /\ search.mode # "text" /\ search.weights[2] > 0 => search.vector
        /\ search.reason # "none" =>
               \/ search.retried \/ \E i \in DOMAIN search.outcomes : Failed(search.outcomes[i])
               \/ /\ search.mode # "text" \/ search.plan = <<>>
                  /\ \A i \in DOMAIN search.plan : search.plan[i].kind = "lexical"

\* Similarity never returns the basis' own resource, and with a session it
\* returns exactly the best of the others, however many of its own units or
\* of units without text come first; what it asks for stays within a small
\* multiple of what the catalog holds.
SimilarExact ==
    search # Idle /\ search.service \in {"similar", "textual"} =>
        LET eligible == SearchVector(search.snapshot,
                            [Vector("similarity", 10, MaxRank, NoFilter) EXCEPT !.space = search.space],
                            SimilarityScope(search.scope))
            others == SelectSeq(eligible.list,
                          LAMBDA c : /\ ~search.exclude \/ c.resource # search.own
                                     /\ search.service = "textual" => search.snapshot.units[c.unit].textual)
        IN  /\ search.asked <= 2 * (MaxRank + 1) /\ search.fetch <= 4 * (MaxRank + 1)
            /\ search.pc = "done" /\ search.own # 0 =>
                 /\ \A i \in DOMAIN search.items : search.exclude => search.items[i].resource # search.own
                 /\ search.session /\ search.reason = "none" =>
                      [i \in DOMAIN search.items |-> search.items[i].unit] =
                      [i \in 1 .. Min({Len(others), search.limit}) |-> others[i].unit]

=============================================================================
