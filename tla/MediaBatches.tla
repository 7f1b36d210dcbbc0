---------------------------- MODULE MediaBatches ----------------------------
(***************************************************************************)
(* The graphs of timed media: the builders of mdrack_media (audio.py,      *)
(* frames.py, builders.py, aggregation.py) and the services that publish   *)
(* them (application/transcript_ingestion.py, video_composition.py).       *)
(*                                                                         *)
(* A transcript is the token counts of its passages, in order; a frame has *)
(* the count its artifact carries and the one the service takes itself.    *)
(* A vector is a pair of integers.  A centroid is kept as the weighted sum *)
(* of its components: dividing it by the weights and by its norm changes   *)
(* its length and never its direction.                                     *)
(***************************************************************************)
EXTENDS Integers, Sequences, FiniteSetsExt, SequencesExt, Functions

CONSTANTS
    Requests,       \* what the services are asked to ingest
    Vectors,        \* what the provider can return
    Limit,          \* max_tokens of the WholeResourceTextPolicy
    MaxSources      \* bound: how often the source changes

VARIABLES
    call,           \* the ingestion in progress
    generation      \* source revision in the catalog; 0 before anything is published

batchVars == <<call, generation>>

\* A request names its service and brings the counts that a token counter
\* gave, which are never negative.
RequestsAssumption ==
    \A r \in Requests :
        /\ r.service \in {"audio", "video"} /\ r.embeddings \in BOOLEAN /\ r.conditional \in BOOLEAN
        /\ r.passages \in Seq(Nat) /\ r.frames \in Seq([own : Nat, counted : Nat])

-----------------------------------------------------------------------------
(* Units and vectors. *)

PassageUnit(i, tokens) == [id |-> <<"passage", i>>, kind |-> "time_segment", tokens |-> tokens]
FrameUnit(i, tokens) == [id |-> <<"frame", i>>, kind |-> "frame", tokens |-> tokens]
WholeUnit(name, tokens, basis) == [id |-> <<name, 0>>, kind |-> "whole_resource", tokens |-> tokens, covers |-> basis]

Ids(units) == {units[i].id : i \in DOMAIN units}
Tokens(units) == MapThenSumSet(LAMBDA i : units[i].tokens, DOMAIN units)
IsWhole(unit) == unit.kind = "whole_resource"
NoWhole(units) == Restrict(units, {i \in DOMAIN units : ~IsWhole(units[i])})

\* Vectors are given for some units, or not given at all.
NoVectors == [given |-> FALSE, of |-> [x \in {} |-> <<0, 0>>]]
Given(vectors) == [given |-> TRUE, of |-> vectors]
Merged(v, w) == [x \in DOMAIN v \cup DOMAIN w |-> IF x \in DOMAIN v THEN v[x] ELSE w[x]]

Refused(why) == [error |-> why, units |-> <<>>, vectors |-> NoVectors.of]
Batch(units, vectors) == [error |-> "none", units |-> units, vectors |-> vectors]

-----------------------------------------------------------------------------
(* weighted_centroid *)

CentroidFails(vectors, weights) ==
    \/ DOMAIN vectors = {} \/ DOMAIN vectors # DOMAIN weights
    \/ \E x \in DOMAIN weights : weights[x] < 1

Centroid(vectors, weights) ==
    <<MapThenSumSet(LAMBDA x : weights[x] * vectors[x][1], DOMAIN vectors),
      MapThenSumSet(LAMBDA x : weights[x] * vectors[x][2], DOMAIN vectors)>>

\* A centroid of norm zero has no direction.
CentroidOK(vectors, weights) == ~CentroidFails(vectors, weights) /\ Centroid(vectors, weights) # <<0, 0>>

TokenWeights(units) ==
    [x \in Ids(units) |-> units[CHOOSE i \in DOMAIN units : units[i].id = x].tokens]
PositiveWeights(units) == [x \in Ids(units) |-> Max({1, TokenWeights(units)[x]})]

-----------------------------------------------------------------------------
(* _build_transcript_batch and build_video_frame_caption_batch: the units of *)
(* the parts and, under a policy, one for the whole; exactly one vector per  *)
(* unit, where the vector of a long whole is the centroid of its parts.      *)

Aggregation(tokens) == IF tokens > Limit THEN "centroid" ELSE "direct_text"

BuildBatch(parts, name, policy, vectors) ==
    LET long == policy # "off" /\ Tokens(parts) > Limit
        whole == WholeUnit(name, Tokens(parts), Ids(parts))
        units == IF policy = "off" THEN parts ELSE Append(parts, whole)
        expected == IF policy = "off" \/ long THEN Ids(parts) ELSE Ids(units)
        weights == PositiveWeights(parts)
    IN  IF long /\ policy = "reject" THEN Refused("whole text exceeds max_tokens")
        ELSE IF long /\ ~vectors.given THEN Refused("long text requires vectors")
        ELSE IF vectors.given /\ (DOMAIN vectors.of # expected \/ expected = {}) THEN Refused("one vector per unit")
        ELSE IF long /\ ~CentroidOK(vectors.of, weights) THEN Refused("centroid")
        ELSE Batch(units, IF long THEN [x \in Ids(units) |-> IF x = whole.id THEN Centroid(vectors.of, weights)
                                                             ELSE vectors.of[x]]
                          ELSE vectors.of)

Passages(r) == [i \in DOMAIN r.passages |-> PassageUnit(i, r.passages[i])]
Frames(r) == [i \in DOMAIN r.frames |-> FrameUnit(i, r.frames[i].counted)]

\* A transcript has a timed passage; frames may be missing.
BuildTranscript(r, policy, vectors) ==
    IF r.passages = <<>> THEN Refused("at least one timed passage")
    ELSE BuildBatch(Passages(r), "whole", policy, vectors)
BuildFrames(r, vectors) == BuildBatch(Frames(r), "captions", "off", vectors)

-----------------------------------------------------------------------------
(* TranscriptIngestionService *)

\* prepare: a whole unit only where its text can be embedded directly.
PrepareTranscript(r) ==
    LET policy == IF Aggregation(Tokens(Passages(r))) = "direct_text" THEN "caller_split" ELSE "off"
    IN  BuildTranscript(r, policy, NoVectors)

\* The second build of ingest, with the vectors.
EmbedTranscript(r, vectors) == BuildTranscript(r, "caller_split", Given(vectors))

-----------------------------------------------------------------------------
(* VideoCompositionService *)

\* The whole becomes one for the passages and the frames.
WholeOfAll(batch) ==
    LET parts == NoWhole(batch.units)
    IN  [i \in DOMAIN batch.units |->
            IF IsWhole(batch.units[i])
            THEN [batch.units[i] EXCEPT !.tokens = Tokens(parts), !.covers = Ids(parts)] ELSE batch.units[i]]

\* Faulty variant: the centroid of the transcript stays.
AggregateUnitsOnly(batch, aggregation) == [batch EXCEPT !.units = WholeOfAll(batch)]

\* _aggregate_video_whole_resource
Aggregate(batch, aggregation) ==
    LET parts == NoWhole(batch.units)
        whole == CHOOSE i \in DOMAIN batch.units : IsWhole(batch.units[i])
        vectors == Restrict(batch.vectors, DOMAIN batch.vectors \ {batch.units[whole].id})
        weights == TokenWeights(parts)
    IN  IF aggregation = "direct_text" \/ DOMAIN batch.vectors = {} THEN [batch EXCEPT !.units = WholeOfAll(batch)]
        ELSE IF ~CentroidOK(vectors, weights) THEN Refused("centroid")
        ELSE [batch EXCEPT !.units = WholeOfAll(batch),
                           !.vectors = [@ EXCEPT ![batch.units[whole].id] = Centroid(vectors, weights)]]

\* The aggregation is decided by the passages and the frames together.
VideoAggregation(r) ==
    Aggregation(Tokens(Passages(r)) + MapThenSumSet(LAMBDA i : r.frames[i].own, DOMAIN r.frames))

\* prepare
Compose(r, vectors) ==
    LET aggregation == VideoAggregation(r)
        include == aggregation = "direct_text" \/ vectors.given
        policy == IF include THEN "caller_split" ELSE "off"
        lexical == BuildTranscript(r, IF vectors.given /\ aggregation # "direct_text" THEN "off" ELSE policy, NoVectors)
        speech == Ids(lexical.units)
        seen == Ids(Frames(r))
        transcript == IF vectors.given THEN BuildTranscript(r, policy, Given(Restrict(vectors.of, speech))) ELSE lexical
        frames == IF r.frames = <<>> THEN Batch(<<>>, NoVectors.of)
                  ELSE BuildFrames(r, IF vectors.given THEN Given(Restrict(vectors.of, seen)) ELSE NoVectors)
        joined == Batch(transcript.units \o frames.units, Merged(transcript.vectors, frames.vectors))
    IN  IF lexical.error # "none" THEN lexical
        ELSE IF vectors.given /\ DOMAIN vectors.of # speech \cup seen THEN Refused("one vector per unit")
        ELSE IF transcript.error # "none" THEN transcript
        ELSE IF frames.error # "none" THEN frames
        ELSE IF include THEN Aggregate(joined, aggregation) ELSE joined

-----------------------------------------------------------------------------
(* The calls of both services. *)

Lexical(r) == IF r.service = "video" THEN Compose(r, NoVectors) ELSE PrepareTranscript(r)
Embedded(r, vectors) == IF r.service = "video" THEN Compose(r, Given(vectors)) ELSE EmbedTranscript(r, vectors)

Idle == [pc |-> "idle"]
Init == call = Idle /\ generation = 0

End(answer) == call' = [call EXCEPT !.pc = "done", !.answer = answer]

\* require_prepared_binding: the first graph has no binding, every later one
\* the binding of the source it was prepared from.
BindingOK(r) == ~r.conditional \/ r.binding = generation

\* The snapshot comes first; the lexical graph needs no provider.
Begin(r) ==
    /\ call.pc = "idle"
    /\ \E lexical \in {Lexical(r)} :
          LET started == [pc |-> "publish", request |-> r, from |-> generation, batch |-> lexical, answer |-> "none"]
          IN  call' = IF ~BindingOK(r) THEN [started EXCEPT !.pc = "done", !.answer = "stale binding"]
                      ELSE IF lexical.error # "none" THEN [started EXCEPT !.pc = "done", !.answer = lexical.error]
                      ELSE IF r.embeddings THEN [started EXCEPT !.pc = "embed"] ELSE started
    /\ UNCHANGED generation

\* The units whose texts go to the provider: all of the lexical graph, which
\* has a whole unit exactly when its text is embedded directly.
EmbeddedUnits == call.batch.units

\* The provider answers with one vector per text, or not.
Embed(vectors) ==
    /\ call.pc = "embed"
    /\ \E batch \in {Embedded(call.request, vectors)} :
          IF batch.error # "none" THEN End(batch.error)
          ELSE call' = [call EXCEPT !.pc = "publish", !.batch = batch]
    /\ UNCHANGED generation

EmbedFails(error) ==
    /\ call.pc = "embed"
    /\ End(error)
    /\ UNCHANGED generation

\* Conditional publication finds the source it captured; the other one
\* replaces whatever is there.  The graph published is call.batch.
Publish ==
    /\ call.pc = "publish"
    /\ IF call.request.conditional /\ generation # call.from
       THEN End("publication_conflict") /\ UNCHANGED generation
       ELSE /\ generation' = Max({1, generation})
            /\ End("published")

\* Somebody else publishes a new version of the source.
NewSource ==
    /\ call.pc \in {"embed", "publish"}
    /\ generation \in 1 .. MaxSources
    /\ generation' = generation + 1
    /\ UNCHANGED call

Again ==
    /\ call.pc = "done"
    /\ call.answer = "published"
    /\ call' = Idle
    /\ UNCHANGED generation

Next ==
    \/ \E r \in Requests : Begin(r)
    \/ call.pc = "embed" /\ \E vectors \in [Ids(EmbeddedUnits) -> Vectors] : Embed(vectors)
    \/ \E error \in {"embedding_provider_error", "embedding_count_mismatch"} : EmbedFails(error)
    \/ Publish \/ NewSource \/ Again

Spec == Init /\ [][Next]_batchVars

-----------------------------------------------------------------------------
\* A graph that is published has one vector for every unit or none at all;
\* its whole unit covers every passage and every frame, counts their tokens
\* and, when the text is too long, points where the centroid of their
\* vectors points, each with its tokens for a weight (a passage that a
\* counter finds empty weighs one); it was prepared from the source it
\* replaces
\* (_aggregate_video_whole_resource, weighted_centroid).
PublishedComplete ==
    Publish /\ call'.answer = "published" =>
        LET r == call.request
            batch == call.batch
            parts == NoWhole(batch.units)
            wholes == {i \in DOMAIN batch.units : IsWhole(batch.units[i])}
        IN  /\ Ids(parts) = Ids(Passages(r)) \cup (IF r.service = "video" THEN Ids(Frames(r)) ELSE {})
            /\ DOMAIN batch.vectors = IF r.embeddings THEN Ids(batch.units) ELSE {}
            /\ r.embeddings => \E i \in wholes : wholes = {i}
            /\ \A i \in wholes :
                  /\ batch.units[i].covers = Ids(parts) /\ batch.units[i].tokens = Tokens(parts)
                  /\ r.embeddings /\ (IF r.service = "video" THEN VideoAggregation(r) ELSE Aggregation(Tokens(parts))) = "centroid" =>
                        batch.vectors[batch.units[i].id] = Centroid(Restrict(batch.vectors, Ids(parts)), PositiveWeights(parts))
            /\ r.conditional => r.binding = generation

\* A video whose units were all embedded is never refused for the vectors it
\* was given (_build_transcript_batch after VideoCompositionService.ingest).
EmbeddedVideosBuilt == call # Idle => call.answer # "one vector per unit"

=============================================================================
