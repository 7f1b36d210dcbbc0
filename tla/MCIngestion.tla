----------------------------- MODULE MCIngestion -----------------------------
(***************************************************************************)
(* Media on their way into the catalog: calls that ingest a file while it  *)
(* changes, threads that prepare images, the graphs of timed media, and    *)
(* the readers of pictures, recordings and transcripts over small inputs.  *)
(* They share no state, so a behaviour exercises one.                      *)
(***************************************************************************)
EXTENDS Ingestion, SequencesExt, TLC

VARIABLES area, input

-----------------------------------------------------------------------------
(* Calls. *)

Ask(api, ref, texts, titled) == [api |-> api, ref |-> ref, texts |-> texts, titled |-> titled]
CallRequests ==
    {Ask("image", "p", FALSE, FALSE), Ask("image", "p", TRUE, FALSE), Ask("image", "q", FALSE, TRUE),
     Ask("rescan", "p", FALSE, FALSE), Ask("native", "p", FALSE, FALSE), Ask("native", "q", FALSE, FALSE)}

\* Two images of one byte and one of two, where two bytes fit; one is over
\* budget.
PictureKeys == {"small", "other", "large", "refused"}
PictureSize == [k \in PictureKeys |-> CASE k = "large" -> 2 [] k = "refused" -> 0 [] OTHER -> 1]

-----------------------------------------------------------------------------
(* Graphs of timed media. *)

SeqsUpTo(S, n) == UNION {[1 .. k -> S] : k \in 0 .. n}
Captions == {[own |-> 1, counted |-> 1], [own |-> 1, counted |-> 2]}
MediaRequest(service, passages, frames, embeddings, conditional, binding) ==
    [service |-> service, passages |-> passages, frames |-> frames, embeddings |-> embeddings,
     conditional |-> conditional, binding |-> binding]
\* At most two passages; a counter may find nothing in one.
TokenCounts == SeqsUpTo({1, 2}, 2) \cup {<<0, 4>>}
MediaRequests ==
    {MediaRequest("video", p, f, e, cb[1], cb[2]) :
        p \in TokenCounts, f \in SeqsUpTo(Captions, 2), e \in BOOLEAN,
        cb \in {<<FALSE, 0>>, <<TRUE, 0>>, <<TRUE, 1>>}}
    \cup {MediaRequest("audio", p, <<>>, e, cb[1], cb[2]) :
        p \in TokenCounts, e \in BOOLEAN, cb \in {<<FALSE, 0>>, <<TRUE, 0>>, <<TRUE, 1>>}}
UnitVectors == {<<1, 0>>, <<0, 1>>, <<-1, 0>>}

-----------------------------------------------------------------------------
(* Pictures and their containers. *)

Pictures == INSTANCE PictureGeometry
Picture(w, h, px) == [w |-> w, h |-> h, px |-> px]
Pixels == {[v |-> 0, a |-> 255], [v |-> 200, a |-> 255], [v |-> 100, a |-> 51]}
PictureInputs ==
    UNION {{Picture(s[1], s[2], px) : px \in [1 .. s[1] * s[2] -> Pixels]} :
              s \in {<<1, 1>>, <<2, 1>>, <<1, 3>>, <<2, 2>>, <<3, 2>>}}
Recipe(geometry, width, height) ==
    [width |-> width, height |-> height, geometry |-> geometry] @@ Pictures!GeometryFields(geometry)
Recipes == {Recipe("full-frame-bilinear", 3, 2), Recipe("full-frame-bilinear", 1, 3), Recipe("fit-center-pad-bicubic", 3, 3),
            Recipe("fit-center-pad-bicubic", 4, 1), Recipe("native-dyn-size-source-rgb", 2, 2)}
Budget(dimension, pixels, decoded, width, height, rgb) ==
    [max_dimension |-> dimension, max_pixels |-> pixels, max_decoded_bytes |-> decoded,
     max_prepared_width |-> width, max_prepared_height |-> height, max_prepared_rgb_bytes |-> rgb]
Budgets == {Budget(4, 12, 48, 4, 4, 48), Budget(3, 12, 16, 2, 3, 12)}

Entry(tag, kind, amount, value) == [tag |-> tag, kind |-> kind, amount |-> amount, value |-> value]
Tiff(entriesOf) == [present |-> TRUE, header |-> TRUE, fits |-> TRUE, entries |-> entriesOf]
NoExif == [present |-> FALSE, header |-> FALSE, fits |-> FALSE, entries |-> <<>>]
Turned == {Tiff(<<Entry("orientation", 3, 1, 6)>>), Tiff(<<Entry("make", 2, 4, 0), Entry("orientation", 3, 1, 9)>>)}
Block(kind, fits, exif) == [kind |-> kind, fits |-> fits, exif |-> exif]
BlocksOf(media) ==
    CASE media = "image/jpeg" -> {Block("APP1", TRUE, t) : t \in Turned \cup {NoExif}}
            \cup {Block(k, TRUE, NoExif) : k \in {"SOI", "SOS", "EOI"}} \cup {Block("APP0", FALSE, NoExif)}
      [] media = "image/png" -> {Block("eXIf", TRUE, t) : t \in Turned}
            \cup {Block(k, TRUE, NoExif) : k \in {"IDAT", "IEND"}} \cup {Block("IDAT", FALSE, NoExif)}
      [] OTHER -> {Block("EXIF", TRUE, t) : t \in Turned} \cup {Block("VP8 ", f, NoExif) : f \in BOOLEAN}
ContainerInputs ==
    UNION {{[media |-> m, magic |-> TRUE, blocks |-> b, declared |-> d] :
               b \in SeqsUpTo(BlocksOf(m), 3), d \in IF m = "image/webp" THEN 0 .. 3 ELSE {0}} :
           m \in {"image/jpeg", "image/png", "image/webp"}}

-----------------------------------------------------------------------------
(* Recordings. *)

Units == INSTANCE NativeUnits
Policy(start, end, window, hop, step, units) ==
    [start_ms |-> start, end_ms |-> end, window_ms |-> window, hop_ms |-> hop, frame_step_ms |-> step, max_units |-> units,
     max_duration_ms |-> 6]
Policies == {Policy(0, 0, 3, 2, 2, 4), Policy(1, 5, 2, 2, 3, 4), Policy(0, 4, 1, 2, 1, 2),
             Policy(2, 7, 4, 1, 2, 9), [Policy(0, 4, 1, 1, 1, 9) EXCEPT !.max_duration_ms = 5]}
Stamps == SeqsUpTo(0 .. 5, 4)

-----------------------------------------------------------------------------
(* Transcripts. *)

Readers == INSTANCE TranscriptReaders
Cue(start, end) ==
    [shape |-> "cue", start |-> start, end |-> end, endless |-> FALSE, text |-> "ok", speaker |-> "none"]
Cues == {Cue(0, 4), Cue(2, 6), Cue(4, 8), Cue(5, 7), Cue(6, 6), Cue(0, Readers!Bad),
         [Cue(4, 8) EXCEPT !.shape = "comment"], [Cue(4, 8) EXCEPT !.shape = "other"],
         [Cue(4, 8) EXCEPT !.text = "empty"], [Cue(4, 8) EXCEPT !.speaker = "bad"], [Cue(2, 6) EXCEPT !.endless = TRUE]}
Source(mapping, header, timing, schema, segments, duration, cues) ==
    [mapping |-> mapping, decodes |-> TRUE, header |-> header, timing |-> timing, json |-> ~mapping, schema |-> schema,
     segments |-> segments, list |-> TRUE, language |-> "ok", duration |-> duration, cues |-> cues]
Shapes == {<<FALSE, TRUE, TRUE, FALSE, FALSE, Readers!Missing>>, <<FALSE, FALSE, TRUE, FALSE, FALSE, Readers!Missing>>,
           <<TRUE, FALSE, FALSE, TRUE, FALSE, 6>>, <<TRUE, FALSE, FALSE, FALSE, TRUE, Readers!Missing>>,
           <<FALSE, FALSE, FALSE, FALSE, TRUE, 7>>, <<FALSE, FALSE, FALSE, TRUE, TRUE, Readers!Bad>>}

CaptionFrames == {[at |-> t, caption |-> c, name |-> n, forbidden |-> f] :
                      t \in {-1, 0, 3}, c \in {"empty", "cat", "dog"}, n \in {"f1", "f2"}, f \in BOOLEAN}
Captioned(frame) == frame.at >= 0 /\ frame.caption # "empty"

-----------------------------------------------------------------------------
vars == <<area, callVars, prepareVars, batchVars, input>>

NoInput == [of |-> "none"]

Init ==
    /\ area \in {"calls", "preparing", "batches", "reading"}
    /\ Calls!Init /\ (area # "calls" => graph = Nothing)
    /\ Preparing!Init /\ Batches!Init
    /\ input = NoInput

ReadPicture == \E p \in PictureInputs : input' = [of |-> "picture", picture |-> p]
ReadContainer == \E c \in ContainerInputs : input' = [of |-> "container", container |-> c]
ReadRecording ==
    \E kind \in Units!Kinds, p \in Policies, s \in Stamps, late \in BOOLEAN :
        input' = [of |-> "recording", kind |-> kind, policy |-> p, stamps |-> s, late |-> late]
ReadCues ==
    \E shape \in Shapes, cues \in SeqsUpTo(Cues, 3) :
        input' = [of |-> "transcript",
                  source |-> Source(shape[1], shape[2], shape[3], shape[4], shape[5], shape[6], cues)]
ReadCaptions ==
    \E frames \in SeqsUpTo(CaptionFrames, 2) \cup [1 .. 3 -> {f \in CaptionFrames : Captioned(f) /\ ~f.forbidden}] :
        input' = [of |-> "captions", frames |-> frames]

Next ==
    /\ area' = area
    /\ \/ area = "calls" /\ Calls!Next /\ UNCHANGED <<prepareVars, batchVars, input>>
       \/ area = "preparing" /\ Preparing!Next /\ UNCHANGED <<callVars, batchVars, input>>
       \/ area = "batches" /\ Batches!Next /\ UNCHANGED <<callVars, prepareVars, input>>
       \/ /\ area = "reading" /\ input = NoInput
          /\ ReadPicture \/ ReadContainer \/ ReadRecording \/ ReadCues \/ ReadCaptions
          /\ UNCHANGED <<callVars, prepareVars, batchVars>>

Spec == Init /\ [][Next]_vars

\* Callers, threads and contents are interchangeable.
Symmetric == Permutations(Callers) \cup Permutations(Contents)

-----------------------------------------------------------------------------
\* Pictures are turned, resized and budgeted right (PictureGeometry).
PicturesRight ==
    CASE input.of = "picture" ->
            /\ Pictures!TurnRight(input.picture)
            /\ \A recipe \in Recipes, budget \in Budgets :
                   Pictures!ValidRecipe(recipe) /\ Pictures!PreparedRight(input.picture, recipe, budget)
      [] input.of = "container" ->
            \A b \in BlocksOf(input.container.media) : Pictures!TrailerIgnored(input.container, <<b>>)
      [] OTHER -> TRUE
\* The pieces of a recording are chosen right (NativeUnits).
UnitsRight ==
    input.of = "recording" =>
        Units!UnitsRight(input.kind, input.policy, 6, {"audio", "video"}, input.late, input.stamps)
\* What is read from a transcript can be built, captions are read frame by
\* frame (TranscriptReaders).
TranscriptsRight ==
    /\ input.of = "transcript" => Readers!ReadsValid(input.source)
    /\ input.of = "captions" => Readers!CaptionsPairwise(input.frames)

=============================================================================
