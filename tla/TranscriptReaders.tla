-------------------------- MODULE TranscriptReaders --------------------------
(***************************************************************************)
(* The readers of transcripts and frame captions (ingestion/transcripts,   *)
(* ingestion/frame_captions.py) and the records they must produce          *)
(* (mdrack_media/records.py).                                              *)
(*                                                                         *)
(* A source is a format, a list of cues and perhaps a duration.  Times are *)
(* in half milliseconds, so that the rounding of seconds shows; Bad is a   *)
(* time that cannot be read.  The fields text, speaker and confidence say  *)
(* whether the value is "ok", missing ("none") or refused.                 *)
(***************************************************************************)
EXTENDS Integers, Sequences, SequencesExt, FiniteSets

Bad == -1           \* a time that cannot be read
Missing == -2       \* no duration in the source

\* seconds_to_ms rounds half up; subtitles and timed JSON have milliseconds.
HalfUp(h) == (h + 1) \div 2
Milliseconds(format, h) ==
    IF h = Bad THEN Bad
    ELSE IF format = "whisper_json" THEN HalfUp(h)
    ELSE IF h % 2 = 0 THEN h \div 2 ELSE Bad

-----------------------------------------------------------------------------
(* TimedTextAtom and TranscriptArtifact *)

ValidAtom(atom) == 0 <= atom.start /\ atom.start < atom.end

\* Atoms in order that do not overlap, numbered from zero, within the
\* duration when there is one.
ValidTranscript(artifact) ==
    \A i \in DOMAIN artifact.atoms :
        /\ ValidAtom(artifact.atoms[i])
        /\ artifact.atoms[i].ordinal = i - 1
        /\ i > 1 => artifact.atoms[i].start >= artifact.atoms[i - 1].end
        /\ artifact.duration # Missing => artifact.atoms[i].end <= artifact.duration

\* FrameCaptionObservation and FrameCaptionArtifact
ValidFrames(frames) ==
    \A i \in DOMAIN frames :
        /\ frames[i].at >= 0 /\ frames[i].ordinal = i - 1
        /\ i > 1 => frames[i].at >= frames[i - 1].at

-----------------------------------------------------------------------------
(* The cues of one source. *)

Raw(start, end, cue, speaker, ordinal) ==
    [start |-> start, end |-> end, text |-> cue.text, speaker |-> speaker, source |-> ordinal]
Placeholder(ordinal) == [start |-> 0, end |-> 0, text |-> "bad", speaker |-> "none", source |-> ordinal]

Subtitles == {"srt", "webvtt"}

\* What a reader makes of one cue: skipped, an atom to build, or an error in
\* strict mode.  A subtitle block shows its timing in its first two lines and
\* names no speaker.  An end that is missing cannot be read; in WebVTT its
\* line is read past its end.
ReadCue(format, cue, ordinal, strict) ==
    LET start == Milliseconds(format, cue.start)
        end == IF cue.endless THEN Bad ELSE Milliseconds(format, cue.end)
        speaker == IF format \in Subtitles THEN "none" ELSE cue.speaker
        unread == start = Bad \/ end = Bad
    IN  IF format = "webvtt" /\ cue.shape = "comment" THEN [kind |-> "skip"]
        ELSE IF format \in Subtitles /\ cue.shape # "cue" /\ strict THEN [kind |-> "error", code |-> "invalid_subtitle"]
        ELSE IF cue.shape # "cue" THEN [kind |-> "raw", raw |-> Placeholder(ordinal)]
        ELSE IF format = "webvtt" /\ cue.endless THEN [kind |-> "error", code |-> "IndexError"]
        ELSE IF unread /\ strict THEN [kind |-> "error", code |-> "invalid_timing"]
        ELSE [kind |-> "raw", raw |-> IF unread THEN Raw(0, 0, cue, speaker, ordinal) ELSE Raw(start, end, cue, speaker, ordinal)]

\* The cues from left to right, until one is an error.
ReadCues(format, cues, strict) ==
    FoldLeft(LAMBDA acc, cue :
                 LET read == ReadCue(format, cue, acc.next, strict)
                 IN  IF acc.code # "none" \/ read.kind = "skip" THEN acc
                     ELSE IF read.kind = "error" THEN [acc EXCEPT !.code = read.code]
                     ELSE [acc EXCEPT !.raws = Append(@, read.raw), !.next = @ + 1],
             [code |-> "none", raws |-> <<>>, next |-> 0], cues)

-----------------------------------------------------------------------------
(* build_artifact *)

\* Why a raw atom is refused, in the order of the checks.
AtomError(raw, previousEnd) ==
    IF raw.end <= raw.start THEN "invalid_timing"
    ELSE IF raw.text = "bad" THEN "invalid_atom"
    ELSE IF raw.text = "empty" THEN "empty_text"
    ELSE IF raw.start < previousEnd THEN "overlapping_interval"
    ELSE IF raw.speaker = "bad" THEN "invalid_atom"
    ELSE "none"

\* Faulty variant: every cue moves the end on, read or refused.
KeepAtomMoving(acc, raw) ==
    LET error == AtomError(raw, acc.previous)
    IN  IF error = "none"
        THEN [acc EXCEPT !.atoms = Append(@, [start |-> raw.start, end |-> raw.end, ordinal |-> Len(@), source |-> raw.source]),
                         !.previous = raw.end]
        ELSE [acc EXCEPT !.diagnostics = Append(@, [code |-> error, source |-> raw.source]), !.previous = raw.end]

\* One pass: atoms are kept and numbered, the others leave a diagnostic; only
\* an atom that is kept moves the end on.
KeepAtom(acc, raw) ==
    LET error == AtomError(raw, acc.previous)
    IN  IF error = "none"
        THEN [acc EXCEPT !.atoms = Append(@, [start |-> raw.start, end |-> raw.end, ordinal |-> Len(@), source |-> raw.source]),
                         !.previous = raw.end]
        ELSE [acc EXCEPT !.diagnostics = Append(@, [code |-> error, source |-> raw.source])]

ReadError(code) == [error |-> code, atoms |-> <<>>, duration |-> Missing, diagnostics |-> <<>>]

\* A declared duration that ends before the last atom is not used.
BuildArtifact(raws, duration, strict) ==
    LET built == FoldLeft(KeepAtom, [atoms |-> <<>>, previous |-> -1, diagnostics |-> <<>>], raws)
        computed == IF built.atoms = <<>> THEN Missing ELSE Last(built.atoms).end
        short == duration # Missing /\ computed # Missing /\ duration < computed
        diagnostics == IF short THEN Append(built.diagnostics, [code |-> "invalid_timing", source |-> Missing])
                       ELSE built.diagnostics
    IN  IF strict /\ diagnostics # <<>> THEN ReadError(diagnostics[1].code)
        ELSE [error |-> "none", atoms |-> built.atoms, diagnostics |-> diagnostics,
              duration |-> IF duration = Missing \/ short THEN computed ELSE duration]

\* read_srt, read_vtt, read_whisper_json and read_timed_json; only the JSON
\* formats have a duration, and outside strict mode a bad one is forgotten.
ReadFormat(format, source, strict) ==
    LET cues == ReadCues(format, source.cues, strict)
        duration == IF format \in Subtitles \/ source.duration = Missing THEN Missing
                    ELSE Milliseconds(format, source.duration)
    IN  IF ~source.list THEN ReadError(IF format = "whisper_json" THEN "missing_segments" ELSE "missing_atoms")
        ELSE IF cues.code # "none" THEN ReadError(cues.code)
        ELSE IF duration = Bad /\ strict THEN ReadError("invalid_timing")
        ELSE IF source.language = "bad" THEN ReadError("invalid_atom")
        ELSE BuildArtifact(cues.raws, IF duration = Bad THEN Missing ELSE duration, strict)

\* read_transcript: the format is told from the content.  A decoded mapping
\* is JSON; text is first looked at for subtitles.
Detected(source) ==
    LET json == IF source.schema THEN "timed_json" ELSE IF source.segments THEN "whisper_json" ELSE "unknown"
    IN  IF source.mapping THEN json
        ELSE IF ~source.decodes THEN "unknown"
        ELSE IF source.header THEN "webvtt"
        ELSE IF source.timing THEN "srt"
        ELSE IF source.json THEN json ELSE "unknown"

ReadTranscript(source, strict) ==
    IF Detected(source) = "unknown" THEN ReadError("unknown_format")
    ELSE ReadFormat(Detected(source), source, strict)

-----------------------------------------------------------------------------
(* read_frame_captions: every frame is right, in order, named once and seen *)
(* once, and nothing says where its picture is.                             *)

FramesError(frames) ==
    LET n == Len(frames)
        made == [i \in 1 .. n |-> [at |-> frames[i].at, ordinal |-> i - 1]]
    IN  IF \/ \E i \in 1 .. n : frames[i].at < 0 \/ frames[i].caption = "empty"
           \/ ~ValidFrames(made)
        THEN "frame_manifest_invalid"
        ELSE IF \E i, j \in 1 .. n : /\ i # j
                                     /\ \/ frames[i].name = frames[j].name
                                        \/ frames[i].at = frames[j].at /\ frames[i].caption = frames[j].caption
        THEN "frame_manifest_duplicate"
        ELSE IF \E i \in 1 .. n : frames[i].forbidden THEN "frame_manifest_forbidden_metadata"
        ELSE "none"

-----------------------------------------------------------------------------
\* Cues a person would call right: readable, one after another, at least a
\* millisecond long.
RightCues(format, cues) ==
    \A i \in DOMAIN cues :
        /\ cues[i].shape = "cue" /\ ~cues[i].endless /\ cues[i].text = "ok"
        /\ format \in Subtitles \/ cues[i].speaker # "bad"
        /\ Milliseconds(format, cues[i].start) # Bad /\ Milliseconds(format, cues[i].end) # Bad
        /\ cues[i].end - cues[i].start >= 2
        /\ i > 1 => cues[i].start >= cues[i - 1].end

\* Whatever a source holds, what is read from it can be built: the artifact is
\* valid and every cue became an atom or left a diagnostic.  Strict mode
\* accepts exactly the sources that leave nothing to report and reads the same
\* atoms from them; rounding costs no cue (build_artifact, seconds_to_ms).
ReadsValid(source) ==
    LET format == Detected(source)
        lenient == ReadTranscript(source, FALSE)
        strict == ReadTranscript(source, TRUE)
        kept == {lenient.atoms[i].source : i \in DOMAIN lenient.atoms}
        reported == {lenient.diagnostics[i].source : i \in DOMAIN lenient.diagnostics} \ {Missing}
        cues == {i \in DOMAIN source.cues : ~(format = "webvtt" /\ source.cues[i].shape = "comment")}
        unread == format \notin Subtitles /\ source.duration # Missing /\ Milliseconds(format, source.duration) = Bad
    IN  /\ lenient.error = "none" =>
              /\ ValidTranscript(lenient)
              /\ kept \cap reported = {} /\ Cardinality(kept \cup reported) = Cardinality(cues)
              /\ RightCues(format, source.cues) => Cardinality(kept) = Len(source.cues)
              /\ strict = lenient \/ strict.error # "none"
        /\ (strict.error = "none") <=> (lenient.error = "none" /\ lenient.diagnostics = <<>> /\ ~unread)

\* A manifest of frame captions is read exactly when it could be read two
\* frames at a time: no frame is refused because of a third one.
CaptionsPairwise(frames) ==
    (FramesError(frames) = "none") <=>
        \A i, j \in DOMAIN frames :
            FramesError(IF i < j THEN <<frames[i], frames[j]>> ELSE <<frames[i]>>) = "none"

=============================================================================
