----------------------------- MODULE NativeUnits -----------------------------
(***************************************************************************)
(* Which pieces of a recording native ingestion encodes                    *)
(* (src/src/mdrack/domain/native_media.py, ingestion/native_decoding.py),  *)
(* and the checks packages/mdrack-media/.../native.py makes on them when   *)
(* it builds the batch.  Times are integer milliseconds.                   *)
(***************************************************************************)
EXTENDS Integers, Sequences, FiniteSets, SequencesExt

Kinds == {"frames", "audio", "video"}
EndAt(a, b) == IF a <= b THEN a ELSE b

\* NativeMediaPolicy.__post_init__; end_ms = 0 stands for "to the end".
ValidPolicy(p) ==
    /\ p.start_ms >= 0
    /\ p.end_ms # 0 => p.end_ms > p.start_ms
    /\ \A b \in {"window_ms", "hop_ms", "frame_step_ms", "max_units", "max_duration_ms"} : p[b] >= 1

RangeEnd(p, duration) == IF p.end_ms = 0 THEN duration ELSE p.end_ms
\* NativeMediaPolicy.range.
RangeError(p, duration) ==
    IF duration > p.max_duration_ms THEN "native_duration_budget_exceeded"
    ELSE IF ~(p.start_ms < RangeEnd(p, duration) /\ RangeEnd(p, duration) <= duration) THEN "native_range_invalid"
    ELSE "none"

(***************************************************************************)
(* The probe: streams that start late, a missing track, a recording beyond *)
(* its budget or a broken range are refused before anything is decoded.    *)
(***************************************************************************)
ProbeError(kind, streams, late, p, duration) ==
    IF late THEN "native_stream_timeline_unsupported"
    ELSE IF (IF kind = "audio" THEN "audio" ELSE "video") \notin streams
         THEN "native_track_unavailable"
    ELSE RangeError(p, duration)

\* The frames of the range with a time later than the frame before: pairs of
\* index and time.
Distinct(stamps, p, duration) ==
    LET fresh(i) ==
            /\ stamps[i] >= p.start_ms /\ stamps[i] < RangeEnd(p, duration)
            /\ \A j \in 1 .. i - 1 : stamps[j] < stamps[i] \/ stamps[j] < p.start_ms
    IN SelectSeq([i \in DOMAIN stamps |-> <<i, stamps[i]>>], LAMBDA f : fresh(f[1]))

Unsorted(stamps) == \E i \in 1 .. Len(stamps) - 1 : stamps[i + 1] < stamps[i]

ChosenDrifting(frames, p) ==
    LET step(acc, f) ==
            IF f[2] < acc.threshold THEN acc
            ELSE [chosen |-> Append(acc.chosen, f), threshold |-> f[2] + p.frame_step_ms]
    IN FoldLeft(step, [chosen |-> <<>>, threshold |-> p.start_ms], frames).chosen

\* The first frame at or after each point of the grid start, start + step, ...
\* that no frame chosen before stands for.
Chosen(frames, p) ==
    LET step(acc, f) ==
            IF f[2] < acc.threshold THEN acc
            ELSE [chosen |-> Append(acc.chosen, f),
                  threshold |-> p.start_ms
                      + ((f[2] - p.start_ms) \div p.frame_step_ms + 1) * p.frame_step_ms]
    IN FoldLeft(step, [chosen |-> <<>>, threshold |-> p.start_ms], frames).chosen

WindowCount(p, duration) ==
    (RangeEnd(p, duration) - p.start_ms + p.hop_ms - 1) \div p.hop_ms

Windows(p, duration) ==
    [k \in 1 .. WindowCount(p, duration) |->
        LET s == p.start_ms + (k - 1) * p.hop_ms
        IN [start_ms |-> s, end_ms |-> EndAt(s + p.window_ms, RangeEnd(p, duration))]]

\* A clip starts at its first frame.
Clip(w, frames) ==
    LET inside == SelectSeq(frames, LAMBDA f : w.start_ms <= f[2] /\ f[2] < w.end_ms)
    IN IF inside = <<>> THEN [start_ms |-> -1, end_ms |-> -1]
       ELSE [w EXCEPT !.start_ms = inside[1][2]]

UnitsRefused(code) == [ok |-> FALSE, error |-> code]

(***************************************************************************)
(* NativeMediaDecoder.prepare: the units of a recording, or why there are  *)
(* none.  A frame is a unit that starts and ends at its time.              *)
(***************************************************************************)
DecodedUnits(kind, p, duration, streams, late, stamps) ==
    LET frames == Distinct(stamps, p, duration)
        chosen == Chosen(frames, p)
        clips == [k \in DOMAIN Windows(p, duration) |-> Clip(Windows(p, duration)[k], frames)]
        probe == ProbeError(kind, streams, late, p, duration)
    IN IF probe # "none" THEN UnitsRefused(probe)
       ELSE IF kind # "audio" /\ Unsorted(stamps)
            THEN UnitsRefused("native_frame_timeline_unsupported")
       ELSE IF kind # "audio" /\ frames = <<>> THEN UnitsRefused("native_range_has_no_frames")
       ELSE IF kind = "frames"
            THEN IF Len(chosen) > p.max_units THEN UnitsRefused("native_unit_budget_exceeded")
                 ELSE [ok |-> TRUE, units |-> [k \in DOMAIN chosen |->
                          [start_ms |-> chosen[k][2], end_ms |-> chosen[k][2]]]]
       ELSE IF WindowCount(p, duration) > p.max_units
            THEN UnitsRefused("native_unit_budget_exceeded")
       ELSE IF kind = "audio" THEN [ok |-> TRUE, units |-> Windows(p, duration)]
       ELSE IF \E k \in DOMAIN clips : clips[k].start_ms = -1
            THEN UnitsRefused("native_range_has_no_frames")
       ELSE [ok |-> TRUE, units |-> clips]

(***************************************************************************)
(* mdrack_media.native._build: every observation within the range, their   *)
(* coordinates strictly increasing.                                        *)
(***************************************************************************)
InRange(kind, u, start, end) ==
    IF kind = "frames" THEN start <= u.start_ms /\ u.start_ms < end
    ELSE start <= u.start_ms /\ u.start_ms < u.end_ms /\ u.end_ms <= end

Later(kind, u, v) ==
    IF kind = "frames" THEN u.start_ms < v.start_ms
    ELSE u.start_ms < v.start_ms \/ (u.start_ms = v.start_ms /\ u.end_ms < v.end_ms)

BuildAccepts(kind, units, start, end) ==
    /\ units # <<>>
    /\ \A k \in DOMAIN units : InRange(kind, units[k], start, end)
    /\ \A k \in 1 .. Len(units) - 1 : Later(kind, units[k], units[k + 1])

\* build_native_*_batch: the unit of each observation with its ordinal.
NativeBatch(kind, units) ==
    [k \in DOMAIN units |->
        [kind |-> IF kind = "frames" THEN "frame" ELSE "time_segment",
         modality |-> IF kind = "frames" THEN "image" ELSE kind,
         ordinal |-> k - 1, start_ms |-> units[k].start_ms, end_ms |-> units[k].end_ms]]

(***************************************************************************)
(* Properties of one recording.                                            *)
(***************************************************************************)
\* The frames chosen are the first of each cell of the grid that has one, so
\* that a late frame does not shift the ones after it; audio windows leave no
\* gap unless the hop is longer than the window; what is decoded is accepted
\* by the batch, but for clips cut to the same frame.
UnitsRight(kind, p, duration, streams, late, stamps) ==
    LET decoded == DecodedUnits(kind, p, duration, streams, late, stamps)
        units == decoded.units
        end == RangeEnd(p, duration)
        inside == {stamps[i] : i \in DOMAIN stamps} \cap p.start_ms .. end - 1
        cell(t) == (t - p.start_ms) \div p.frame_step_ms
        same == \E k \in 1 .. Len(units) - 1 : units[k] = units[k + 1]
    IN decoded.ok =>
        /\ Len(units) <= p.max_units /\ end <= p.max_duration_ms
        /\ kind = "frames" =>
               {units[k].start_ms : k \in DOMAIN units}
                   = {t \in inside : \A u \in inside : cell(u) = cell(t) => t <= u}
        /\ (kind = "audio" /\ p.hop_ms <= p.window_ms) =>
               \A t \in p.start_ms .. end - 1 :
                   \E k \in DOMAIN units : units[k].start_ms <= t /\ t < units[k].end_ms
        /\ (kind = "video" /\ same) \/ BuildAccepts(kind, units, p.start_ms, end)
        /\ \A k \in DOMAIN units : NativeBatch(kind, units)[k].ordinal = k - 1
=============================================================================
