------------------------------ MODULE RawMedia ------------------------------
(***************************************************************************)
(* Ingestion of a raw audio or video file (ingestion/raw_audio.py and      *)
(* raw_video.py over raw_source_provenance.py).  The call captures the     *)
(* file, feeds the captured bytes to one external helper, reads its output *)
(* under a limit with two threads, and publishes the evidence after        *)
(* checking that the file still holds the captured bytes.  The helper, a   *)
(* descendant that inherited its pipes, the two threads, the main thread   *)
(* and whoever edits the file interleave.  Contents are abstract revisions *)
(* and the output is counted in chunks.                                    *)
(***************************************************************************)
EXTENDS Integers, Sequences, FiniteSets

CONSTANTS
    Revisions,      \* contents the source file can have
    SignatureOf,    \* [Revisions -> what the magic bytes say]
    HeaderMs,       \* [Revisions -> duration in the WAVE header, in ms]
    OutputLimit,    \* MAX_STT_STDOUT_BYTES, in chunks
    MaxDuration,    \* RawInputBudget.max_duration_ms
    MaxFrames,      \* RawInputBudget.max_selected_frames
    PipeCapacity    \* chunks an operating-system pipe holds

VARIABLES
    rawFile,        \* revision of the source file, or Absent
    rawCall,        \* the call: media kind, phase, captured revision, ...
    helper,         \* the external process and its descendant
    threads,        \* the writer and the reader thread and their events
    rawCatalog      \* what the catalog holds for the source

rawVars == <<rawFile, rawCall, helper, threads, rawCatalog>>

Absent == "absent"

\* The limit counts chunks.
LimitAssumption == OutputLimit \in Nat

MediaKinds == {"audio", "video"}

\* What a helper can print: whether it is the strict document, the duration
\* it states, the end of its last atom and the stamps of its frames.
Evidence == [strict : BOOLEAN, duration : {0, 1, MaxDuration, MaxDuration + 1},
             lastAtom : {0, MaxDuration}, stamps : {<<>>, <<0>>, <<0, 1>>, <<1, 0>>}]

NoEvidence == [strict |-> FALSE, duration |-> 0, lastAtom |-> 0, stamps |-> <<>>]
NoResource == [revision |-> Absent, evidence |-> NoEvidence]

\* The magic bytes of the two containers the commands accept.
Signature(kind) == IF kind = "audio" THEN "RIFF_WAVE" ELSE "ISO_BMFF"

NoHelper == [main |-> "none", descendant |-> FALSE, pipe |-> 0]
NoThreads == [writer |-> "off", reader |-> "off", output |-> 0,
              overflow |-> FALSE, failed |-> FALSE]
\* Temporary files of the call, and those the system refused to remove.
NoCall == [kind |-> "audio", pc |-> "idle", revision |-> Absent, files |-> {}, stuck |-> {},
           timedOut |-> FALSE, returncode |-> "none", evidence |-> NoEvidence, outcome |-> "none"]

Init ==
    /\ rawFile \in Revisions
    /\ rawCall = NoCall
    /\ helper = NoHelper
    /\ threads = NoThreads
    /\ rawCatalog = NoResource

\* The call ends: the finally blocks remove its temporary files.  An error
\* of a removal is ignored and the file stays.
FailWith(why, files) ==
    \E stuck \in SUBSET files :
        rawCall' = [rawCall EXCEPT !.pc = "ended", !.outcome = why,
                                   !.files = stuck \cup rawCall.stuck,
                                   !.stuck = stuck \cup rawCall.stuck]

Fail(why) == FailWith(why, rawCall.files)

-----------------------------------------------------------------------------
(* Capture. *)

\* capture_source: a bounded read, the signature of the kind asked for, the
\* budget, and a private copy of the bytes.  Audio also reads the duration
\* from the header of the captured bytes, which are copied by then.
Capture(kind, consent) ==
    /\ rawCall.pc = "idle"
    /\ LET refused == IF ~consent THEN "prepared_evidence_invalid"
                      ELSE IF rawFile = Absent THEN "source_not_regular"
                      ELSE IF SignatureOf[rawFile] # Signature(kind) THEN "signature_unsupported"
                      ELSE IF kind = "audio" /\ HeaderMs[rawFile] \notin 1 .. MaxDuration
                           THEN "duration_limit_exceeded" ELSE "none"
       IN  IF refused = "duration_limit_exceeded" THEN FailWith(refused, {"snapshot"})
           ELSE IF refused # "none" THEN Fail(refused)
           ELSE rawCall' = [rawCall EXCEPT !.kind = kind, !.pc = "captured",
                                           !.revision = rawFile, !.files = {"snapshot"}]
    /\ UNCHANGED <<rawFile, helper, threads, rawCatalog>>

\* The file cannot be read, or its copy cannot be written whole and, perhaps,
\* not be removed either.
CaptureFails ==
    /\ rawCall.pc = "idle"
    /\ FailWith("source_unavailable", {"snapshot"})
    /\ UNCHANGED <<rawFile, helper, threads, rawCatalog>>

\* Popen with two pipes; the two threads start.
Popen ==
    /\ rawCall.pc = "captured"
    /\ rawCall' = [rawCall EXCEPT !.pc = "waiting", !.files = @ \cup {"stdout"}]
    /\ helper' = [helper EXCEPT !.main = "running"]
    /\ threads' = [threads EXCEPT !.writer = "writing", !.reader = "reading"]
    /\ UNCHANGED <<rawFile, rawCatalog>>

\* The file for the output was made before Popen.
PopenFails ==
    /\ rawCall.pc = "captured"
    /\ FailWith("prepared_evidence_invalid", rawCall.files \cup {"stdout"})
    /\ UNCHANGED <<rawFile, helper, threads, rawCatalog>>

-----------------------------------------------------------------------------
(* The helper and its descendant. *)

HelperAlive == helper.main = "running"
PipesHeld == HelperAlive \/ helper.descendant
Kill(h) == IF h.main = "running" THEN [h EXCEPT !.main = "killed"] ELSE h

HelperForks ==
    /\ HelperAlive /\ ~helper.descendant
    /\ helper' = [helper EXCEPT !.descendant = TRUE]
    /\ UNCHANGED <<rawFile, rawCall, threads, rawCatalog>>

HelperPrints ==
    /\ PipesHeld /\ helper.pipe < PipeCapacity
    /\ threads.reader = "reading"
    /\ helper' = [helper EXCEPT !.pipe = @ + 1]
    /\ UNCHANGED <<rawFile, rawCall, threads, rawCatalog>>

HelperExits(code) ==
    /\ HelperAlive
    /\ helper' = [helper EXCEPT !.main = code]
    /\ UNCHANGED <<rawFile, rawCall, threads, rawCatalog>>

DescendantExits ==
    /\ helper.descendant
    /\ helper' = [helper EXCEPT !.descendant = FALSE]
    /\ UNCHANGED <<rawFile, rawCall, threads, rawCatalog>>

-----------------------------------------------------------------------------
(* write_input and read_bounded_output. *)

WriterDone ==
    /\ threads.writer = "writing"
    /\ PipesHeld
    /\ threads' = [threads EXCEPT !.writer = "closed"]
    /\ UNCHANGED <<rawFile, rawCall, helper, rawCatalog>>

WriterBroken ==
    /\ threads.writer = "writing"
    /\ ~PipesHeld
    /\ threads' = [threads EXCEPT !.writer = "closed", !.failed = TRUE]
    /\ UNCHANGED <<rawFile, rawCall, helper, rawCatalog>>

\* One chunk: written up to one past the limit; past the limit the thread
\* sets overflow, kills the helper and stops reading.
ReaderReads ==
    /\ threads.reader = "reading"
    /\ helper.pipe > 0
    /\ LET output == threads.output + 1
           over == output > OutputLimit
       IN  /\ threads' = [threads EXCEPT !.output = output, !.overflow = over,
                                         !.reader = IF over THEN "closed" ELSE "reading"]
           /\ helper' = LET drained == [helper EXCEPT !.pipe = @ - 1]
                        IN  IF over THEN Kill(drained) ELSE drained
    /\ UNCHANGED <<rawFile, rawCall, rawCatalog>>

ReaderSeesEnd ==
    /\ threads.reader = "reading"
    /\ helper.pipe = 0 /\ ~PipesHeld
    /\ threads' = [threads EXCEPT !.reader = "closed"]
    /\ UNCHANGED <<rawFile, rawCall, helper, rawCatalog>>

\* The temporary file cannot be written: failed, kill, stop.
ReaderFails ==
    /\ threads.reader = "reading"
    /\ threads' = [threads EXCEPT !.reader = "closed", !.failed = TRUE]
    /\ helper' = Kill(helper)
    /\ UNCHANGED <<rawFile, rawCall, rawCatalog>>

-----------------------------------------------------------------------------
(* The main thread: wait with a timeout, join, judge. *)

WaitReturns ==
    /\ rawCall.pc = "waiting"
    /\ ~HelperAlive
    /\ rawCall' = [rawCall EXCEPT !.pc = "joining", !.returncode = helper.main]
    /\ UNCHANGED <<rawFile, helper, threads, rawCatalog>>

\* The timeout ends the wait and leaves the helper running.
WaitTimesOutNoKill ==
    /\ rawCall.pc = "waiting"
    /\ HelperAlive
    /\ rawCall' = [rawCall EXCEPT !.pc = "joining", !.timedOut = TRUE, !.returncode = "killed"]
    /\ UNCHANGED <<rawFile, helper, threads, rawCatalog>>

WaitTimesOut ==
    /\ rawCall.pc = "waiting"
    /\ HelperAlive
    /\ helper' = Kill(helper)
    /\ rawCall' = [rawCall EXCEPT !.pc = "joining", !.timedOut = TRUE, !.returncode = "killed"]
    /\ UNCHANGED <<rawFile, threads, rawCatalog>>

\* _strict_extraction and the checks of the two services: a strict document
\* whose timings fit the duration, in order, within the budget.
Acceptable(ev) ==
    /\ ev.strict
    /\ IF rawCall.kind = "audio"
       THEN ev.duration <= HeaderMs[rawCall.revision]
       ELSE /\ ev.duration \in 1 .. MaxDuration
            /\ ev.lastAtom <= ev.duration
            /\ Len(ev.stamps) \in 1 .. MaxFrames
            /\ \A i \in 1 .. Len(ev.stamps) : ev.stamps[i] \in 0 .. ev.duration
            /\ \A i \in 2 .. Len(ev.stamps) : ev.stamps[i - 1] <= ev.stamps[i]

\* Only the exit code decides.
JudgementByCode(ev) ==
    IF rawCall.returncode # "zero" THEN "prepared_evidence_invalid"
    ELSE IF Acceptable(ev) THEN "accepted" ELSE "prepared_evidence_invalid"

Judgement(ev) ==
    IF rawCall.timedOut THEN "prepared_evidence_invalid"
    ELSE IF threads.overflow THEN "prepared_text_limit_exceeded"
    ELSE IF threads.failed \/ rawCall.returncode # "zero" THEN "prepared_evidence_invalid"
    ELSE IF Acceptable(ev) THEN "accepted" ELSE "prepared_evidence_invalid"

\* Both threads are joined before anything is judged; the file then holds
\* what the helper printed.
Join(ev) ==
    /\ rawCall.pc = "joining"
    /\ threads.writer = "closed" /\ threads.reader = "closed"
    /\ IF Judgement(ev) = "accepted"
       THEN \E stuck \in SUBSET {"stdout"} :
                rawCall' = [rawCall EXCEPT !.pc = "prepared", !.evidence = ev,
                                           !.files = {"snapshot"} \cup stuck, !.stuck = stuck]
       ELSE Fail(Judgement(ev))
    /\ UNCHANGED <<rawFile, helper, threads, rawCatalog>>

-----------------------------------------------------------------------------
(* Publication through the guarded write port. *)

\* check_source_after reads the file again, immediately before the write.
CheckSourceAfter ==
    /\ rawCall.pc = "prepared"
    /\ IF rawFile = rawCall.revision
       THEN rawCall' = [rawCall EXCEPT !.pc = "checked"]
       ELSE Fail("source_changed")
    /\ UNCHANGED <<rawFile, helper, threads, rawCatalog>>

\* One complete replacement, with the hash of the captured bytes.
ReplaceResource ==
    /\ rawCall.pc = "checked"
    /\ rawCatalog' = [revision |-> rawCall.revision, evidence |-> rawCall.evidence]
    /\ Fail("published")
    /\ UNCHANGED <<rawFile, helper, threads>>

ReplaceFails ==
    /\ rawCall.pc = "checked"
    /\ Fail("storage_failed")
    /\ UNCHANGED <<rawFile, helper, threads, rawCatalog>>

FileChanges ==
    /\ rawCall.pc # "ended"
    /\ \E r \in Revisions \cup {Absent} : r # rawFile /\ rawFile' = r
    /\ UNCHANGED <<rawCall, helper, threads, rawCatalog>>

Main == Popen \/ PopenFails \/ WaitReturns \/ WaitTimesOut \/ (\E ev \in Evidence : Join(ev))
            \/ CheckSourceAfter \/ ReplaceResource \/ ReplaceFails
Writer == WriterDone \/ WriterBroken
Reader == ReaderReads \/ ReaderSeesEnd \/ ReaderFails

Next ==
    \/ \E kind \in MediaKinds, consent \in BOOLEAN : Capture(kind, consent)
    \/ CaptureFails \/ Main \/ Writer \/ Reader
    \/ HelperForks \/ HelperPrints \/ DescendantExits
    \/ \E code \in {"zero", "nonzero"} : HelperExits(code)
    \/ FileChanges

\* The three threads of the call run and the timeout of wait passes; a
\* failing write of the output is not something to wait for.
Progress == Main \/ Writer \/ ReaderReads \/ ReaderSeesEnd

Spec == Init /\ [][Next]_rawVars /\ WF_rawVars(Progress)

-----------------------------------------------------------------------------
\* What is published was derived by a helper that succeeded, within the
\* limits, from exactly the bytes whose hash the resource carries.
PublishedFromCapture ==
    rawCatalog # NoResource =>
        /\ rawCatalog.revision = rawCall.revision
        /\ rawCall.returncode = "zero" /\ ~rawCall.timedOut
        /\ ~threads.overflow /\ ~threads.failed /\ threads.output <= OutputLimit
        /\ rawCall.kind = "video" => rawCatalog.evidence.lastAtom <= rawCatalog.evidence.duration

\* However the call ends, only a temporary file that could not be removed
\* is still there, its two threads have finished and the helper it started
\* no longer runs.
NothingLeftBehind ==
    rawCall.pc = "ended" =>
        /\ rawCall.files \subseteq rawCall.stuck
        /\ ~HelperAlive
        /\ threads.writer # "writing" /\ threads.reader # "reading"

\* The call ends whatever the helper does, unless something the helper left
\* behind still holds its pipes: the joins have no timeout of their own.
Ingesting == rawCall.pc \notin {"idle", "ended"} /\ ~helper.descendant

=============================================================================
