------------------------------ MODULE CudaHost ------------------------------
(***************************************************************************)
(* The host of the CUDA encoder (hosts/cuda_encoder.py) and the Windows    *)
(* job object that owns its helper (hosts/_windows_job.py).  Every encode  *)
(* call starts one helper in a private directory, polls it from the event  *)
(* loop, and closes the job on every way out: result, failure, timeout,    *)
(* output limit or cancellation.  An asyncio lock lets one call run at a   *)
(* time; the event loop only switches tasks at the lock and at the sleep   *)
(* between two polls, so everything between them is one action.  The       *)
(* helper, its descendants and the pinned files change at any time.        *)
(***************************************************************************)
EXTENDS Naturals, Sequences, FiniteSets, SequencesExt

CONSTANTS
    Callers,        \* tasks that call encode
    Extended,       \* the configured protocol is mdrack-cuda-retrieval-v2
    OnWindows       \* os.name = "nt"

VARIABLES
    cudaClosed,     \* CUDAEncoderProvider._closed
    cudaHolder,     \* the task inside "async with self._lock", or NoTask
    cudaWaiters,    \* tasks waiting for the lock, first come first served
    cudaTasks,      \* per call: where it is and what its helper did
    cudaCloser,     \* the task that calls aclose: idle, queued, done
    pinsIntact      \* the configuration and the pinned files hash as pinned

cudaVars == <<cudaClosed, cudaHolder, cudaWaiters, cudaTasks, cudaCloser, pinsIntact>>

NoTask == "no task"
Closer == "closer"

\* The names of the lock's other holders are not callers.
CallersAssumption == NoTask \notin Callers /\ Closer \notin Callers

Kinds == {"image", "query", "document"}

\* The routes the provider admits, as <<role, form of the input>>.
Capabilities ==
    {<<"document", "image">>, <<"query", "text">>}
        \cup (IF Extended THEN {<<"document", "text">>} ELSE {})

\* What a caller can hand over; usable: it decodes and fits the byte limit.
Inputs == [role : {"document", "query"}, form : {"image", "text"}, usable : BOOLEAN]

\* _prepare refuses anything outside the admitted routes and limits.
Admitted(v) == v.usable /\ <<v.role, v.form>> \in Capabilities

\* The kind of request put on the helper's command line.
KindOf(v) == IF v.form = "image" THEN "image"
             ELSE IF Extended /\ v.role = "document" THEN "document" ELSE "query"

Errors == {"rejected", "closed", "identity_changed", "platform_unsupported", "failed",
           "timeout", "output_limit", "cancelled", "not_quiescent"}

Task == [pc : {"idle", "queued", "polling", "ended"}, kind : Kinds,
         tree : SUBSET {"helper", "descendant"}, exit : {"none", "zero", "nonzero"},
         wire : {"none", "own", "partial", "foreign"}, flooded : BOOLEAN,
         directory : BOOLEAN, job : BOOLEAN, outcome : Errors \cup {"none", "completed"}]

Fresh == [pc |-> "idle", kind |-> "query", tree |-> {}, exit |-> "none", wire |-> "none",
          flooded |-> FALSE, directory |-> FALSE, job |-> FALSE, outcome |-> "none"]

Init ==
    /\ cudaClosed = FALSE
    /\ cudaHolder = NoTask
    /\ cudaWaiters = <<>>
    /\ cudaTasks = [c \in Callers |-> Fresh]
    /\ cudaCloser = "idle"
    /\ pinsIntact = TRUE

Ended(task, why) == [task EXCEPT !.pc = "ended", !.outcome = why]

-----------------------------------------------------------------------------
(* The lock. *)

\* A task asks for the lock after its input was prepared.
Encode(c, v) ==
    /\ cudaTasks[c].pc = "idle"
    /\ IF Admitted(v)
       THEN /\ cudaTasks' = [cudaTasks EXCEPT ![c] = [@ EXCEPT !.pc = "queued", !.kind = KindOf(v)]]
            /\ cudaWaiters' = Append(cudaWaiters, c)
       ELSE /\ cudaTasks' = [cudaTasks EXCEPT ![c] = Ended(@, "rejected")]
            /\ UNCHANGED cudaWaiters
    /\ UNCHANGED <<cudaClosed, cudaHolder, cudaCloser, pinsIntact>>

AskClose ==
    /\ cudaCloser = "idle"
    /\ cudaClosed' = TRUE
    /\ cudaCloser' = "queued"
    /\ cudaWaiters' = Append(cudaWaiters, Closer)
    /\ UNCHANGED <<cudaHolder, cudaTasks, pinsIntact>>

\* aclose returns as soon as it has held the lock once.
CloseReturns ==
    /\ cudaHolder = NoTask
    /\ cudaWaiters # <<>>
    /\ Head(cudaWaiters) = Closer
    /\ cudaWaiters' = Tail(cudaWaiters)
    /\ cudaCloser' = "done"
    /\ UNCHANGED <<cudaClosed, cudaHolder, cudaTasks, pinsIntact>>

\* A task that waits for the lock may be cancelled there.
CancelWaiting(c) ==
    /\ cudaTasks[c].pc = "queued"
    /\ cudaTasks' = [cudaTasks EXCEPT ![c] = Ended(@, "cancelled")]
    /\ \E i \in DOMAIN cudaWaiters :
           cudaWaiters[i] = c /\ cudaWaiters' = RemoveAt(cudaWaiters, i)
    /\ UNCHANGED <<cudaClosed, cudaHolder, cudaCloser, pinsIntact>>

-----------------------------------------------------------------------------
(* The way out: Job.close, the reap of the helper, the private directory. *)

\* Job.close terminates whatever is still active and waits for the job to be
\* quiescent; when it is not within the deadline the handle stays open, the
\* tree lives on and the call fails whatever it was about to return.
Quiesced(task, why) ==
    [task EXCEPT !.tree = {}, !.job = FALSE, !.directory = FALSE,
                 !.pc = "ended", !.outcome = why]
NotQuiesced(task) ==
    [task EXCEPT !.pc = "ended", !.outcome = "not_quiescent"]

\* Without the job: only the helper itself is reaped.
CleanupHelperOnly(task, why) ==
    {[task EXCEPT !.tree = @ \ {"helper"}, !.job = FALSE, !.directory = FALSE,
                  !.pc = "ended", !.outcome = why]}

\* The directory cannot be removed, whatever the call was about to do.
DirectoryStays(task) ==
    [task EXCEPT !.tree = {}, !.job = FALSE, !.pc = "ended", !.outcome = "failed"]

Cleanup(task, why) ==
    {Quiesced(task, why), DirectoryStays(task)}
        \cup (IF task.tree # {} THEN {NotQuiesced(task)} ELSE {})

Leave(c, results) ==
    /\ \E after \in results : cudaTasks' = [cudaTasks EXCEPT ![c] = after]
    /\ cudaHolder' = NoTask
    /\ UNCHANGED <<cudaClosed, cudaWaiters, cudaCloser, pinsIntact>>

-----------------------------------------------------------------------------
(* The way in. *)

\* With the lock: refuse when closed, verify the pins, copy the executable,
\* create the job, start the helper suspended inside it and resume it.
AtHead(c) == cudaHolder = NoTask /\ cudaWaiters # <<>> /\ Head(cudaWaiters) = c

Refused(c) ==
    IF cudaClosed THEN "closed"
    ELSE IF ~pinsIntact THEN "identity_changed"
    ELSE IF ~OnWindows THEN "platform_unsupported" ELSE "none"

Refuse(c) ==
    /\ AtHead(c)
    /\ Refused(c) # "none"
    /\ cudaWaiters' = Tail(cudaWaiters)
    /\ cudaTasks' = [cudaTasks EXCEPT ![c] = Ended(@, Refused(c))]
    /\ UNCHANGED <<cudaClosed, cudaHolder, cudaCloser, pinsIntact>>

\* The copy of the executable hashed differently, or the directory or the
\* job could not be made or the directory not removed again: nothing was
\* started yet.
StartFails(c) ==
    /\ AtHead(c)
    /\ Refused(c) = "none"
    /\ cudaWaiters' = Tail(cudaWaiters)
    /\ \/ \E why \in {"identity_changed", "failed"} :
              cudaTasks' = [cudaTasks EXCEPT ![c] = Ended(@, why)]
       \/ cudaTasks' = [cudaTasks EXCEPT ![c] = DirectoryStays([@ EXCEPT !.directory = TRUE])]
    /\ UNCHANGED <<cudaClosed, cudaHolder, cudaCloser, pinsIntact>>

\* CreateProcess failed, the assignment to the job failed (the helper is
\* terminated before it ran) or the resume failed (it sits in the job).
DispatchFails(c) ==
    /\ AtHead(c)
    /\ Refused(c) = "none"
    /\ cudaWaiters' = Tail(cudaWaiters)
    /\ \E tree \in {{}, {"helper"}} :
          \E after \in Cleanup([cudaTasks[c] EXCEPT !.tree = tree, !.job = TRUE,
                                                   !.directory = TRUE], "failed") :
              cudaTasks' = [cudaTasks EXCEPT ![c] = after]
    /\ UNCHANGED <<cudaClosed, cudaHolder, cudaCloser, pinsIntact>>

Start(c) ==
    /\ AtHead(c)
    /\ Refused(c) = "none"
    /\ cudaWaiters' = Tail(cudaWaiters)
    /\ cudaHolder' = c
    /\ cudaTasks' = [cudaTasks EXCEPT ![c] =
           [@ EXCEPT !.pc = "polling", !.tree = {"helper"}, !.job = TRUE, !.directory = TRUE]]
    /\ UNCHANGED <<cudaClosed, cudaCloser, pinsIntact>>

-----------------------------------------------------------------------------
(* The polling loop. *)

Running(c) == cudaTasks[c].pc = "polling" /\ "helper" \in cudaTasks[c].tree

Timeout(c) ==
    /\ Running(c)
    /\ Leave(c, Cleanup(cudaTasks[c], "timeout"))

OutputLimit(c) ==
    /\ Running(c)
    /\ cudaTasks[c].flooded
    /\ Leave(c, Cleanup(cudaTasks[c], "output_limit"))

\* Cancellation arrives at the sleep between two polls, in which the helper
\* may have exited.
Cancel(c) ==
    /\ cudaTasks[c].pc = "polling"
    /\ Leave(c, Cleanup(cudaTasks[c], "cancelled"))

\* _result: two complete records, bound to this call where the protocol
\* binds them, sizes within the limit, and the accelerator evidence.
ResultAccepted(task) ==
    /\ task.wire = "own" \/ (~Extended /\ task.wire = "foreign")
    /\ ~task.flooded

\* The loop sees the exit code: close the job, verify the pins again, read
\* the result.
Finish(c) ==
    /\ cudaTasks[c].pc = "polling"
    /\ "helper" \notin cudaTasks[c].tree
    /\ Leave(c, Cleanup(cudaTasks[c],
             IF cudaTasks[c].exit # "zero" THEN "failed"
             ELSE IF ~pinsIntact THEN "identity_changed"
             ELSE IF ResultAccepted(cudaTasks[c]) THEN "completed" ELSE "failed"))

-----------------------------------------------------------------------------
(* The helper, its descendants and the pinned files. *)

HelperSpawns(c) ==
    /\ Running(c)
    /\ "descendant" \notin cudaTasks[c].tree
    /\ cudaTasks' = [cudaTasks EXCEPT ![c].tree = @ \cup {"descendant"}]
    /\ UNCHANGED <<cudaClosed, cudaHolder, cudaWaiters, cudaCloser, pinsIntact>>

HelperFloods(c) ==
    /\ Running(c)
    /\ ~cudaTasks[c].flooded
    /\ cudaTasks' = [cudaTasks EXCEPT ![c].flooded = TRUE]
    /\ UNCHANGED <<cudaClosed, cudaHolder, cudaWaiters, cudaCloser, pinsIntact>>

HelperExits(c) ==
    /\ Running(c)
    /\ \E exit \in {"zero", "nonzero"}, wire \in {"own", "partial", "foreign"} :
           cudaTasks' = [cudaTasks EXCEPT ![c].tree = @ \ {"helper"},
                                          ![c].exit = exit, ![c].wire = wire]
    /\ UNCHANGED <<cudaClosed, cudaHolder, cudaWaiters, cudaCloser, pinsIntact>>

\* A pinned file is replaced, or put back.
FilesChange ==
    /\ pinsIntact' = ~pinsIntact
    /\ UNCHANGED <<cudaClosed, cudaHolder, cudaWaiters, cudaTasks, cudaCloser>>

CallStep(c) ==
    \/ CancelWaiting(c) \/ Refuse(c) \/ StartFails(c) \/ DispatchFails(c) \/ Start(c)
    \/ Timeout(c) \/ OutputLimit(c) \/ Cancel(c) \/ Finish(c)

HelperStep(c) == HelperSpawns(c) \/ HelperFloods(c) \/ HelperExits(c)

Next ==
    \/ \E c \in Callers, v \in Inputs : Encode(c, v)
    \/ \E c \in Callers : CallStep(c) \/ HelperStep(c)
    \/ AskClose \/ CloseReturns \/ FilesChange

\* What the event loop does by itself, the passing of a deadline included.
Progress ==
    \/ CloseReturns
    \/ \E c \in Callers : Refuse(c) \/ StartFails(c) \/ DispatchFails(c) \/ Start(c)
                              \/ Timeout(c) \/ Finish(c)

Spec == Init /\ [][Next]_cudaVars /\ WF_cudaVars(Progress)

-----------------------------------------------------------------------------
TypeOK ==
    /\ cudaClosed \in BOOLEAN
    /\ cudaHolder \in Callers \cup {NoTask}
    /\ cudaWaiters \in Seq(Callers \cup {Closer})
    /\ cudaTasks \in [Callers -> Task]
    /\ cudaCloser \in {"idle", "queued", "done"}
    /\ pinsIntact \in BOOLEAN

\* Only a call whose job refused to become quiescent may leave a process
\* behind (_windows_job.py Job.close): every other call that ended, by
\* whatever way, has none, and its private directory is gone unless it
\* could not be removed, which the call reports as a failure.  Only the call
\* that holds the lock has a live process, so such helpers never overlap.
HelpersReaped ==
    \A c \in Callers :
        \/ cudaTasks[c].outcome = "not_quiescent"
        \/ /\ cudaTasks[c].pc = "ended" =>
                  /\ cudaTasks[c].tree = {}
                  /\ cudaTasks[c].directory => cudaTasks[c].outcome = "failed"
           /\ cudaTasks[c].tree # {} => cudaHolder = c

\* aclose "waits for reap": once it returned no helper runs and none is
\* started, whatever was queued behind it.
ClosedIsQuiet ==
    cudaCloser = "done" =>
        \A c \in Callers : cudaTasks[c].tree = {} \/ cudaTasks[c].outcome = "not_quiescent"

\* A vector is only returned for a helper that exited with zero and wrote a
\* complete, unflooded result; under the bound protocol it is its own.
AnswersBound ==
    \A c \in Callers : cudaTasks[c].outcome = "completed" =>
        /\ cudaTasks[c].exit = "zero" /\ ~cudaTasks[c].flooded
        /\ cudaTasks[c].wire \in (IF Extended THEN {"own"} ELSE {"own", "foreign"})

\* Every call that asked for the lock ends, and so does aclose, even when
\* the helper never exits.
Encoding == cudaCloser = "queued" \/ \E c \in Callers : cudaTasks[c].pc \in {"queued", "polling"}

=============================================================================
