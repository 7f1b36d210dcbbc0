----------------------------- MODULE Enrichment -----------------------------
(***************************************************************************)
(* Workers that prepare derived outputs from a captured snapshot and       *)
(* publish them through the conditional port, rebasing on what others      *)
(* published meanwhile: enrichment.publish and reindexing.publish_reindex, *)
(* as PreparedArtifactService, ReadyOCRService, ReindexService and the     *)
(* native producers call them.                                             *)
(*                                                                         *)
(* The port is the abstract one of module Publication, which ResourceStore *)
(* is shown to implement: a port call is one step.  Everything between two *)
(* port calls of a worker is local, so it is part of the step of the read  *)
(* it follows.                                                             *)
(***************************************************************************)
EXTENDS EnrichmentGraph

CONSTANTS
    Workers,
    Templates,     \* what a worker may be asked to publish
    Imports,       \* graphs an unconditional import brings
    MaxRetries,    \* the max_retries of every call, 0 to 3
    MaxTokens      \* bound: how many tokens may be issued

ASSUME MaxRetriesAssumption == MaxRetries \in 0..3

ASSUME MaxTokensAssumption == MaxTokens \in Nat

VARIABLES
    state, graph, issued,   \* the port: see Publication
    pc,        \* which port call a worker makes next
    job,       \* its PreparedEnrichment or PreparedReindex
    cur,       \* the snapshot its loop works from
    attempts,  \* conditional writes it has tried
    rebases,   \* newer snapshots it has accepted (publish_reindex)
    answer     \* what its last call returned or raised

port == <<state, graph, issued>>
vars == <<state, graph, issued, pc, job, cur, attempts, rebases, answer>>

Port == INSTANCE Publication WITH Graphs <- Graph

Snapshot == [state : StateType, graph : Graph \cup {None}]

read_snapshot(r) == [state |-> state[r], graph |-> graph[r]]

(***************************************************************************)
(* A template is the outside input of one operation.  parts: the outputs   *)
(* it supplies; remove: the slots whose artifact turned out empty; reads:  *)
(* the captured inputs of an enrichment, or the components a producer's    *)
(* other outputs are made of; gen, raw, meta: the source a producer saw.   *)
(***************************************************************************)
Part == [rev : Revisions, mat : Materials, form : Forms]

EnrichmentApis == {"prepared", "ready_ocr"}
Apis == EnrichmentApis \cup {"no_text", "producer", "image", "rescan", "reindex_file"}

Template ==
    [api : Apis, parts : [Slots -> Part \cup {None}], remove : SUBSET Slots,
     reads : SUBSET Slots, manual : BOOLEAN,
     gen : Generations, raw : Raws, meta : Metas \cup {None}]

(***************************************************************************)
(* A slot is either supplied or taken away (prepare splits its targets by  *)
(* whether the artifact has a projection for them), and what a producer    *)
(* reads are components it brings along itself.                            *)
(***************************************************************************)
ASSUME TemplatesAssumption ==
    /\ Templates \subseteq Template /\ None \notin Part
    /\ \A t \in Templates :
          /\ \A s \in t.remove : t.parts[s] = None
          /\ t.api \notin EnrichmentApis \cup {"no_text"} => \A d \in t.reads : t.parts[d] # None

ASSUME ImportsAssumption == Imports \subseteq Graph /\ \A g \in Imports : Consistent(g)

Job ==
    [api : Apis, res : Resources, src : Sources, snap : Snapshot,
     gen : Generations, raw : Raws, meta : Metas \cup {None},
     out : Outputs, legacy : SUBSET Slots, remove : SUBSET Slots,
     inputs : SUBSET Slots, owned : BOOLEAN, manual : BOOLEAN]

Targets(j) == Active(j.out) \cup j.remove

Enriches(j) == j.api \in EnrichmentApis

TypeOK ==
    /\ state \in [Resources -> StateType]
    /\ graph \in [Resources -> Graph \cup {None}]
    /\ issued \in Nat
    /\ pc \in [Workers -> {"idle", "recheck", "attempt", "reread"}]
    /\ job \in [Workers -> Job \cup {None}]
    /\ cur \in [Workers -> Snapshot \cup {None}]
    /\ attempts \in [Workers -> 0..MaxRetries]
    /\ rebases \in [Workers -> 0..MaxRetries]
    /\ answer \in [Workers -> {None, "published", "withdrawn", "already_published",
                               "already_withdrawn", "conflict", "stale"}]

Init ==
    /\ Port!Init
    /\ pc = [w \in Workers |-> "idle"]
    /\ job = [w \in Workers |-> None]
    /\ cur = [w \in Workers |-> None]
    /\ attempts = [w \in Workers |-> 0]
    /\ rebases = [w \in Workers |-> 0]
    /\ answer = [w \in Workers |-> None]

-----------------------------------------------------------------------------
(***************************************************************************)
(* Preparation, from the captured snapshot sn only.                        *)
(***************************************************************************)
\* _intent, prepare_ocr: the outputs take the captured generation and inputs.
EnrichedOut(t, g) ==
    [s \in Slots |->
        IF t.parts[s] = None THEN None
        ELSE [rev |-> t.parts[s].rev, mat |-> t.parts[s].mat, form |-> t.parts[s].form,
              gen |-> g.gen, indep |-> FALSE, manual |-> t.manual,
              dep |-> [d \in Slots |-> IF d \in t.reads THEN g.out[d].rev ELSE None]]]

\* producer_job: a whole-resource aggregate depends on the components beside it.
ProducedOut(t) ==
    [s \in Slots |->
        IF t.parts[s] = None THEN None
        ELSE [rev |-> t.parts[s].rev, mat |-> t.parts[s].mat, form |-> t.parts[s].form,
              gen |-> t.gen, indep |-> FALSE, manual |-> FALSE,
              dep |-> [d \in Slots |-> IF d \in t.reads /\ s \notin t.reads
                                       THEN t.parts[d].rev ELSE None]]]

\* capture and _source
CaptureOK(t, sn) ==
    /\ IsLive(sn.state)
    /\ sn.graph # None
    /\ StaleSource(sn.graph) = {}
    /\ t.reads \subseteq Active(sn.graph.out)

TargetsOf(t) == {s \in Slots : t.parts[s] # None} \cup t.remove

NoManualTarget(t, g) == \A s \in TargetsOf(t) : g.out[s] # None => ~g.out[s].manual

\* A label already in use names the same material.
RevisionNotReused(t, g) ==
    \A s \in Slots :
        t.parts[s] # None /\ g.out[s] # None /\ g.out[s].rev = t.parts[s].rev
            => g.out[s].mat = t.parts[s].mat

PrepareOK(t, sn) ==
    \/ /\ t.api \in EnrichmentApis \cup {"no_text"}
       /\ TargetsOf(t) # {}
       /\ CaptureOK(t, sn)
       /\ t.manual \/ NoManualTarget(t, sn.graph)
       /\ t.api = "ready_ocr" => t.reads = {}
       /\ t.api # "ready_ocr" => RevisionNotReused(t, sn.graph)
       /\ (t.remove # {}) <=> t.api = "no_text"
       /\ t.api # "no_text" => MergeOK(sn.graph, EnrichedOut(t, sn.graph))
    \/ /\ t.api \in {"producer", "image"}
       /\ t.remove = {}
       /\ sn.graph # None /\ sn.graph.gen = t.gen => NoManualTarget(t, sn.graph)
    \/ /\ t.api = "reindex_file"
       /\ t.remove = {}
       /\ IsLive(sn.state)
    \/ /\ t.api = "rescan"
       /\ TargetsOf(t) = {}
       /\ sn.graph # None /\ sn.graph.gen # t.gen /\ sn.graph.raw # t.raw

\* no_text works on the captured resource, a producer on the source it read;
\* a rescan carries the captured metadata to the source it found.
Prepared(t, r, src, sn) ==
    LET captured == t.api \in EnrichmentApis \cup {"no_text"}
    IN  [api |-> t.api, res |-> r, src |-> src, snap |-> sn,
         gen  |-> IF captured THEN sn.graph.gen ELSE t.gen,
         raw  |-> IF captured THEN sn.graph.raw ELSE t.raw,
         meta |-> IF captured \/ t.api = "rescan" THEN sn.graph.meta ELSE t.meta,
         out  |-> IF captured THEN EnrichedOut(t, sn.graph) ELSE ProducedOut(t),
         legacy |-> {}, remove |-> t.remove,
         inputs |-> IF captured THEN t.reads ELSE {},
         owned  |-> t.api \in {"producer", "image"}, manual |-> t.manual]

-----------------------------------------------------------------------------
(***************************************************************************)
(* enrichment.publish                                                      *)
(***************************************************************************)
\* Faulty variant: a changed input goes unnoticed.
FreshInputsIgnored(j, c) ==
    /\ IsLive(c.state)
    /\ c.state.life = j.snap.state.life
    /\ c.state.src = j.snap.state.src
    /\ c.graph # None
    /\ StaleSource(c.graph) = {}
    /\ c.graph.gen = j.snap.graph.gen
    /\ c.graph.raw = j.snap.graph.raw

Fresh(j, c) ==
    /\ IsLive(c.state)
    /\ c.state.life = j.snap.state.life
    /\ c.state.src = j.snap.state.src
    /\ c.graph # None
    /\ StaleSource(c.graph) = {}
    /\ c.graph.gen = j.snap.graph.gen
    /\ c.graph.raw = j.snap.graph.raw
    /\ \A d \in j.inputs :
          c.graph.out[d] # None /\ SameMaterial(j.snap.graph.out[d], c.graph.out[d])

TargetsUnchanged(j, c) == \A s \in Targets(j) : j.snap.graph.out[s] = c.graph.out[s]

EnrichmentVerdict(j, c) ==
    CASE ~Fresh(j, c) \/ ~MergeOK(c.graph, j.out) -> "stale"
      [] OTHER -> IF Merge(c.graph, j.out) = c.graph THEN "recheck"
                  ELSE IF TargetsUnchanged(j, c) THEN "attempt" ELSE "stale"

(***************************************************************************)
(* publish_reindex                                                         *)
(***************************************************************************)
LifecycleChanged(j, c) ==
    \/ c.state.life # j.snap.state.life
    \/ IsLive(c.state) # IsLive(j.snap.state)
    \/ c.state.status = "deleted" /\ c.state # j.snap.state

SourceIdentity(x) == <<x.gen, x.raw>>

\* _rebased_material: metadata the job only carried along follows the catalog.
Rebased(j, c) ==
    IF j.snap.graph # None /\ c.graph # None /\ j.meta # None /\ j.snap.graph.meta = j.meta
    THEN [j EXCEPT !.meta = c.graph.meta]
    ELSE j

Desired(j, c) == Reconcile(c.graph, Rebased(j, c))

\* A slot counts as changed unless it already is what the job wants.
TargetChanged(j, c) ==
    \E s \in Targets(j) :
        j.snap.graph.out[s] # c.graph.out[s] /\ j.out[s] # c.graph.out[s]

InputChanged(j, c) ==
    \E d \in j.inputs :
        \/ j.snap.graph.out[d] = None \/ c.graph.out[d] = None
        \/ j.snap.graph.out[d].rev # c.graph.out[d].rev

\* The job's own write, whose answer was lost, is all there.
LostResponse(j, c) ==
    /\ Creates(j)
    /\ SourceIdentity(c.graph) = SourceIdentity(j)
    /\ ReconcileOK(c.graph, Rebased(j, c))
    /\ Desired(j, c) = c.graph

MovedOn(j, c) ==
    \/ c.graph = None \/ j.snap.graph = None
    \/ SourceIdentity(c.graph) # SourceIdentity(j.snap.graph)
    \/ TargetChanged(j, c)
    \/ InputChanged(j, c)

ReindexVerdict(j, c) ==
    CASE LifecycleChanged(j, c) -> "stale"
      [] ~LifecycleChanged(j, c) /\ c # j.snap /\ MovedOn(j, c) ->
            IF /\ c.graph # None /\ j.snap.graph # None
               /\ SourceIdentity(c.graph) # SourceIdentity(j.snap.graph)
               /\ LostResponse(j, c)
            THEN "already_published" ELSE "stale"
      [] OTHER ->
            IF ~ReconcileOK(c.graph, Rebased(j, c)) THEN "stale"
            ELSE IF j.api # "image" /\ IsLive(c.state) /\ Desired(j, c) = c.graph THEN "recheck"
            ELSE IF Desired(j, c) = None /\ ~IsLive(c.state) THEN "stale" ELSE "attempt"

Verdict(j, c) == IF Enriches(j) THEN EnrichmentVerdict(j, c) ELSE ReindexVerdict(j, c)

Result(j, c) == IF Enriches(j) THEN Merge(c.graph, j.out) ELSE Desired(j, c)

-----------------------------------------------------------------------------
Finish(w, a) ==
    /\ pc' = [pc EXCEPT ![w] = "idle"]
    /\ job' = [job EXCEPT ![w] = None]
    /\ cur' = [cur EXCEPT ![w] = None]
    /\ attempts' = [attempts EXCEPT ![w] = 0]
    /\ rebases' = [rebases EXCEPT ![w] = 0]
    /\ answer' = [answer EXCEPT ![w] = a]

\* The local part of the loop, from snapshot c with k rebases behind it.
Proceed(w, j, c, k) ==
    LET v == Verdict(j, c)
    IN  IF v \in {"recheck", "attempt"}
        THEN /\ pc' = [pc EXCEPT ![w] = v]
             /\ job' = [job EXCEPT ![w] = j]
             /\ cur' = [cur EXCEPT ![w] = c]
             /\ rebases' = [rebases EXCEPT ![w] = k]
             /\ answer' = [answer EXCEPT ![w] = None]
             /\ UNCHANGED attempts
        ELSE Finish(w, v)

\* The snapshot is read before the artifact or the source is opened.
Capture(w, r, t, src) ==
    /\ pc[w] = "idle"
    /\ issued < MaxTokens
    /\ PrepareOK(t, read_snapshot(r))
    /\ IsLive(state[r]) => src = state[r].src
    /\ Proceed(w, Prepared(t, r, src, read_snapshot(r)), read_snapshot(r), 0)
    /\ UNCHANGED port

\* Faulty variant: the captured postconditions count as published.
RecheckTrusting(w) ==
    /\ pc[w] = "recheck"
    /\ Finish(w, IF cur[w].graph = None THEN "already_withdrawn" ELSE "already_published")
    /\ UNCHANGED port

(***************************************************************************)
(* Nothing to write according to cur: read again before saying so.         *)
(***************************************************************************)
Recheck(w) ==
    LET j      == job[w]
        latest == read_snapshot(j.res)
    IN  /\ pc[w] = "recheck"
        /\ \/ /\ Enriches(j)
              /\ IF Verdict(j, latest) = "recheck" THEN Finish(w, "already_published")
                 ELSE Proceed(w, j, latest, rebases[w])
           \/ /\ ~Enriches(j)
              /\ latest.state = cur[w].state
              /\ Finish(w, IF cur[w].graph = None THEN "already_withdrawn" ELSE "already_published")
           \/ /\ ~Enriches(j)
              /\ latest.state # cur[w].state
              /\ IF rebases[w] >= MaxRetries THEN Finish(w, "conflict")
                 ELSE Proceed(w, j, latest, rebases[w] + 1)
        /\ UNCHANGED port

\* The conditional write finds the state the worker expects.  The catalog
\* still refuses a source that another live resource holds.
Apply(w) ==
    LET j == job[w]
        g == Result(j, cur[w])
    IN  /\ pc[w] = "attempt"
        /\ state[j.res] = cur[w].state
        /\ IF g = None
           THEN /\ Port!Withdraw(j.res)
                /\ Finish(w, "withdrawn")
           ELSE IF PutAllowed(state, j.res, "published", j.src)
           THEN /\ Port!Move(j.res, "published", j.src, g)
                /\ Finish(w, "published")
           ELSE /\ Finish(w, "stale")
                /\ UNCHANGED port

\* max_retries conflicts are followed by a rebase, the next one ends the call.
BudgetSpent(w) ==
    IF Enriches(job[w]) THEN attempts[w] + 1 > MaxRetries ELSE rebases[w] >= MaxRetries

\* Faulty variant: a rebase is not counted.
LoseUncounted(w) ==
    /\ pc[w] = "attempt"
    /\ state[job[w].res] # cur[w].state
    /\ IF BudgetSpent(w) THEN Finish(w, "conflict")
       ELSE /\ pc' = [pc EXCEPT ![w] = "reread"]
            /\ attempts' = [attempts EXCEPT ![w] = @ + 1]
            /\ UNCHANGED <<job, cur, answer, rebases>>
    /\ UNCHANGED port

\* It finds another one.
Lose(w) ==
    /\ pc[w] = "attempt"
    /\ state[job[w].res] # cur[w].state
    /\ IF BudgetSpent(w) THEN Finish(w, "conflict")
       ELSE /\ pc' = [pc EXCEPT ![w] = "reread"]
            /\ attempts' = [attempts EXCEPT ![w] = @ + 1]
            /\ rebases' = [rebases EXCEPT ![w] = IF Enriches(job[w]) THEN @ ELSE @ + 1]
            /\ UNCHANGED <<job, cur, answer>>
    /\ UNCHANGED port

Reread(w) ==
    /\ pc[w] = "reread"
    /\ Proceed(w, job[w], read_snapshot(job[w].res), rebases[w])
    /\ UNCHANGED port

-----------------------------------------------------------------------------
(***************************************************************************)
(* The other users of the port: unconditional import, withdrawal, delete.  *)
(***************************************************************************)
Import(r) ==
    /\ issued < MaxTokens
    /\ \E src \in Sources, g \in Imports : Port!Move(r, "published", src, g)
    /\ UNCHANGED <<pc, job, cur, attempts, rebases, answer>>

Withdraw(r) ==
    /\ issued < MaxTokens
    /\ Port!Withdraw(r)
    /\ UNCHANGED <<pc, job, cur, attempts, rebases, answer>>

Delete(r) ==
    /\ issued < MaxTokens
    /\ Port!Delete(r)
    /\ UNCHANGED <<pc, job, cur, attempts, rebases, answer>>

Work(w) == Recheck(w) \/ Apply(w) \/ Lose(w) \/ Reread(w)

Next ==
    \/ \E w \in Workers :
          \/ \E r \in Resources, t \in Templates, src \in Sources : Capture(w, r, t, src)
          \/ Work(w)
    \/ \E r \in Resources : Import(r) \/ Withdraw(r) \/ Delete(r)

Spec == Init /\ [][Next]_vars

-----------------------------------------------------------------------------
(***************************************************************************)
(* Every published graph is consistent: nothing derived from an earlier    *)
(* source generation, nothing whose immediate dependency was replaced or   *)
(* removed, however the publications of the workers interleave             *)
(* (invalid_dependencies, prune_graph, merge and their freshness checks).  *)
(***************************************************************************)
GraphsConsistent == TypeOK /\ \A r \in Resources : graph[r] # None => Consistent(graph[r])

(***************************************************************************)
(* "Source/lifecycle, target, or immediate input changes reject old work": *)
(* a worker's write lands in the lifecycle it captured and, unless it is a *)
(* creation, on the source it captured, with the outputs it read still the *)
(* active ones.                                                            *)
(***************************************************************************)
OnCapturedAuthority(w) ==
    LET j == job[w]
    IN  /\ state[j.res].life = j.snap.state.life
        /\ IsLive(state[j.res]) = IsLive(j.snap.state)
        /\ j.snap.graph # None =>
              /\ graph[j.res] # None
              /\ SourceIdentity(graph[j.res]) = SourceIdentity(j.snap.graph)
              /\ \A d \in j.inputs :
                    /\ graph[j.res].out[d] # None
                    /\ graph[j.res].out[d].rev = j.snap.graph.out[d].rev
                    /\ Enriches(j) => graph[j.res].out[d].mat = j.snap.graph.out[d].mat

Wrote(w) == job[w] # None /\ answer'[w] \in {"published", "withdrawn"} /\ job'[w] = None

OldWorkRejected == [][\A w \in Workers : Wrote(w) => OnCapturedAuthority(w)]_vars

(***************************************************************************)
(* "Other native/independent projections survive": a write changes only    *)
(* the slots the worker declared and what depended, directly or not, on    *)
(* something that changed; a new source generation spares what is          *)
(* independent of the source.                                              *)
(***************************************************************************)
LostItsInput(old, new, s) ==
    \E d \in Slots : old[s].dep[d] # None /\ (new[d] = None \/ new[d] # old[d])

OutputsSurvive(j, old, new) ==
    \A s \in Active(old.out) \ Targets(j) :
        \/ new # None /\ new.out[s] = old.out[s]
        \/ j.gen # old.gen /\ ~old.out[s].indep
        \/ (new = None \/ new.out[s] = None)
              /\ LostItsInput(old.out, IF new = None THEN NoOutputs ELSE new.out, s)

(***************************************************************************)
(* "Reindex preserves ... independent metadata": a metadata value that is  *)
(* not the source's is never dropped or changed.                           *)
(***************************************************************************)
MetadataKept(old, new) == new # None => old.meta = None \/ new.meta = old.meta

(***************************************************************************)
(* "A manual active output cannot be automatically overwritten": while the *)
(* source generation stands, an automatic enrichment or producer never     *)
(* replaces or removes a manual output it targets.  A reindex file is the  *)
(* exception: the outputs it annotates itself are taken as they are.       *)
(***************************************************************************)
IsManual(g, s) == g.out[s] # None /\ g.out[s].manual

ManualAuthoritative(j, old) ==
    j.api # "reindex_file" /\ ~j.manual /\ old.gen = j.gen => \A s \in Targets(j) : ~IsManual(old, s)

(***************************************************************************)
(* What a worker writes spares all of this, whatever was published between *)
(* its capture and its write (merge, reconcile, _rebased_material).        *)
(***************************************************************************)
WritesSpare ==
    [][\A w \in Workers :
          LET j   == job[w]
              old == graph[j.res]
              new == graph'[j.res]
          IN  Wrote(w) /\ old # None =>
                 OutputsSurvive(j, old, new) /\ MetadataKept(old, new) /\ ManualAuthoritative(j, old)]_vars

(***************************************************************************)
(* A call answers "published" or "already_published" only when every slot  *)
(* it supplied is active with exactly the output it prepared, and          *)
(* "already_withdrawn" only when nothing is published.                     *)
(***************************************************************************)
Holds(j, g) ==
    g # None /\ \A s \in Slots : /\ j.out[s] # None => g.out[s] = j.out[s]
                                 /\ s \in j.remove => g.out[s] = None

AnswersTrue ==
    [][\A w \in Workers : job[w] # None /\ job'[w] = None =>
          /\ answer'[w] \in {"published", "already_published"} => Holds(job[w], graph'[job[w].res])
          /\ answer'[w] = "already_withdrawn" => graph'[job[w].res] = None]_vars

(***************************************************************************)
(* Every publish call returns, however often it loses to others: each step *)
(* of a call brings it nearer to its end, by the retries it has left and   *)
(* then by where it stands in the round, and the retries are never         *)
(* exceeded (the for loops of publish and publish_reindex).  A call runs   *)
(* by itself in its own thread, so one that always advances ends.          *)
(***************************************************************************)
RetriesLeft(w) == MaxRetries - IF Enriches(job[w]) THEN attempts[w] ELSE rebases[w]

StepsLeft(w) ==
    IF pc[w] = "idle" THEN 0
    ELSE 1 + 3 * RetriesLeft(w) + CASE pc[w] = "attempt" -> 0 [] pc[w] = "recheck" -> 1 [] pc[w] = "reread" -> 2

CallOf(w) == <<pc[w], cur[w], attempts[w], rebases[w]>>

JobsAdvance ==
    [][\A w \in Workers :
          /\ pc[w] # "idle" /\ CallOf(w)' # CallOf(w) => StepsLeft(w)' < StepsLeft(w)
          /\ pc'[w] # "idle" => StepsLeft(w)' > 0]_vars
=============================================================================
