------------------------------ MODULE Ingestion ------------------------------
(***************************************************************************)
(* Media on their way into the catalog: calls that ingest a file while it  *)
(* changes, threads that prepare images, and the graphs of timed media.    *)
(* They share no state.  Here are their instances and what each of them    *)
(* promises.                                                               *)
(***************************************************************************)
EXTENDS Integers, Sequences, FiniteSets

CONSTANTS
    Callers, Contents, Ref, Requests, Nothing,
    MaxChanges, MaxCalls, MaxTokens,                    \* MediaIngestion
    Threads, Keys, Size, MaxEntries, MaxBytes,
    MaxPrepares,                                        \* ImagePreparation
    BatchRequests, Vectors, Limit, MaxSources           \* MediaBatches

VARIABLES
    file, changes, graph, token, life, uuids, calls, call, temps, tools, named,
    entries, bytes, pc, key, held, wicTemps, answer, prepares,
    batchCall, generation

Calls == INSTANCE MediaIngestion
Preparing == INSTANCE ImagePreparation WITH
    MaxCalls <- MaxPrepares, temps <- wicTemps, calls <- prepares
Batches == INSTANCE MediaBatches WITH
    Requests <- BatchRequests, call <- batchCall

callVars == <<file, changes, graph, token, life, uuids, calls, call, temps, tools, named>>
prepareVars == <<entries, bytes, pc, key, held, wicTemps, answer, prepares>>
batchVars == <<batchCall, generation>>

ASSUME IngestionAssumption ==
    /\ Calls!RequestsAssumption
    /\ Preparing!PicturesAssumption
    /\ Batches!RequestsAssumption

\* What the catalog holds was made from the bytes it names, and no call leaves
\* a copy of the file or a decoder behind (MediaIngestion).
SourcesTrue == Calls!SourcesTrue /\ Calls!NothingLeftBehind
\* Image preparation stays within its cache's limits and releases what the
\* codec gave it (ImagePreparation).
PreparationBounded == Preparing!CacheCounted /\ Preparing!DecoderReleased
\* Writes replace the graph they were prepared from and keep what others
\* added; published graphs of timed media are complete (MediaIngestion,
\* MediaBatches).
WritesComplete == [][Calls!OthersKept /\ Batches!PublishedComplete]_<<callVars, batchVars>>

\* An answer of source_changed means that nothing was written (MediaIngestion).
ChangedLeavesGraph == Calls!ChangedLeavesGraph
\* A video is never refused for the vectors of its own units (MediaBatches).
EmbeddedVideosBuilt == Batches!EmbeddedVideosBuilt

=============================================================================
