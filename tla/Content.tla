------------------------------- MODULE Content -------------------------------
(***************************************************************************)
(* What is kept of a content and handed on: the passages of a transcript,  *)
(* the tables of the first schema, manifests in files and the archive of   *)
(* artifacts.  They share no state.  Here are their instances and what     *)
(* each of them promises.                                                  *)
(***************************************************************************)
EXTENDS Integers, Sequences, FiniteSets

CONSTANTS
    AtomLists, TimedPolicies, Counted(_, _, _),             \* TimedGrouping
    Writers, FilePaths, TableSources, Profiles, NoProfile,
    Dimensions, MaxPrepared,                                \* IndexStorage
    Callers, Resources, Graphs, Options, Payloads,
    MaxManifest, MaxText, MaxMetadata, MaxItems, MaxDepth,
    MaxFloat, MaxCommits, MaxExchangeFaults, HeldGraphs,    \* Manifests
    Hosts, Artifacts, MaxMishaps                            \* DurableArchive

VARIABLES
    grouping,
    tables, writing, prepared,
    held, commits, dest, temps, call, mishaps,
    marker, entries, stages, left, calling, promised, archiveMishaps

Timed == INSTANCE TimedGrouping WITH Policies <- TimedPolicies
Tables == INSTANCE IndexStorage WITH Sources <- TableSources
Exchange == INSTANCE Manifests WITH MaxFaults <- MaxExchangeFaults, faults <- mishaps
Archive == INSTANCE DurableArchive

tableVars == <<tables, writing, prepared>>
manifestVars == <<held, commits, dest, temps, call, mishaps>>
archiveVars == <<marker, entries, stages, left, calling, promised, archiveMishaps>>

ASSUME ContentAssumption ==
    /\ Timed!TranscriptsAssumption
    /\ Exchange!HeldIn(HeldGraphs)
    /\ Archive!DigestsApart

\* Passages partition the transcript, and only passages marked so are beyond
\* a hard limit (TimedGrouping).
PassagesPartition == Timed!PassagesPartition
\* Whatever writers did and however they failed, files are there as a whole
\* and nothing is there without its file (IndexStorage).
TablesLinked == Tables!TablesLinked
\* What an export leaves behind is one complete manifest, and a reference
\* stands for the artifact it was given for (Manifests, DurableArchive).
FilesWhole == Exchange!ExportsComplete /\ Archive!ArchiveSound

=============================================================================
