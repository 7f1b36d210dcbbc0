-------------------------------- MODULE Hosts --------------------------------
(***************************************************************************)
(* The external processes and services mdrack drives: the CUDA encoder     *)
(* host, the raw media helper, the LM Studio provider and the model        *)
(* switch.  They share no state.  Here are their instances and what each   *)
(* of them promises.                                                       *)
(***************************************************************************)
EXTENDS Naturals, Sequences, FiniteSets

CONSTANTS
    Callers, Extended, OnWindows,                                   \* CudaHost
    Revisions, SignatureOf, HeaderMs, RawOutputLimit, MaxDuration, MaxFrames,
    PipeCapacity,                                                   \* RawMedia
    Tasks, MaxTexts, BatchSize, Dimensions, Requested, Capability,
    NativeDimensions,                                               \* LMStudio
    Keys, Instances, InstanceKey, Names, ExactKey, SimilarKeys,
    DimensionOf, TextRecipe, MaxPolls                               \* ModelSwitch

VARIABLES
    cudaClosed, cudaHolder, cudaWaiters, cudaTasks, cudaCloser, pinsIntact,
    rawFile, rawCall, helper, threads, rawCatalog,
    provider, embeds,
    server, configured, bindings, switch

Cuda == INSTANCE CudaHost
Raw == INSTANCE RawMedia WITH OutputLimit <- RawOutputLimit
Lm == INSTANCE LMStudio
Switch == INSTANCE ModelSwitch

ASSUME HostsAssumption ==
    /\ Cuda!CallersAssumption
    /\ Raw!LimitAssumption
    /\ Lm!SizesAssumption
    /\ Switch!KeysAssumption

\* No helper of the CUDA host outlives or overlaps its call (CudaHost).
HelpersReaped == Cuda!HelpersReaped /\ Cuda!ClosedIsQuiet /\ Cuda!AnswersBound
\* Raw media is published from the bytes that were captured, and the call
\* leaves no file, thread or helper behind (RawMedia).
PublishedFromCapture == Raw!PublishedFromCapture /\ Raw!NothingLeftBehind
\* Vectors come back in the order of their texts and reports are true
\* (LMStudio).
VectorsInOrder == Lm!VectorsInOrder /\ Lm!HealthTruthful
\* A model switch unloads and configures in a safe order (ModelSwitch).
SwitchInOrder == [][Switch!ConfiguredStaysLoaded /\ Switch!ConfigurationFollowsIndex]_(Switch!switchVars)
\* Every encode, close, raw ingestion and switch ends.
Busy == Cuda!Encoding \/ Raw!Ingesting \/ Switch!Switching
HostCallsEnd == Busy ~> ~Busy

=============================================================================
