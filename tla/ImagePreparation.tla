-------------------------- MODULE ImagePreparation --------------------------
(***************************************************************************)
(* Threads that prepare images through one ImagePreprocessor               *)
(* (src/src/mdrack/ingestion/image_preprocessing.py): the bounded cache,   *)
(* whose lock is held for one get or put and not for the preparation       *)
(* between them, and the decoder over the operating system's codec, with   *)
(* the interfaces and the temporary file it holds.                         *)
(*                                                                         *)
(* A key stands for content, revision, recipe and policy.  What decoding   *)
(* and resizing make of it is PictureGeometry's; here the picture of a key *)
(* is Size[key] bytes long, or refused when Size[key] is 0.                *)
(***************************************************************************)
EXTENDS Integers, Sequences, FiniteSets, FiniteSetsExt, SequencesExt

CONSTANTS
    Threads,     \* the threads that call prepare
    Keys,        \* the cache keys they ask for
    Size,        \* the bytes of a key's prepared picture, 0: over budget
    MaxEntries,  \* max_entries of the cache
    MaxBytes,    \* max_bytes of the cache
    MaxCalls     \* bound: calls of prepare and clear together

VARIABLES
    entries,     \* the cache's keys, the least recently used first
    bytes,       \* the cache's count of its bytes
    pc, key,     \* per thread: where its call is, and the key it asks for
    held,        \* per thread: what the decoder holds
    temps,       \* the temporary files on disk, with the fault that left one
    answer,      \* per thread: the key whose picture it returned, or an error
    calls
vars == <<entries, bytes, pc, key, held, temps, answer, calls>>

\* The stages of WindowsWicDecoder.decode with what each one leaves held.
Stages == <<"initialize", "factory", "temp", "decoder", "container", "frame",
            "size", "converter", "pixels">>
Acquires(stage) ==
    CASE stage = "initialize" -> {"com"}
      [] stage \in {"factory", "decoder", "frame", "converter"} -> {stage}
      [] stage = "temp" -> {"path"}
      [] OTHER -> {}
NextStage(stage) ==
    LET i == CHOOSE n \in DOMAIN Stages : Stages[n] = stage
    IN IF i = Len(Stages) THEN "decoded" ELSE Stages[i + 1]

\* A cache takes at least one entry and one byte.
PicturesAssumption ==
    /\ Keys # {} /\ Size \in [Keys -> Nat]
    /\ MaxEntries \in Nat \ {0} /\ MaxBytes \in Nat \ {0} /\ MaxCalls \in Nat

BytesOf(s) ==
    LET upTo[n \in 0 .. Len(s)] == IF n = 0 THEN 0 ELSE upTo[n - 1] + Size[s[n]]
    IN  upTo[Len(s)]
Without(s, k) == RemoveFirst(s, k)

Init ==
    /\ entries = <<>> /\ bytes = 0
    /\ pc = [t \in Threads |-> "idle"]
    /\ key = [t \in Threads |-> CHOOSE k \in Keys : TRUE]
    /\ held = [t \in Threads |-> {}]
    /\ temps = {}
    /\ answer = [t \in Threads |-> "none"]
    /\ calls = 0

\* The checks on content and format, cache_key, and cache.get under its lock.
Get(t) ==
    /\ pc[t] = "idle" /\ calls < MaxCalls
    /\ calls' = calls + 1
    /\ \E k \in Keys :
        /\ key' = [key EXCEPT ![t] = k]
        /\ IF k \in ToSet(entries)
           THEN /\ entries' = Append(Without(entries, k), k)
                /\ answer' = [answer EXCEPT ![t] = k]
                /\ UNCHANGED pc
           ELSE /\ pc' = [pc EXCEPT ![t] = "initialize"]
                /\ answer' = [answer EXCEPT ![t] = "none"]
                /\ UNCHANGED entries
    /\ UNCHANGED <<bytes, held, temps>>

\* One stage of the decoder succeeds.  CoInitializeEx may answer that the
\* thread runs in another mode: then there is nothing to uninitialize.
Stage(t) ==
    /\ pc[t] \in ToSet(Stages)
    /\ \/ held' = [held EXCEPT ![t] = @ \cup Acquires(pc[t])]
       \/ pc[t] = "initialize" /\ UNCHANGED held
    /\ temps' = IF pc[t] = "temp" THEN temps \cup {[by |-> t, left |-> "no"]} ELSE temps
    /\ pc' = [pc EXCEPT ![t] = NextStage(@)]
    /\ UNCHANGED <<entries, bytes, key, answer, calls>>

\* A stage fails: an HRESULT, another container, several frames, a size over
\* budget.  The temporary file exists before its bytes are written, and its
\* path is noted after: a failed write leaves it behind.
StageFails(t) ==
    /\ pc[t] \in ToSet(Stages)
    /\ \/ UNCHANGED temps
       \/ /\ pc[t] = "temp"
          /\ temps' = temps \cup {[by |-> t, left |-> "write failed"]}
    /\ pc' = [pc EXCEPT ![t] = "failed"]
    /\ UNCHANGED <<entries, bytes, key, held, answer, calls>>

Unlinked(t) == {f \in temps : f.by = t /\ f.left = "no"}

\* The finally block: everything released, the file removed if the system
\* lets it be.
Release(t) ==
    /\ pc[t] \in {"decoded", "failed"}
    /\ held' = [held EXCEPT ![t] = {}]
    /\ IF "path" \in held[t]
       THEN \/ temps' = temps \ Unlinked(t)
            \/ temps' = (temps \ Unlinked(t)) \cup {[by |-> t, left |-> "unlink failed"]}
       ELSE UNCHANGED temps
    /\ IF pc[t] = "decoded" /\ Size[key[t]] > 0
       THEN pc' = [pc EXCEPT ![t] = "put"] /\ UNCHANGED answer
       ELSE /\ pc' = [pc EXCEPT ![t] = "idle"]
            /\ answer' = [answer EXCEPT ![t] = "error"]
    /\ UNCHANGED <<entries, bytes, key, calls>>

PutUncounted(s, n, k) ==
    LET added == Append(Without(s, k), k)
        count == n + Size[k]
        drops == {d \in 0 .. Len(added) :
                    /\ Len(added) - d <= MaxEntries
                    /\ count - BytesOf(SubSeq(added, 1, d)) <= MaxBytes}
        d == IF drops = {} THEN Len(added) ELSE Min(drops)
    IN [entries |-> SubSeq(added, d + 1, Len(added)),
        bytes |-> count - BytesOf(SubSeq(added, 1, d))]

\* ImagePreparationCache.put: the key's old entry leaves, the new one comes
\* last, and the oldest entries leave until both limits hold.
PutEntry(s, n, k) ==
    LET added == Append(Without(s, k), k)
        count == n - (IF k \in ToSet(s) THEN Size[k] ELSE 0) + Size[k]
        drops == {d \in 0 .. Len(added) :
                    /\ Len(added) - d <= MaxEntries
                    /\ count - BytesOf(SubSeq(added, 1, d)) <= MaxBytes}
        d == IF drops = {} THEN Len(added) ELSE Min(drops)
    IN [entries |-> SubSeq(added, d + 1, Len(added)),
        bytes |-> count - BytesOf(SubSeq(added, 1, d))]

Put(t) ==
    /\ pc[t] = "put"
    /\ LET cache == PutEntry(entries, bytes, key[t]) IN
       /\ entries' = cache.entries
       /\ bytes' = cache.bytes
    /\ answer' = [answer EXCEPT ![t] = key[t]]
    /\ pc' = [pc EXCEPT ![t] = "idle"]
    /\ UNCHANGED <<key, held, temps, calls>>

Clear ==
    /\ calls < MaxCalls /\ calls' = calls + 1
    /\ entries' = <<>> /\ bytes' = 0
    /\ UNCHANGED <<pc, key, held, temps, answer>>

Next ==
    \/ \E t \in Threads : Get(t) \/ Stage(t) \/ StageFails(t) \/ Release(t) \/ Put(t)
    \/ Clear

Spec == Init /\ [][Next]_vars

(***************************************************************************)
(* Properties.                                                             *)
(***************************************************************************)
\* The cache counts the bytes it holds, holds each key once and stays within
\* both limits, whatever threads prepare the same image at once.
CacheCounted ==
    /\ bytes = BytesOf(entries)
    /\ Len(entries) <= MaxEntries /\ bytes <= MaxBytes
    /\ Cardinality(ToSet(entries)) = Len(entries)

\* A thread outside the decoder holds none of its interfaces, and a temporary
\* file outlives its call only when the system refused to write or remove it.
DecoderReleased ==
    /\ \A t \in Threads : pc[t] \in {"idle", "put"} => held[t] = {}
    /\ \A f \in temps : f.left = "no" => "path" \in held[f.by]

=============================================================================
