--------------------------- MODULE DurableArchive ---------------------------
(***************************************************************************)
(* DurableArtifactStore: an archive of immutable artifacts, each under its *)
(* digest.  An artifact is staged in a directory of its call and published *)
(* by a rename that fails on an entry.  Processes share the directory, and *)
(* a marker file, which is created in place, says that it is an archive.   *)
(*                                                                         *)
(* An artifact is its digest; other bytes are Damaged.                     *)
(***************************************************************************)
EXTENDS Naturals

CONSTANTS
    Hosts,          \* the processes
    Artifacts,      \* digests
    MaxMishaps      \* bound on crashes, errors and damage

VARIABLES
    marker,         \* "absent", "partial" (empty or cut short) or "whole"
    entries,        \* digest -> the payload of its entry
    stages,         \* process -> what is in the staging directory of its call
    left,           \* how many staging directories no call owns
    calling,        \* process -> the call in progress, or its answer
    promised,       \* the references that were returned
    archiveMishaps  \* crashes, errors and damage so far

archiveVars == <<marker, entries, stages, left, calling, promised, archiveMishaps>>

Missing == "missing"
Damaged == "damaged"
Nothing == "nothing"
Refused == "refused"

\* Digests are none of the other marks.
DigestsApart == {Missing, Damaged, Nothing, Refused, "partial"} \cap Artifacts = {}

Idle == [pc |-> "idle", artifact |-> Nothing, retain |-> FALSE, provisioned |-> FALSE, answer |-> Nothing]

\* The archive is new, or was provisioned before it was shared.
Init ==
    /\ marker \in {"absent", "whole"}
    /\ entries = [a \in Artifacts |-> Missing]
    /\ stages = [h \in Hosts |-> Missing] /\ left = 0
    /\ calling = [h \in Hosts |-> Idle] /\ promised = {} /\ archiveMishaps = 0

At(h, pc) == calling[h].pc = pc
Go(h, pc) == calling' = [calling EXCEPT ![h].pc = pc]
Answer(h, answer) == calling' = [calling EXCEPT ![h].pc = "idle", ![h].answer = answer]

-----------------------------------------------------------------------------
(* _open, for retain (which creates) and for read_bytes.  A call remembers *)
(* for the properties whether it found a provisioned archive.             *)

Open(h) ==
    /\ At(h, "idle")
    /\ \E a \in Artifacts, retain \in BOOLEAN :
          LET next == IF marker # "absent" THEN "recognize" ELSE IF retain THEN "mark" ELSE "idle"
          IN  calling' = [calling EXCEPT ![h] = [pc |-> next, artifact |-> a, retain |-> retain, provisioned |-> marker = "whole",
                                                 answer |-> IF next = "idle" THEN Refused ELSE Nothing]]
    /\ UNCHANGED <<marker, entries, stages, left, promised, archiveMishaps>>

\* write_file opens with O_EXCL; whoever comes second goes on to read.
CreateMarker(h) ==
    /\ At(h, "mark")
    /\ \/ marker = "absent" /\ marker' = "partial" /\ Go(h, "marking")
       \/ marker # "absent" /\ Go(h, "recognize") /\ UNCHANGED marker
    /\ UNCHANGED <<entries, stages, left, promised, archiveMishaps>>

WriteMarker(h) ==
    /\ At(h, "marking")
    /\ marker' = "whole"
    /\ Go(h, "recognize")
    /\ UNCHANGED <<entries, stages, left, promised, archiveMishaps>>

Recognize(h) ==
    /\ At(h, "recognize")
    /\ IF marker = "whole" THEN Go(h, IF calling[h].retain THEN "look" ELSE "read") ELSE Answer(h, Refused)
    /\ UNCHANGED <<marker, entries, stages, left, promised, archiveMishaps>>

-----------------------------------------------------------------------------
(* retain *)

\* _read: the payload, if its digest is the entry's.
Read(a) == IF entries[a] = a THEN a ELSE Missing

Look(h) ==
    /\ At(h, "look")
    /\ LET a == calling[h].artifact IN
       IF entries[a] = Missing THEN Go(h, "stage") /\ UNCHANGED promised
       ELSE IF Read(a) = a THEN Answer(h, a) /\ promised' = promised \cup {a}
       ELSE Answer(h, Refused) /\ UNCHANGED promised
    /\ UNCHANGED <<marker, entries, stages, left, archiveMishaps>>

\* mkdir, then the payload and a flush.
MakeStage(h) ==
    /\ At(h, "stage")
    /\ stages' = [stages EXCEPT ![h] = "partial"]
    /\ Go(h, "write")
    /\ UNCHANGED <<marker, entries, left, promised, archiveMishaps>>
WriteStage(h) ==
    /\ At(h, "write")
    /\ stages' = [stages EXCEPT ![h] = calling[h].artifact]
    /\ Go(h, "publish")
    /\ UNCHANGED <<marker, entries, left, promised, archiveMishaps>>

\* publish: rename refuses a directory that is not empty.
Publish(h) ==
    /\ At(h, "publish")
    /\ LET a == calling[h].artifact IN
       IF entries[a] = Missing
       THEN entries' = [entries EXCEPT ![a] = stages[h]] /\ stages' = [stages EXCEPT ![h] = Missing]
       ELSE UNCHANGED <<entries, stages>>
    /\ Go(h, "reread")
    /\ UNCHANGED <<marker, left, promised, archiveMishaps>>

\* What is there is read back; the finally clause removes a stage left over.
Reread(h) ==
    /\ At(h, "reread")
    /\ LET a == calling[h].artifact IN
       IF Read(a) = a THEN Answer(h, a) /\ promised' = promised \cup {a}
       ELSE Answer(h, Refused) /\ UNCHANGED promised
    /\ stages' = [stages EXCEPT ![h] = Missing]
    /\ UNCHANGED <<marker, entries, left, archiveMishaps>>

\* read_bytes
ReadBytes(h) ==
    /\ At(h, "read")
    /\ Answer(h, IF Read(calling[h].artifact) = Missing THEN Refused ELSE Read(calling[h].artifact))
    /\ UNCHANGED <<marker, entries, stages, left, promised, archiveMishaps>>

-----------------------------------------------------------------------------
(* What goes wrong. *)

Mishap == archiveMishaps < MaxMishaps /\ archiveMishaps' = archiveMishaps + 1

\* An OSError, that of removing the stage included: the call is refused.
\* Its stage goes unless it cannot be removed; a partial marker stays.
Fails(h) ==
    /\ Mishap /\ ~At(h, "idle")
    /\ Answer(h, Refused)
    /\ left' \in IF stages[h] = Missing THEN {left} ELSE {left, left + 1}
    /\ stages' = [stages EXCEPT ![h] = Missing]
    /\ UNCHANGED <<marker, entries, promised>>

\* The process dies where it is; nobody owns its stage any more.
Dies(h) ==
    /\ Mishap /\ ~At(h, "idle")
    /\ calling' = [calling EXCEPT ![h] = Idle]
    /\ left' = IF stages[h] = Missing THEN left ELSE left + 1
    /\ stages' = [stages EXCEPT ![h] = Missing]
    /\ UNCHANGED <<marker, entries, promised>>

Damage(a) ==
    /\ Mishap /\ entries[a] = a
    /\ entries' = [entries EXCEPT ![a] = Damaged]
    /\ UNCHANGED <<marker, stages, left, calling, promised>>

Next ==
    \/ \E h \in Hosts :
          \/ Open(h) \/ CreateMarker(h) \/ WriteMarker(h) \/ Recognize(h)
          \/ Look(h) \/ MakeStage(h) \/ WriteStage(h) \/ Publish(h) \/ Reread(h) \/ ReadBytes(h)
          \/ Fails(h) \/ Dies(h)
    \/ \E a \in Artifacts : Damage(a)

Spec == Init /\ [][Next]_archiveVars

-----------------------------------------------------------------------------
(***************************************************************************)
(* A reference that retain returned can be read from then on, unless the   *)
(* file is damaged; nobody is ever given other bytes than those of the     *)
(* reference, and an entry is there as a whole or not at all, whoever      *)
(* raced or died.  A staging directory is left only by a call that died or *)
(* could not remove it, and calls do not stand in one another's way: on a  *)
(* provisioned archive (initialize) an artifact is retained unless         *)
(* something went wrong (_open, retain, read_bytes).                       *)
(***************************************************************************)
ArchiveSound ==
    /\ \A a \in promised : marker = "whole" /\ (entries[a] = a \/ (entries[a] = Damaged /\ archiveMishaps > 0))
    /\ \A a \in Artifacts : entries[a] \in {Missing, a, Damaged}
    /\ left <= archiveMishaps
    /\ \A h \in Hosts : At(h, "idle") =>
          /\ stages[h] = Missing
          /\ calling[h] # Idle =>
                LET c == calling[h] IN
                c.answer \in {c.artifact} \cup (IF c.retain /\ c.provisioned /\ archiveMishaps = 0 THEN {} ELSE {Refused})

=============================================================================
