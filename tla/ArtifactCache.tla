---------------------------- MODULE ArtifactCache ----------------------------
(***************************************************************************)
(* The artifact cache (application/artifact_cache.py over the POSIX calls  *)
(* of _artifact_cache_fs.py) and the text provider that fills it           *)
(* (integrations/providers/contracts.py).                                  *)
(*                                                                         *)
(* Several processes work on one shard of one cache root with no lock: all *)
(* they have is what the file system makes atomic.  A client's step is one *)
(* such call.  Directories have identities (Dirs): a handle keeps naming   *)
(* the directory it was opened on after another process has removed it or  *)
(* renamed a new one to its place.                                         *)
(*                                                                         *)
(* A payload stands for its own digest: metadata.json is the payload whose *)
(* digest and size it records, or Torn when it does not parse or describes *)
(* another key; a payload.bin that was cut short is Torn, and one that was *)
(* altered and still looks like a text is Flipped.                         *)
(***************************************************************************)
EXTENDS Naturals, Sequences, FiniteSets, TLC

CONSTANTS Clients,      \* processes: text providers, other producers, the CLI
          Keys,         \* the artifact keys whose entries share the shard
          Texts,        \* what a provider may answer, encoded as a payload
          Junk,         \* a payload of another producer no provider can decode
          Dirs,         \* identities of entry and temporary directories
          None, NoFile,
          Torn,         \* a file that does not parse
          Flipped,      \* altered bytes that still parse as a provider's text
          Ops,          \* the calls clients repeat: generate, put
          Faults,       \* the disturbances met: crash, write, damage, purge
          InitMarker,   \* "absent" for a new root, "ok" for one in use
          MaxRetries,   \* OptionalTextProvider.max_retries
          MemCap,       \* OptionalTextProvider.max_cache_entries
          MaxFaults     \* bound on how many kinds of disturbance one behaviour meets

ASSUME BoundsAssumption == MaxRetries \in Nat /\ MemCap \in Nat /\ MaxFaults \in Nat
ASSUME MarkerAssumption == InitMarker \in {"absent", "ok"}

VARIABLES marker,     \* the marker file of the cache root
          shard,      \* does the shard directory exist
          entry,      \* entry[k]: the directory named by k's digest in the shard
          temps,      \* directories under a .tmp- name in the shard
          files,      \* files[d]: metadata.json and payload.bin of directory d
          me,         \* me[c]: where client c is in the call it executes
          mem,        \* mem[c]: the process-local cache of provider c, oldest first
          produced,   \* history: the <<key, payload>> pairs given to store
          answers,    \* history: the <<key, text>> pairs generate returned
          met         \* the kinds of disturbance so far, each at most once

vars == <<marker, shard, entry, temps, files, me, mem, produced, answers, met>>
disk == <<marker, shard, entry, temps, files>>
history == <<mem, produced, answers>>

Payloads == Texts \cup {Junk}
Lookups == {"first", "pre", "again"}
NoFiles == [meta |-> NoFile, payload |-> NoFile]
Idle == [pc |-> "idle", op |-> "none", key |-> None, text |-> None, task |-> "none",
         fd |-> "none", dir |-> None, sum |-> None, at |-> None, kids |-> {},
         todo |-> {}, temp |-> None, fate |-> "none", tries |-> 0]

\* Digests, .tmp- names and contents of files are told apart.
ASSUME NamesAssumption ==
    /\ Keys \cap Dirs = {} /\ None \notin Keys \cup Dirs \cup Payloads
    /\ {NoFile, Torn, Flipped} \cap Payloads = {}

Steps == {"idle", "root", "shard", "stat", "open", "meta", "payload", "rmOpen", "rmKids",
          "rmShard", "own", "mkMarker", "wrMarker", "mkShard", "opShard", "mkTemp",
          "wrPayload", "wrMeta", "publish", "call", "return", "purge", "purgeList",
          "purgeNext"}

\* Where a client is in the call it executes, and with what.
Client == [pc : Steps, op : {"none", "generate", "put", "purge"}, key : Keys \cup {None},
           text : Payloads \cup {None},
           task : Lookups \cup {"none", "discard", "collide", "cleanup", "purge"},
           fd : {"none", "live", "dead"}, dir : Dirs \cup {None},
           sum : Payloads \cup {None}, at : Keys \cup Dirs \cup {None},
           kids : SUBSET {"meta", "payload"}, todo : SUBSET (Keys \cup Dirs),
           temp : Dirs \cup {None}, fate : {"none", "exists", "error"},
           tries : 0 .. MaxRetries]

Files == [meta : Payloads \cup {NoFile, Torn}, payload : Payloads \cup {NoFile, Torn, Flipped}]

\* The files of a client's state, the shard and the entries have their types.
TypeOK ==
    /\ marker \in {"absent", "partial", "ok"}
    /\ shard \in BOOLEAN
    /\ entry \in [Keys -> Dirs \cup {None}]
    /\ temps \subseteq Dirs
    /\ files \in [Dirs -> Files]
    /\ me \in [Clients -> Client]
    /\ mem \in [Clients -> Seq(Keys \X Texts)]
    /\ \A c \in Clients : Len(mem[c]) <= MemCap
    /\ produced \subseteq Keys \X Payloads
    /\ answers \subseteq Keys \X Texts
    /\ met \subseteq Faults /\ Cardinality(met) <= MaxFaults

Init ==
    /\ marker = InitMarker
    /\ shard = FALSE
    /\ entry = [k \in Keys |-> None]
    /\ temps = {}
    /\ files = [d \in Dirs |-> NoFiles]
    /\ me = [c \in Clients |-> Idle]
    /\ mem = [c \in Clients |-> <<>>]
    /\ produced = {}
    /\ answers = {}
    /\ met = {}

-----------------------------------------------------------------------------
(* What the directories hold, and the names a client resolves.             *)

\* metadata.json parses and describes the bytes of payload.bin.
IsValid(d) == files[d].meta \in Payloads /\ files[d].payload = files[d].meta

ValidAt(k) == entry[k] # None /\ IsValid(entry[k])

\* _decode_cached_text and the length check of generate accept the payload.
Decodes(p) == p \in Texts \cup {Flipped}

Names == {k \in Keys : entry[k] # None} \cup temps

Children(d) == {f \in {"meta", "payload"} : files[d][f] # NoFile}

\* The directory a name denotes, seen through the client's shard handle.
Resolve(c, name) ==
    IF me[c].fd # "live" THEN None
    ELSE IF name \in Keys THEN entry[name]
    ELSE IF name \in temps THEN name ELSE None

\* mkdir makes a directory no name and no handle refers to.
Fresh(d) == /\ d \notin temps
            /\ \A k \in Keys : entry[k] # d
            /\ \A c \in Clients : d # me[c].dir /\ d # me[c].temp

\* _put_cache: newest last, the oldest entry dropped beyond the limit.
Without(m, k) ==
    IF \E i \in 1 .. Len(m) : m[i][1] = k
    THEN LET i == CHOOSE i \in 1 .. Len(m) : m[i][1] = k
         IN  SubSeq(m, 1, i - 1) \o SubSeq(m, i + 1, Len(m))
    ELSE m

PutCache(m, k, t) ==
    LET grown == Append(Without(m, k), <<k, t>>)
    IN  IF MemCap = 0 THEN m ELSE IF Len(grown) > MemCap THEN Tail(grown) ELSE grown

Cached(c, k) == {mem[c][i][2] : i \in {j \in 1 .. Len(mem[c]) : mem[c][j][1] = k}}

-----------------------------------------------------------------------------
(* Control: where a call continues once a part of it is done.              *)

At(c, l) == me[c].pc = l
Go(c, l) == me' = [me EXCEPT ![c].pc = l]
Become(c, r) == me' = [me EXCEPT ![c] = r]

\* The call raises: every handle is closed and the caller is free.
Fail(c) == Become(c, Idle)

Disturb(kind) == /\ kind \in Faults \ met /\ Cardinality(met) < MaxFaults
                 /\ met' = met \cup {kind}

Close(r) == [r EXCEPT !.fd = "none", !.dir = None, !.sum = None, !.at = None, !.kids = {},
                      !.temp = None, !.fate = "none"]

Lookup(r, task) == [Close(r) EXCEPT !.pc = "root", !.task = task]

\* Faulty variant: generate keeps its own text when another producer's was there first.
StoredKeepsOwn(r, state) ==
    IF r.op = "put" THEN Idle ELSE [Close(r) EXCEPT !.pc = "return"]

\* store returned: the producer is done, generate reads the winner or answers.
Stored(r, state) ==
    IF r.op = "put" THEN Idle
    ELSE IF state = "exists" THEN Lookup(r, "again")
    ELSE [Close(r) EXCEPT !.pc = "return"]

\* lookup returned no payload.
Missed(r) ==
    CASE r.task = "pre" -> [Close(r) EXCEPT !.pc = "own"]
      [] r.task = "again" -> [Close(r) EXCEPT !.pc = "return"]
      [] OTHER -> [Close(r) EXCEPT !.pc = "call"]

\* store leaves through its finally clause, which removes its temporary directory.
Cleanup(r, fate) ==
    [r EXCEPT !.pc = "rmOpen", !.task = "cleanup", !.at = r.temp, !.dir = None,
              !.fate = fate]

\* An entry was read and is the payload p.
Found(r, p) ==
    IF r.task = "collide" THEN Cleanup(r, "exists")
    ELSE IF r.task = "pre" THEN Stored(r, "exists")
    ELSE IF Decodes(p) THEN [Close(r) EXCEPT !.pc = "return", !.text = p]
    ELSE IF r.task = "again" THEN [Close(r) EXCEPT !.pc = "return"]
    ELSE Lookup(r, "discard")

\* Faulty variant: a publication that meets an unreadable entry is tried again, without limit.
UnreadableRetries(r) ==
    IF r.task = "collide" THEN [r EXCEPT !.pc = "publish", !.dir = None, !.sum = None]
    ELSE [r EXCEPT !.pc = "rmOpen", !.at = r.key, !.dir = None, !.sum = None]

\* An entry cannot be read as a valid one: lookup discards it, a collision raises.
Unreadable(r) ==
    IF r.task = "collide" THEN Cleanup(r, "error")
    ELSE [r EXCEPT !.pc = "rmOpen", !.at = r.key, !.dir = None, !.sum = None]

-----------------------------------------------------------------------------
(* OptionalTextProvider.generate, another producer's store, cache purge.   *)

Generate(c, k) ==
    /\ "generate" \in Ops /\ At(c, "idle")
    /\ IF Cached(c, k) # {}
       THEN /\ \E t \in Cached(c, k) : /\ mem' = [mem EXCEPT ![c] = PutCache(mem[c], k, t)]
                                       /\ answers' = answers \cup {<<k, t>>}
            /\ UNCHANGED me
       ELSE /\ Become(c, [Idle EXCEPT !.op = "generate", !.key = k, !.pc = "root",
                                      !.task = "first"])
            /\ UNCHANGED <<mem, answers>>
    /\ UNCHANGED <<disk, produced, met>>

\* The transport answers, or fails in a way that may be retried or not.
Call(c) ==
    /\ At(c, "call")
    /\ \/ \E t \in Texts :
            /\ mem' = [mem EXCEPT ![c] = PutCache(mem[c], me[c].key, t)]
            /\ produced' = produced \cup {<<me[c].key, t>>}
            /\ Become(c, [Lookup(me[c], "pre") EXCEPT !.text = t])
       \/ /\ \/ me[c].tries < MaxRetries /\ me' = [me EXCEPT ![c].tries = @ + 1]
             \/ Fail(c)
          /\ UNCHANGED <<mem, produced>>
    /\ UNCHANGED <<disk, answers, met>>

Return(c) ==
    /\ At(c, "return")
    /\ mem' = [mem EXCEPT ![c] = PutCache(mem[c], me[c].key, me[c].text)]
    /\ answers' = answers \cup {<<me[c].key, me[c].text>>}
    /\ Become(c, Idle)
    /\ UNCHANGED <<disk, produced, met>>

Put(c, k) ==
    /\ "put" \in Ops /\ At(c, "idle")
    /\ Become(c, [Idle EXCEPT !.op = "put", !.key = k, !.text = Junk, !.pc = "root",
                              !.task = "pre"])
    /\ produced' = produced \cup {<<k, Junk>>}
    /\ UNCHANGED <<disk, mem, answers, met>>

Purge(c) ==
    /\ Disturb("purge") /\ At(c, "idle")
    /\ Become(c, [Idle EXCEPT !.op = "purge", !.pc = "purge", !.task = "purge"])
    /\ UNCHANGED <<disk, history>>

-----------------------------------------------------------------------------
(* lookup and discard, up to the entry's directory.                        *)

\* _validate_root: an unmarked root is an empty cache, a half-written marker an error.
ValidateRoot(c) ==
    /\ At(c, "root")
    /\ CASE marker = "ok" -> Go(c, "shard")
         [] marker = "partial" -> Fail(c)
         [] OTHER -> Become(c, Missed(me[c]))
    /\ UNCHANGED <<disk, history, met>>

\* discard opens the shard outside the clause that forgives a missing entry.
OpenShard(c) ==
    /\ At(c, "shard")
    /\ LET discard == me[c].task = "discard" IN
       CASE shard /\ discard ->
              Become(c, [me[c] EXCEPT !.fd = "live", !.pc = "rmOpen", !.at = me[c].key])
         [] shard /\ ~discard -> me' = [me EXCEPT ![c].fd = "live", ![c].pc = "stat"]
         [] ~shard /\ discard -> Fail(c)
         [] ~shard /\ ~discard -> Become(c, Missed(me[c]))
    /\ UNCHANGED <<disk, history, met>>

StatEntry(c) ==
    /\ At(c, "stat")
    /\ IF Resolve(c, me[c].key) = None THEN Become(c, Missed(me[c])) ELSE Go(c, "open")
    /\ UNCHANGED <<disk, history, met>>

(* _read_valid_entry_at, for lookup and for the loser of a publication.    *)
OpenEntry(c) ==
    /\ At(c, "open")
    /\ LET d == Resolve(c, me[c].key) IN
       IF d = None THEN Become(c, Unreadable(me[c]))
       ELSE me' = [me EXCEPT ![c].dir = d, ![c].pc = "meta"]
    /\ UNCHANGED <<disk, history, met>>

ReadMetadata(c) ==
    /\ At(c, "meta")
    /\ LET sum == files[me[c].dir].meta IN
       IF sum \in Payloads THEN me' = [me EXCEPT ![c].sum = sum, ![c].pc = "payload"]
       ELSE Become(c, Unreadable(me[c]))
    /\ UNCHANGED <<disk, history, met>>

\* Faulty variant: the payload's digest is not compared with the metadata.
ReadPayloadUnchecked(c) ==
    /\ At(c, "payload")
    /\ LET p == files[me[c].dir].payload IN
       Become(c, IF p # NoFile THEN Found(me[c], p) ELSE Unreadable(me[c]))
    /\ UNCHANGED <<disk, history, met>>

ReadPayload(c) ==
    /\ At(c, "payload")
    /\ Become(c, IF files[me[c].dir].payload = me[c].sum THEN Found(me[c], me[c].sum)
                 ELSE Unreadable(me[c]))
    /\ UNCHANGED <<disk, history, met>>

-----------------------------------------------------------------------------
(* remove_tree on the name me[c].at, and what its callers make of failures. *)

RemovedTree(r) ==
    CASE r.task = "cleanup" -> IF r.fate = "exists" THEN Stored(r, "exists") ELSE Idle
      [] r.task = "purge" -> [r EXCEPT !.pc = "purgeNext", !.dir = None, !.at = None]
      [] OTHER -> [r EXCEPT !.pc = "rmShard", !.dir = None]

\* FileNotFoundError: forgiven by discard and by the clean-up of store only.
VanishedTree(r) ==
    CASE r.task = "cleanup" -> RemovedTree(r)
      [] r.task = "discard" -> Missed(r)
      [] OTHER -> Idle

RemoveOpen(c) ==
    /\ At(c, "rmOpen")
    /\ LET d == Resolve(c, me[c].at) IN
       IF d = None THEN Become(c, VanishedTree(me[c]))
       ELSE me' = [me EXCEPT ![c].dir = d, ![c].kids = Children(d), ![c].pc = "rmKids"]
    /\ UNCHANGED <<disk, history, met>>

RemoveChild(c) ==
    /\ At(c, "rmKids")
    /\ \E f \in me[c].kids :
         IF files[me[c].dir][f] = NoFile
         THEN Become(c, VanishedTree(me[c])) /\ UNCHANGED files
         ELSE /\ files' = [files EXCEPT ![me[c].dir][f] = NoFile]
              /\ me' = [me EXCEPT ![c].kids = @ \ {f}]
    /\ UNCHANGED <<marker, shard, entry, temps, history, met>>

\* rmdir goes by name: another process may have put a directory in the place.
RemoveDirectory(c) ==
    /\ At(c, "rmKids") /\ me[c].kids = {}
    /\ LET d == Resolve(c, me[c].at) IN
       CASE d = None -> Become(c, VanishedTree(me[c])) /\ UNCHANGED <<entry, temps>>
         [] d # None /\ Children(d) # {} -> Fail(c) /\ UNCHANGED <<entry, temps>>
         [] OTHER -> /\ Become(c, RemovedTree(me[c]))
                     /\ entry' = [k \in Keys |-> IF k = me[c].at THEN None ELSE entry[k]]
                     /\ temps' = temps \ {me[c].at}
    /\ UNCHANGED <<marker, shard, files, history, met>>

\* Handles on a removed shard stay open and see an empty directory.
DropShard(who, r) ==
    /\ shard' = FALSE
    /\ me' = [c \in Clients |-> IF c = who THEN r
                                ELSE IF me[c].fd = "live" THEN [me[c] EXCEPT !.fd = "dead"]
                                ELSE me[c]]

RemoveEmptyShard(c) ==
    /\ At(c, "rmShard")
    /\ IF shard /\ Names = {} THEN DropShard(c, Missed(me[c]))
       ELSE Become(c, Missed(me[c])) /\ UNCHANGED shard
    /\ UNCHANGED <<marker, entry, temps, files, history, met>>

-----------------------------------------------------------------------------
(* store, once its lookup has found no valid entry.                        *)

EnsureOwnedRoot(c) ==
    /\ At(c, "own")
    /\ CASE marker = "ok" -> Go(c, "mkShard")
         [] marker = "partial" -> Fail(c)
         [] OTHER -> Go(c, "mkMarker")
    /\ UNCHANGED <<disk, history, met>>

\* O_CREAT | O_EXCL: of two first stores the slower one raises.
CreateMarker(c) ==
    /\ At(c, "mkMarker")
    /\ IF marker = "absent" THEN marker' = "partial" /\ Go(c, "wrMarker")
       ELSE Fail(c) /\ UNCHANGED marker
    /\ UNCHANGED <<shard, entry, temps, files, history, met>>

WriteMarker(c) ==
    /\ At(c, "wrMarker")
    /\ marker' = "ok"
    /\ Go(c, "mkShard")
    /\ UNCHANGED <<shard, entry, temps, files, history, met>>

MakeShard(c) ==
    /\ At(c, "mkShard")
    /\ shard' = TRUE
    /\ Go(c, "opShard")
    /\ UNCHANGED <<marker, entry, temps, files, history, met>>

AcquireShard(c) ==
    /\ At(c, "opShard")
    /\ IF shard THEN me' = [me EXCEPT ![c].fd = "live", ![c].pc = "mkTemp"] ELSE Fail(c)
    /\ UNCHANGED <<disk, history, met>>

MakeTemp(c) ==
    /\ At(c, "mkTemp")
    /\ \/ /\ me[c].fd = "live"
          /\ \E d \in {x \in Dirs : Fresh(x)} :
               /\ temps' = temps \cup {d}
               /\ files' = [files EXCEPT ![d] = NoFiles]
               /\ me' = [me EXCEPT ![c].temp = d, ![c].pc = "wrPayload"]
       \/ me[c].fd = "dead" /\ Fail(c) /\ UNCHANGED <<temps, files>>
    /\ UNCHANGED <<marker, shard, entry, history, met>>

\* A write into the temporary directory fails if another process removed it.
WriteFile(c, here, file, next) ==
    /\ At(c, here)
    /\ IF me[c].temp \in temps
       THEN /\ files' = [files EXCEPT ![me[c].temp][file] = me[c].text]
            /\ Go(c, next)
       ELSE Become(c, Cleanup(me[c], "error")) /\ UNCHANGED files
    /\ UNCHANGED <<marker, shard, entry, temps, history, met>>

WritePayload(c) == WriteFile(c, "wrPayload", "payload", "wrMeta")
WriteMetadata(c) == WriteFile(c, "wrMeta", "meta", "publish")

\* The disk refuses a write part of the way.
WriteFails(c) ==
    /\ Disturb("write")
    /\ me[c].temp \in temps
    /\ \E w \in {<<"wrPayload", "payload">>, <<"wrMeta", "meta">>} :
         /\ At(c, w[1])
         /\ files' = [files EXCEPT ![me[c].temp][w[2]] = Torn]
    /\ Become(c, Cleanup(me[c], "error"))
    /\ UNCHANGED <<marker, shard, entry, temps, history>>

\* Faulty variant: the publication replaces whatever is there.
CanRenameOver(c) == me[c].temp \in temps /\ me[c].fd = "live"

\* rename replaces no directory but an empty one.
CanRename(c) ==
    LET d == Resolve(c, me[c].key)
    IN  me[c].temp \in temps /\ me[c].fd = "live" /\ (d = None \/ Children(d) = {})

Publish(c) ==
    /\ At(c, "publish")
    /\ IF CanRename(c)
       THEN /\ entry' = [entry EXCEPT ![me[c].key] = me[c].temp]
            /\ temps' = temps \ {me[c].temp}
            /\ Become(c, Stored([me[c] EXCEPT !.temp = None], "stored"))
       ELSE /\ me' = [me EXCEPT ![c].task = "collide", ![c].pc = "open"]
            /\ UNCHANGED <<entry, temps>>
    /\ UNCHANGED <<marker, shard, files, history, met>>

-----------------------------------------------------------------------------
(* purge: the structure it accepts is the one the other operations write.  *)

PurgeRoot(c) ==
    /\ At(c, "purge")
    /\ IF marker = "ok" /\ shard THEN Go(c, "purgeList") ELSE Become(c, Idle)
    /\ UNCHANGED <<disk, history, met>>

PurgeList(c) ==
    /\ At(c, "purgeList")
    /\ IF shard THEN me' = [me EXCEPT ![c].fd = "live", ![c].todo = Names, ![c].pc = "purgeNext"]
       ELSE Fail(c)
    /\ UNCHANGED <<disk, history, met>>

PurgeEntry(c) ==
    /\ At(c, "purgeNext")
    /\ \E x \in me[c].todo :
         Become(c, [me[c] EXCEPT !.todo = @ \ {x}, !.at = x, !.pc = "rmOpen"])
    /\ UNCHANGED <<disk, history, met>>

PurgeShard(c) ==
    /\ At(c, "purgeNext") /\ me[c].todo = {}
    /\ IF shard /\ Names = {} THEN DropShard(c, Idle) ELSE Fail(c) /\ UNCHANGED shard
    /\ UNCHANGED <<marker, entry, temps, files, history, met>>

-----------------------------------------------------------------------------
(* The environment: a process dies, a file is damaged.                     *)

Crash(c) ==
    /\ Disturb("crash") /\ ~At(c, "idle")
    /\ Become(c, Idle)
    /\ mem' = [mem EXCEPT ![c] = <<>>]
    /\ UNCHANGED <<disk, produced, answers>>

Damage(k) ==
    /\ Disturb("damage") /\ entry[k] # None
    /\ \E f \in Children(entry[k]) :
         \E v \in {Torn, NoFile} \cup (IF f = "payload" THEN {Flipped} ELSE {}) :
           files' = [files EXCEPT ![entry[k]][f] = v]
    /\ UNCHANGED <<marker, shard, entry, temps, me, history>>

Read(c) == \/ ValidateRoot(c) \/ OpenShard(c) \/ StatEntry(c) \/ OpenEntry(c)
           \/ ReadMetadata(c) \/ ReadPayload(c)

Remove(c) == RemoveOpen(c) \/ RemoveChild(c) \/ RemoveDirectory(c) \/ RemoveEmptyShard(c)

Store(c) == \/ EnsureOwnedRoot(c) \/ CreateMarker(c) \/ WriteMarker(c) \/ MakeShard(c)
            \/ AcquireShard(c) \/ MakeTemp(c) \/ WritePayload(c) \/ WriteMetadata(c)
            \/ Publish(c)

PurgeStep(c) == PurgeRoot(c) \/ PurgeList(c) \/ PurgeEntry(c) \/ PurgeShard(c)

\* A client that is in a call carries on with it.
Work(c) == Call(c) \/ Return(c) \/ Read(c) \/ Remove(c) \/ Store(c) \/ PurgeStep(c)

Next == \/ \E c \in Clients : \/ Work(c) \/ WriteFails(c) \/ Crash(c) \/ Purge(c)
                              \/ \E k \in Keys : Generate(c, k) \/ Put(c, k)
        \/ \E k \in Keys : Damage(k)

Spec == Init /\ [][Next]_vars

\* A call runs synchronously to its end in its own process; the transport has a timeout.
FairSpec == Spec /\ \A c \in Clients : WF_vars(Work(c))

-----------------------------------------------------------------------------
(* Properties.                                                             *)

\* generate never answers with bytes nobody produced for that very key: whatever is torn,
\* half removed, replaced under a reader or damaged, the digest check of lookup keeps it out
\* of the answers and out of the process-local caches.
AnswersProduced ==
    /\ answers \subseteq produced
    /\ \A c \in Clients : \A i \in 1 .. Len(mem[c]) : mem[c][i] \in produced

\* A valid entry is never overwritten ("Storage and immutability"): no step puts another
\* directory in its place or other bytes in its files; it can only be taken apart by a
\* removal (or damaged), and then no longer counts as valid.
EntriesImmutable ==
    [][\A k \in Keys : ValidAt(k) =>
         /\ entry'[k] = entry[k]
         /\ \A f \in {"meta", "payload"} :
              files'[entry[k]][f] \in {files[entry[k]][f], NoFile, Torn, Flipped}]_vars

\* store leaves no temporary directory behind, whether it publishes, loses a race to another
\* producer or meets a write error: unless a process died or a purge took the directory apart
\* at the same time, every .tmp- directory belongs to a store in progress.
NoOrphanTemps ==
    met \cap {"crash", "purge"} = {} => \A d \in temps : \E c \in Clients : me[c].temp = d

\* What the cache holds and what it leaves on the disk, after any interleaving (store, lookup).
CacheSound == TypeOK /\ AnswersProduced /\ NoOrphanTemps

\* The durable winner is everybody's answer: on a root in use, providers that race on the
\* same key return one text, also from their process-local caches, although each may have
\* been given a different one by its model, as long as no entry was damaged or purged, and
\* no other producer left under the key what a provider cannot decode: of two providers
\* that discard such an entry, the second may discard what the first has put in its place.
OneAnswer ==
    InitMarker = "ok" /\ met = {} /\ "put" \notin Ops =>
    LET known == answers \cup UNION {{mem[c][i] : i \in 1 .. Len(mem[c])} :
                                      c \in {x \in Clients : At(x, "idle")}}
    IN  \A a, b \in known : a[1] = b[1] => a[2] = b[2]

\* Every call ends, whatever the other processes remove, publish or purge meanwhile.
CallsEnd == \A c \in Clients : ~At(c, "idle") ~> At(c, "idle")

\* What the contract says of recovery: a lookup removes only an entry that is not valid.
DiscardsOnlyCorrupt ==
    [][\A c \in Clients :
         (/\ At(c, "rmOpen") /\ me[c].task \in Lookups
          /\ me'[c].pc = "rmKids") => ~IsValid(me'[c].dir)]_vars

\* For TLC: directories are interchangeable names, and so are the texts.
Symmetry == Permutations(Dirs) \cup Permutations(Texts)
=============================================================================
