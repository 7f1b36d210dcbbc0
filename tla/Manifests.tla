------------------------------ MODULE Manifests ------------------------------
(***************************************************************************)
(* The prepared-resource manifest (mdrack.application.manifest) and the    *)
(* catalog facade around it (mdrack.application.resource_catalog): a graph *)
(* is projected, validated, encoded and linked to a file that must not     *)
(* exist; a payload is decoded, canonicalized, validated and published.    *)
(*                                                                         *)
(* A text is its number of bytes: NoText for None, 0 for a blank one.      *)
(* Identifiers, namespaces and producers are numbers, 0 for no producer.   *)
(***************************************************************************)
EXTENDS Integers, Sequences, FiniteSets, SequencesExt

CONSTANTS
    Callers, Resources,
    Graphs,         \* the graphs other applications publish
    Options,        \* [vectors, text, redact], the flags of an export
    Payloads,       \* payloads from elsewhere
    MaxManifest, MaxText, MaxMetadata, MaxItems, MaxDepth,   \* the limits of the format
    MaxFloat,       \* the largest float32
    MaxCommits, MaxFaults   \* bounds

VARIABLES
    held,     \* for each resource, whether it is live and its graph, or None
    commits,  \* how many writes the catalog has taken
    dest,     \* the destination of the exports: None or what was linked there
    temps,    \* the temporary file of each caller, as the bytes written
    call, faults

manifestVars == <<held, commits, dest, temps, call, faults>>

None == <<>>
NoText == -1
Sections == <<"resource", "representations", "units", "spaces", "vectors", "facets">>

-----------------------------------------------------------------------------
(* Graphs. *)

HasText(unit) == unit.text > 0

Ids(items) == {items[i].id : i \in DOMAIN items}
Distinct(items, Key(_)) == \A i, j \in DOMAIN items : Key(items[i]) = Key(items[j]) => i = j
FacetKey(f) == <<f.namespace, f.value, f.origin, f.producer>>
VectorKey(v) == <<v.unit, v.space>>

\* validate_prepared_batch
Valid(b) ==
    LET Id(item) == item.id IN
    /\ b.representations # <<>> /\ b.units # <<>>
    /\ Distinct(b.representations, Id) /\ Distinct(b.units, Id) /\ Distinct(b.spaces, Id)
    /\ Distinct(b.vectors, VectorKey) /\ Distinct(b.facets, FacetKey)
    /\ {b.units[i].representation : i \in DOMAIN b.units} = Ids(b.representations)
    /\ \A i \in DOMAIN b.vectors :
          LET v == b.vectors[i] IN
          /\ v.unit \in Ids(b.units)
          /\ \E j \in DOMAIN b.spaces : b.spaces[j].id = v.space /\ b.spaces[j].dimensions = Len(v.values)
          /\ \E k \in DOMAIN v.values : v.values[k] # 0
    /\ \A i \in DOMAIN b.units :
          HasText(b.units[i]) \/ \E j \in DOMAIN b.vectors : b.vectors[j].unit = b.units[i].id

\* The float32 nearest to a number: the even ones, 1 being too small for any.
Float32(v) == v - (v % 2)

\* canonicalize_for_space; a policy without its codec, or the reverse, is refused.
PolicyKnown(space) == space.policy = space.codec /\ space.policy \in {"none", "float32"}
CanonicalValues(values, space) ==
    IF space.policy = "float32" THEN [i \in DOMAIN values |-> Float32(values[i])] ELSE values

SpaceOf(b, v) == CHOOSE s \in Range(b.spaces) : s.id = v.space
Canonicalizable(b) ==
    \A v \in Range(b.vectors) :
       /\ v.space \in Ids(b.spaces)
       /\ PolicyKnown(SpaceOf(b, v))
       /\ SpaceOf(b, v).policy = "float32" => \A i \in DOMAIN v.values : v.values[i] <= MaxFloat
Canonical(b) ==
    [b EXCEPT !.vectors = [i \in DOMAIN @ |-> [@[i] EXCEPT !.values = CanonicalValues(@, SpaceOf(b, b.vectors[i]))]]]

-----------------------------------------------------------------------------
(* Encoding. *)

\* _project_export_batch
Projected(b, o) ==
    LET Bare(items) == IF o.text THEN items ELSE [i \in DOMAIN items |-> [items[i] EXCEPT !.text = NoText]] IN
    [b EXCEPT !.resource = [@ EXCEPT !.title = IF o.text THEN @ ELSE NoText, !.source = IF o.redact THEN 0 ELSE @],
              !.representations = Bare(@), !.units = Bare(@),
              !.spaces = IF o.vectors THEN @ ELSE <<>>, !.vectors = IF o.vectors THEN @ ELSE <<>>]

Precedes(k, l) == \E i \in DOMAIN k : k[i] < l[i] /\ \A j \in 1 .. i - 1 : k[j] = l[j]
Sorted(items, Key(_)) == SortSeq(items, LAMBDA x, y : Precedes(Key(x), Key(y)))

\* _manifest_value: every collection in the order of its keys.
ManifestValue(b) ==
    LET Id(item) == <<item.id>>
        UnitKey(u) == <<u.representation, u.ordinal, u.id>>
    IN  [b EXCEPT !.representations = Sorted(@, Id), !.units = Sorted(@, UnitKey), !.spaces = Sorted(@, Id),
                  !.vectors = Sorted(@, VectorKey), !.facets = Sorted(@, FacetKey)]

Bytes(text) == IF text = NoText THEN 0 ELSE text
TextBytes(items) == FoldLeft(LAMBDA n, item : n + Bytes(item.text), 0, items)
MetadataBytes(b) == b.resource.metadata + b.resource.source
Size(b) ==
    1 + Bytes(b.resource.title) + MetadataBytes(b) + TextBytes(b.representations) + TextBytes(b.units)
      + 2 * Len(b.vectors) + Len(b.facets)

Error(code) == [error |-> code]
Failed(outcome) == "error" \in DOMAIN outcome

\* encode_prepared_resource_manifest; the limits of decoding are not looked at.
Encode(b, o) ==
    LET p == Projected(b, o) IN
    IF ~Valid(p) THEN Error("invalid_graph")
    ELSE IF Size(p) > MaxManifest THEN Error("payload_too_large")
    ELSE [bytes |-> Size(p), encoding |-> TRUE, json |-> "ok", depth |-> b.resource.depth, contract |-> TRUE,
          version |-> TRUE, unknown |-> "none", missing |-> "none", batch |-> ManifestValue(p)]

-----------------------------------------------------------------------------
(* Decoding: the first check that fails names the error. *)

\* _exact_fields, then the values of one record, in the order they are read.
FieldChecks(p, section) ==
    <<<<p.unknown = section, "unknown_field">>, <<p.missing = section, "invalid_manifest">>>>
TextChecks(items) == [i \in DOMAIN items |-> <<items[i].text > MaxText, "text_limit_exceeded">>]

SectionChecks(p, section) ==
    IF section = "resource"
    THEN FieldChecks(p, section)
         \o <<<<p.batch.resource.title > MaxText, "text_limit_exceeded">>,
              <<MetadataBytes(p.batch) > MaxMetadata, "metadata_limit_exceeded">>>>
    ELSE <<<<Len(p.batch[section]) > MaxItems, "collection_limit_exceeded">>>>
         \o (IF p.batch[section] = <<>> THEN <<>> ELSE FieldChecks(p, section))
         \o (IF section \in {"representations", "units"} THEN TextChecks(p.batch[section]) ELSE <<>>)

\* decode_prepared_resource_manifest
Checks(p) ==
    <<<<p.bytes > MaxManifest, "payload_too_large">>, <<~p.encoding, "invalid_encoding">>,
      <<p.json # "ok", p.json>>, <<p.depth > MaxDepth, "depth_limit_exceeded">>>>
    \o FieldChecks(p, "root")
    \o <<<<~p.contract, "unsupported_contract">>, <<~p.version, "unsupported_version">>>>
    \o FlattenSeq([i \in DOMAIN Sections |-> SectionChecks(p, Sections[i])])

Decode(p) ==
    LET failing == SelectInSeq(Checks(p), LAMBDA check : check[1]) IN
    IF failing = 0 THEN p.batch ELSE Error(Checks(p)[failing][2])

\* Faulty variant: what is checked is the canonical graph, what is kept the other.
ImportedAsGiven(p) ==
    LET b == Decode(p) IN
    IF Failed(b) THEN b
    ELSE IF ~Canonicalizable(b) \/ ~Valid(Canonical(b)) THEN Error("invalid_graph") ELSE b

\* PreparedResourceFacade.import_manifest, up to the write.
Imported(p) ==
    LET b == Decode(p) IN
    IF Failed(b) THEN b
    ELSE IF ~Canonicalizable(b) THEN Error("invalid_graph")
    ELSE IF ~Valid(Canonical(b)) THEN Error("invalid_graph")
    ELSE Canonical(b)

\* G has every graph a catalog comes to hold; each can be measured, and no
\* error has the name of a success.
HeldIn(G) ==
    /\ \A b \in Graphs : Canonicalizable(b) /\ Valid(Canonical(b)) => ManifestValue(Canonical(b)) \in G
    /\ \A p \in Payloads : ~Failed(Imported(p)) => ManifestValue(Imported(p)) \in G
    /\ \A b \in G, o \in Options :
          LET p == Encode(b, o) IN
          ~Failed(p) =>
             /\ p.bytes \in Nat
             /\ Failed(Decode(p)) => Decode(p).error # "exported"
             /\ ~Failed(Imported(p)) => ManifestValue(Imported(p)) \in G

Counts(b) == <<Len(b.representations), Len(b.units), Len(b.vectors), Len(b.facets)>>

-----------------------------------------------------------------------------
(* The catalog, the destination and the calls. *)

Idle == [pc |-> "idle", op |-> "none"]
Init ==
    /\ held = [r \in Resources |-> [live |-> FALSE, graph |-> None]]
    /\ commits = 0 /\ faults = 0
    /\ dest = None
    /\ temps = [c \in Callers |-> NoText]
    /\ call = [c \in Callers |-> Idle]

At(c, op, pc) == call[c].op = op /\ call[c].pc = pc
Answer(c, answer) == call' = [call EXCEPT ![c] = [@ EXCEPT !.pc = "done", !.answer = answer]]
Goto(c, pc) == call' = [call EXCEPT ![c].pc = pc]
NewCall(c, op, r, o) ==
    [pc |-> "done", op |-> op, res |-> r, options |-> o, batch |-> None, payload |-> None, answer |-> "none",
     linked |-> FALSE, unlinkFailed |-> FALSE, since |-> commits]

Fault == faults < MaxFaults /\ faults' = faults + 1
Catalog == <<held, commits>>
Files == <<dest, temps>>

\* replace_resource and delete_resource of the store, each one transaction.
Put(r, b) == held' = [held EXCEPT ![r] = [live |-> TRUE, graph |-> b]] /\ commits' = commits + 1
Drop(r) == held' = [held EXCEPT ![r] = [live |-> FALSE, graph |-> None]] /\ commits' = commits + 1

\* index_prepared_resource by another application, and a withdrawal.
Publish(b) ==
    /\ commits < MaxCommits
    /\ Canonicalizable(b) /\ Valid(Canonical(b))
    /\ Put(b.resource.id, ManifestValue(Canonical(b)))
    /\ UNCHANGED <<Files, call, faults>>
Withdraw(r) ==
    /\ commits < MaxCommits
    /\ held[r].graph # None
    /\ held' = [held EXCEPT ![r].graph = None] /\ commits' = commits + 1
    /\ UNCHANGED <<Files, call, faults>>

-----------------------------------------------------------------------------
(* export_file *)

\* The graph is read in one transaction, encoded, and decoded again as a check.
Export(c, r, o) ==
    /\ call[c].pc = "idle"
    /\ LET b == held[r].graph
           p == Encode(b, o)
           new == [NewCall(c, "export", r, o) EXCEPT !.batch = b]
       IN  call' = [call EXCEPT ![c] =
              IF b = None THEN [new EXCEPT !.answer = "resource_not_found"]
              ELSE IF Failed(p) THEN [new EXCEPT !.answer = p.error]
              ELSE IF Failed(Decode(p)) THEN [new EXCEPT !.answer = Decode(p).error]
              ELSE [new EXCEPT !.pc = "encoded", !.payload = p]]
    /\ UNCHANGED <<Catalog, Files, faults>>

CreateTemporary(c) ==
    /\ At(c, "export", "encoded")
    /\ temps' = [temps EXCEPT ![c] = 0] /\ Goto(c, "writing")
    /\ UNCHANGED <<Catalog, dest, faults>>

\* What is left to write; a short write takes half of it.
Remaining(c) == call[c].payload.bytes - temps[c]

\* Faulty variant: one write is taken to write everything.
WriteOnce(c) ==
    /\ At(c, "export", "writing")
    /\ \E n \in {(Remaining(c) + 1) \div 2, Remaining(c)} : temps' = [temps EXCEPT ![c] = @ + n]
    /\ Goto(c, "written")
    /\ UNCHANGED <<Catalog, dest, faults>>

\* _write_complete_payload: each write takes some of the rest.
Write(c) ==
    /\ At(c, "export", "writing")
    /\ \E n \in {(Remaining(c) + 1) \div 2, Remaining(c)} :
          /\ temps' = [temps EXCEPT ![c] = @ + n]
          /\ Goto(c, IF n = Remaining(c) THEN "written" ELSE "writing")
    /\ UNCHANGED <<Catalog, dest, faults>>

\* os.link refuses an existing destination.
Link(c) ==
    /\ At(c, "export", "written")
    /\ dest = None
    /\ dest' = [by |-> c, bytes |-> temps[c], payload |-> call[c].payload, batch |-> call[c].batch, options |-> call[c].options]
    /\ call' = [call EXCEPT ![c].pc = "linked", ![c].linked = TRUE]
    /\ UNCHANGED <<Catalog, temps, faults>>
LinkRefused(c) ==
    /\ At(c, "export", "written")
    /\ dest # None
    /\ Goto(c, "failing")
    /\ UNCHANGED <<Catalog, Files, faults>>

Unlink(c) ==
    /\ At(c, "export", "linked")
    /\ temps' = [temps EXCEPT ![c] = NoText]
    /\ Answer(c, "exported")
    /\ UNCHANGED <<Catalog, dest, faults>>

\* An OSError of any step, or an interrupt, leads to the handler.
StepFails(c) ==
    /\ call[c].op = "export" /\ call[c].pc \in {"encoded", "writing", "written", "linked"}
    /\ Fault
    /\ Goto(c, "failing")
    /\ UNCHANGED <<Catalog, Files>>

\* _remove_owned_temporary, which passes over a failure of its own.
Discard(c) ==
    /\ At(c, "export", "failing")
    /\ temps' = [temps EXCEPT ![c] = NoText]
    /\ Answer(c, "manifest_output_unavailable")
    /\ UNCHANGED <<Catalog, dest, faults>>
DiscardFails(c) ==
    /\ At(c, "export", "failing")
    /\ Fault
    /\ call' = [call EXCEPT ![c] = [@ EXCEPT !.pc = "done", !.answer = "manifest_output_unavailable", !.unlinkFailed = TRUE]]
    /\ UNCHANGED <<Catalog, Files>>

-----------------------------------------------------------------------------
(* import_file, import_bytes *)

Import(c, p) ==
    /\ call[c].pc = "idle" /\ commits < MaxCommits
    /\ LET b == Imported(p)
           new == NewCall(c, "import", None, None)
       IN  IF Failed(b)
           THEN call' = [call EXCEPT ![c] = [new EXCEPT !.answer = b.error, !.payload = p]] /\ UNCHANGED Catalog
           ELSE /\ Put(b.resource.id, ManifestValue(b))
                /\ call' = [call EXCEPT ![c] = [new EXCEPT !.answer = "imported", !.payload = p, !.batch = b, !.res = b.resource.id]]
    /\ UNCHANGED <<Files, faults>>
ImportFile(c) == dest # None /\ Import(c, dest.payload)
ImportBytes(c) == \E p \in Payloads : Import(c, p)

-----------------------------------------------------------------------------
(* delete and inspect *)

\* PreparedResourceCatalog.delete reads, then deletes.
DeleteRead(c, r) ==
    /\ call[c].pc = "idle"
    /\ call' = [call EXCEPT ![c] = IF held[r].graph = None
                                   THEN [NewCall(c, "delete", r, None) EXCEPT !.answer = "absent"]
                                   ELSE [NewCall(c, "delete", r, None) EXCEPT !.pc = "deleting"]]
    /\ UNCHANGED <<Catalog, Files, faults>>
DeleteWrite(c) ==
    /\ At(c, "delete", "deleting")
    /\ Drop(call[c].res)
    /\ Answer(c, "deleted")
    /\ UNCHANGED <<Files, faults>>

\* delete_resource of the engine asks the store, which deletes what is live.
DeleteLive(c, r) ==
    /\ call[c].pc = "idle" /\ commits < MaxCommits
    /\ Drop(r)
    /\ call' = [call EXCEPT ![c] = [NewCall(c, "delete_live", r, None) EXCEPT !.answer = IF held[r].live THEN "deleted" ELSE "absent"]]
    /\ UNCHANGED <<Files, faults>>

\* inspect_resource: the resource, then one statement for each table.
Inspect(c, r) ==
    /\ call[c].pc = "idle"
    /\ call' = [call EXCEPT ![c] = IF held[r].graph = None
                                   THEN [NewCall(c, "inspect", r, None) EXCEPT !.answer = "resource_not_found"]
                                   ELSE [NewCall(c, "inspect", r, None) EXCEPT !.pc = "counting", !.batch = <<>>]]
    /\ UNCHANGED <<Catalog, Files, faults>>
InspectCount(c) ==
    /\ At(c, "inspect", "counting")
    /\ LET r == call[c].res
           n == Len(call[c].batch) + 1
           count == IF held[r].graph = None THEN 0 ELSE Counts(held[r].graph)[n]
       IN  call' = [call EXCEPT ![c].batch = Append(@, count),
                                ![c].pc = IF n = 4 THEN "done" ELSE "counting",
                                ![c].answer = IF n = 4 THEN "inspected" ELSE "none",
                                ![c].payload = IF commits = call[c].since THEN Counts(held[r].graph) ELSE None]
    /\ UNCHANGED <<Catalog, Files, faults>>

\* The process dies: what it had on disk stays.
Crash(c) ==
    /\ call[c].pc \notin {"idle", "done"}
    /\ Fault
    /\ call' = [call EXCEPT ![c] = [@ EXCEPT !.pc = "done", !.answer = "crashed"]]
    /\ UNCHANGED <<Catalog, Files>>

ExportStep(c) ==
    \/ CreateTemporary(c) \/ Write(c) \/ Link(c) \/ LinkRefused(c) \/ Unlink(c) \/ StepFails(c)
    \/ Discard(c) \/ DiscardFails(c)
Next ==
    \/ \E b \in Graphs : Publish(b)
    \/ \E r \in Resources : Withdraw(r)
    \/ \E c \in Callers :
          \/ ExportStep(c) \/ ImportFile(c) \/ ImportBytes(c) \/ DeleteWrite(c) \/ InspectCount(c) \/ Crash(c)
          \/ \E r \in Resources :
                \/ DeleteRead(c, r) \/ DeleteLive(c, r) \/ Inspect(c, r)
                \/ \E o \in Options : Export(c, r, o)

Spec == Init /\ [][Next]_manifestVars

-----------------------------------------------------------------------------
\* A payload without a defect, in whatever order they are looked for.
Acceptable(p) ==
    /\ p.bytes <= MaxManifest /\ p.encoding /\ p.json = "ok" /\ p.depth <= MaxDepth /\ p.contract /\ p.version
    /\ \A s \in {p.unknown, p.missing} : s \in Range(Sections) => s # "resource" /\ p.batch[s] = <<>>
    /\ "root" \notin {p.unknown, p.missing}
    /\ MetadataBytes(p.batch) <= MaxMetadata /\ p.batch.resource.title <= MaxText
    /\ \A s \in Range(Sections) \ {"resource"} : Len(p.batch[s]) <= MaxItems
    /\ \A item \in Range(p.batch.representations) \cup Range(p.batch.units) : item.text <= MaxText
    /\ Canonicalizable(p.batch) /\ Valid(Canonical(p.batch))

(***************************************************************************)
(* What an export leaves behind is one complete manifest, of the graph it  *)
(* read and with the flags it was given, whatever short writes, failures,  *)
(* crashes and other exports to the same name came between (export_file).  *)
(* Only the caller that linked the file says it exported; no temporary     *)
(* file remains after a call that could remove it.  An inspection nobody   *)
(* disturbs counts one graph, and only what is live has a graph.           *)
(***************************************************************************)
ExportsComplete ==
    /\ dest # None =>
          /\ dest.bytes = dest.payload.bytes
          /\ dest.payload = Encode(dest.batch, dest.options)
    /\ \A c \in Callers :
          /\ call[c].op = "export" /\ call[c].linked => dest # None /\ dest.by = c
          /\ call[c].op = "export" /\ call[c].pc = "done" =>
                /\ call[c].answer = "exported" => call[c].linked
                /\ temps[c] # NoText => call[c].unlinkFailed \/ call[c].answer = "crashed"
          /\ call[c].op = "inspect" /\ call[c].answer = "inspected" /\ call[c].payload # None =>
                call[c].batch = call[c].payload
    /\ \A r \in Resources : held[r].graph # None => held[r].live

(***************************************************************************)
(* Importing what an export left publishes the graph it was made from as   *)
(* the flags project it.  An import takes exactly the payloads within the  *)
(* limits, and what it publishes is valid and canonical (import_manifest). *)
(***************************************************************************)
ManifestsFaithful ==
    /\ dest # None => Imported(dest.payload) = ManifestValue(Projected(dest.batch, dest.options))
    /\ \A c \in Callers : call[c].op = "import" => (call[c].answer = "imported" <=> Acceptable(call[c].payload))
    /\ \A r \in Resources : held[r].graph # None => Valid(held[r].graph) /\ Canonical(held[r].graph) = held[r].graph

=============================================================================
