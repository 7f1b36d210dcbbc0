------------------------------ MODULE LMStudio ------------------------------
(***************************************************************************)
(* The embedding provider over HTTP (integrations/lmstudio/client.py,      *)
(* LMStudioProvider).  A call sends its texts in batches; the server may   *)
(* answer in any order, with the wrong number of items, a repeated index   *)
(* or vectors of another length, or not at all.  Several calls share one   *)
(* provider object and the attributes it keeps about the last response.    *)
(***************************************************************************)
EXTENDS Naturals, Sequences, FiniteSets

CONSTANTS
    Tasks,              \* concurrent calls on one provider
    MaxTexts,           \* texts in a call
    BatchSize,          \* _MAX_EMBEDDING_BATCH_SIZE
    Dimensions,         \* the configured length of a vector
    Requested,          \* requested_dimensions, 0 for None
    Capability,         \* dimensions_capability
    NativeDimensions    \* native_dimensions, 0 for None

VARIABLES
    provider,           \* _returned_dimensions and _vector_length_valid
    embeds              \* per task: the call it runs

lmVars == <<provider, embeds>>

\* Batches are not empty, and lengths are numbers.
SizesAssumption == MaxTexts \in Nat /\ BatchSize \in Nat \ {0} /\ Dimensions \in Nat

NoEmbed == [pc |-> "idle", health |-> FALSE, texts |-> <<>>, vectors |-> <<>>, reports |-> {}]

\* The vector of a text: which text it stands for, and its length.
Vector(text, length) == [text |-> text, length |-> length]

Init ==
    /\ provider = [returned |-> 0, valid |-> "unknown"]
    /\ embeds = [t \in Tasks |-> NoEmbed]

\* mrl_status: tested only with evidence for exactly this request.
MrlStatus(p) ==
    IF /\ Requested # 0 /\ Capability = "tested"
       /\ NativeDimensions # 0 /\ Requested < NativeDimensions
       /\ p.returned = Requested /\ p.valid = "valid"
    THEN "tested" ELSE "unsupported_by_runtime"

Report(ok, p) == [ok |-> ok, returned |-> p.returned, valid |-> p.valid, mrl |-> MrlStatus(p)]

\* health turns every failure into a report; embed raises.
Failed(call, p) ==
    [call EXCEPT !.pc = "failed",
                 !.reports = IF call.health THEN {Report(FALSE, p)} ELSE {}]

\* A requested dimension without evidence is refused before anything is sent.
Begin(t, n, health) ==
    /\ embeds[t].pc = "idle"
    /\ health => n = 1
    /\ LET call == [NoEmbed EXCEPT !.pc = "sent", !.health = health, !.texts = [i \in 1 .. n |-> i]]
       IN  embeds' = [embeds EXCEPT ![t] =
               IF Requested # 0 /\ Capability # "tested" THEN Failed(call, provider) ELSE call]
    /\ UNCHANGED provider

\* Timeout, an HTTP error status, no connection, no JSON, no "data" field.
RequestFails(t) ==
    /\ embeds[t].pc = "sent"
    /\ embeds' = [embeds EXCEPT ![t] = Failed(@, provider)]
    /\ UNCHANGED provider

\* The next batch of the call, as positions of its texts.
Batch(call) ==
    LET first == Len(call.vectors) + 1
        last == IF first + BatchSize - 1 < Len(call.texts) THEN first + BatchSize - 1 ELSE Len(call.texts)
    IN  SubSeq(call.texts, first, last)

\* What the server may answer to a batch of n: at most one item too many,
\* any index for each item, any length.  It embeds the text the index names.
Items(n) == [index : 1 .. n + 1, length : {Dimensions, Dimensions + 1}]
Responses(n) == UNION {[1 .. m -> Items(n)] : m \in {n - 1, n, n + 1} \ {0}}

\* Count, range and uniqueness of the indexes give one item per text.
WellFormed(n, response) ==
    /\ Len(response) = n
    /\ \A i \in 1 .. n : response[i].index \in 1 .. n
    /\ \A i, j \in 1 .. n : response[i].index = response[j].index => i = j

\* The vectors in the order of the answer.
ArrangeAsReceived(batch, response) ==
    [k \in 1 .. Len(batch) |-> Vector(batch[response[k].index], response[k].length)]

\* The vectors in the order of the batch.
Arrange(batch, response) ==
    [k \in 1 .. Len(batch) |->
        LET i == CHOOSE j \in 1 .. Len(response) : response[j].index = k
        IN  Vector(batch[response[i].index], response[i].length)]

Receive(t, response) ==
    /\ embeds[t].pc = "sent"
    /\ LET call == embeds[t]
           batch == Batch(call)
           vectors == Arrange(batch, response)
           fits == \A k \in 1 .. Len(vectors) : vectors[k].length = Dimensions
           seen == [returned |-> vectors[1].length, valid |-> IF fits THEN "valid" ELSE "invalid"]
           all == call.vectors \o vectors
       IN  IF ~WellFormed(Len(batch), response)
           THEN /\ embeds' = [embeds EXCEPT ![t] = Failed(call, provider)]
                /\ UNCHANGED provider
           ELSE /\ provider' = seen
                /\ embeds' = [embeds EXCEPT ![t] =
                       IF ~fits THEN Failed(call, seen)
                       ELSE IF Len(all) < Len(call.texts) THEN [call EXCEPT !.vectors = all]
                       ELSE [call EXCEPT !.pc = "done", !.vectors = all,
                                !.reports = IF call.health THEN {Report(TRUE, seen)} ELSE {}]]

Next ==
    \E t \in Tasks :
        \/ \E n \in 1 .. MaxTexts, health \in BOOLEAN : Begin(t, n, health)
        \/ RequestFails(t)
        \/ embeds[t].pc = "sent" /\ \E r \in Responses(Len(Batch(embeds[t]))) : Receive(t, r)

Spec == Init /\ [][Next]_lmVars

-----------------------------------------------------------------------------
\* A call that returns has the vector of its i-th text in the i-th place,
\* complete and of the configured length, whatever order the server used.
VectorsInOrder ==
    \A t \in Tasks : embeds[t].pc = "done" =>
        embeds[t].vectors = [i \in 1 .. Len(embeds[t].texts) |-> Vector(embeds[t].texts[i], Dimensions)]

\* A healthy report is about vectors of the configured length, although
\* other calls overwrite the same attributes while health waits; a report
\* that claims a reduced dimension has evidence for that dimension.
HealthTruthful ==
    \A t \in Tasks : \A report \in embeds[t].reports :
        /\ report.ok => report.returned = Dimensions /\ report.valid = "valid"
        /\ report.mrl = "tested" => report.returned = Requested

=============================================================================
