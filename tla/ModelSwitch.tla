----------------------------- MODULE ModelSwitch -----------------------------
(***************************************************************************)
(* "mdrack model switch" (cli/commands/model.py) over the LM Studio        *)
(* control client (integrations/lmstudio/client.py).  The command resolves *)
(* a name, downloads and loads the model, finds its dimension, rebuilds    *)
(* the index, writes the configuration and unloads the previous model,     *)
(* each through a request that can fail, while other clients of the server *)
(* load and unload instances and another mdrack process may index.  The    *)
(* command may also die between any two requests.                          *)
(***************************************************************************)
EXTENDS Naturals, Sequences, FiniteSets, FiniteSetsExt

CONSTANTS
    Keys,           \* keys of models LM Studio can serve
    Instances,      \* ids of loaded instances
    InstanceKey,    \* [Instances -> Keys]
    Names,          \* names a user may type; every key is one
    ExactKey,       \* [Names -> Keys \cup {NoKey}]: equal up to punctuation
    SimilarKeys,    \* [Names -> SUBSET Keys]: one name contains the other
    DimensionOf,    \* [Keys -> Nat \ {0}]
    TextRecipe,     \* the configuration asks for an explicit input recipe
    MaxPolls        \* polls of the download status (1800 in the code)

VARIABLES
    server,         \* LM Studio: visible models, loaded instances, download
    configured,     \* the configuration file: model and dimensions
    bindings,       \* identity of the stored vectors, or Unbound
    switch          \* the running command

switchVars == <<server, configured, bindings, switch>>

NoKey == "no key"

\* Every vector has a length, which tells a profile from Unbound, and a name
\* that equals a key up to punctuation equals one of the keys.
KeysAssumption ==
    /\ DimensionOf \in [Keys -> Nat \ {0}]
    /\ ExactKey \in [Names -> Keys \cup {NoKey}]
Modes == {"embeddings", "full", "none"}
Idle == [pc |-> "idle"]

Profile(model, dimensions) == [model |-> model, dimensions |-> dimensions]
Unbound == Profile(NoKey, 0)

\* _resolve_model_key: an exact match wins; one similar key is taken,
\* several are refused as ambiguous.
Resolve(visible, name) ==
    LET similar == SimilarKeys[name] \cap visible
    IN  IF ExactKey[name] \in visible THEN ExactKey[name]
        ELSE IF Cardinality(similar) = 1 THEN CHOOSE k \in similar : TRUE
        ELSE IF similar = {} THEN NoKey ELSE "ambiguous"

\* _find_model, with exact = TRUE when vectors are bound.
Find(visible, name, exact) ==
    IF exact THEN (IF name \in visible THEN name ELSE NoKey) ELSE Resolve(visible, name)

\* assert_text_embedding_profile_compatible: bound vectors admit only their
\* own identity.
Compatible(profile) == bindings \in {Unbound, profile}

InstancesOf(key) == {i \in server.loaded : InstanceKey[i] = key}

Init ==
    /\ server \in [visible : {v \in SUBSET Keys : v # {}}, loaded : SUBSET Instances, download : {"none"}]
    /\ \A i \in server.loaded : InstanceKey[i] \in server.visible
    /\ configured \in {Profile(k, DimensionOf[k]) : k \in Keys}
    /\ bindings \in {Unbound, configured}
    /\ switch = Idle

To(pc) == switch' = [switch EXCEPT !.pc = pc]
Stop(why) == switch' = [pc |-> "ended", outcome |-> why]
Quiet == UNCHANGED <<server, configured, bindings>>

\* Any request may time out, be refused or be answered with nonsense.
RequestFails ==
    /\ switch.pc \in {"list", "instances", "download", "poll", "visibility", "load", "probe", "rebuild"}
    /\ Stop("failed")
    /\ Quiet

\* The process dies between two requests.
Dies == switch.pc \notin {"idle", "ended"} /\ Stop("died") /\ Quiet

-----------------------------------------------------------------------------
\* Options are checked and the wanted profile is admitted before anything
\* is sent to LM Studio.
Begin(name, mode, download, load, confirmed, known) ==
    /\ switch.pc = "idle"
    /\ LET wanted == Profile(name, IF known = 0 THEN configured.dimensions ELSE known)
       IN  IF mode = "none" /\ ~confirmed THEN Stop("config_error")
           ELSE IF ~Compatible(wanted) THEN Stop("incompatible_embedding_profile")
           ELSE IF TextRecipe THEN Stop("embedding_input_contract_unqualified")
           ELSE switch' = [pc |-> "list", name |-> name, rebuild |-> mode # "none", download |-> download,
                           load |-> load, known |-> known, bound |-> bindings # Unbound,
                           candidate |-> wanted.dimensions, target |-> NoKey, found |-> NoKey,
                           previous |-> NoKey, unload |-> {}, polls |-> 0, visible |-> {}, seen |-> {},
                           dimensions |-> 0, rebuilt |-> FALSE]
    /\ Quiet

\* list_models: resolve the target and the model in the configuration.
ListModels ==
    /\ switch.pc = "list"
    /\ LET found == Find(server.visible, switch.name, switch.bound)
           previous == Find(server.visible, configured.model, switch.bound)
       IN  IF "ambiguous" \in {found, previous} THEN Stop("failed")
           ELSE switch' = [switch EXCEPT
                    !.pc = "instances", !.visible = server.visible, !.seen = server.loaded,
                    !.found = found,
                    !.target = IF switch.bound \/ found = NoKey THEN switch.name ELSE found,
                    !.previous = IF switch.bound \/ previous = NoKey
                                 THEN configured.model ELSE previous]
    /\ Quiet

\* The instances to unload later are remembered now.
PreviousInstances ==
    /\ switch.pc = "instances"
    /\ LET mine == IF switch.previous \in switch.visible THEN InstancesOf(switch.previous) ELSE {}
           next == IF switch.found = NoKey \/ switch.download THEN "download" ELSE "load"
       IN  IF switch.found = NoKey /\ ~switch.download THEN Stop("not_visible")
           ELSE switch' = [switch EXCEPT !.pc = next, !.unload = mine]
    /\ Quiet

RequestDownload ==
    /\ switch.pc = "download"
    /\ server' = [server EXCEPT !.download = "running"]
    /\ To("poll")
    /\ UNCHANGED <<configured, bindings>>

\* _wait_for_model_download polls at most MaxPolls times.
PollDownload ==
    /\ switch.pc = "poll"
    /\ IF server.download = "done" THEN To("visibility")
       ELSE IF server.download = "failed" \/ switch.polls = MaxPolls THEN Stop("failed")
       ELSE switch' = [switch EXCEPT !.polls = @ + 1]
    /\ Quiet

\* _wait_for_model_visibility, then the names are resolved once more.
SeeModel ==
    /\ switch.pc = "visibility"
    /\ LET wanted == IF switch.found = NoKey THEN switch.name ELSE switch.target
           seen == Resolve(server.visible, wanted)
           found == Find(server.visible, switch.name, switch.bound)
       IN  IF "ambiguous" \in {seen, found} \/ server.download = "failed" \/ switch.polls > MaxPolls
           THEN Stop("failed")
           ELSE IF seen = NoKey THEN switch' = [switch EXCEPT !.polls = @ + 1]
           ELSE switch' = [switch EXCEPT !.pc = "load", !.visible = server.visible, !.seen = server.loaded,
                              !.found = found,
                              !.target = IF switch.bound \/ found = NoKey THEN switch.name ELSE found]
    /\ Quiet

\* Loads the target unless the earlier list or a new one has it loaded;
\* without --load the dimension must be known or the target loaded.
LoadModel ==
    /\ switch.pc = "load"
    /\ LET ready == \E i \in switch.seen \cup server.loaded : InstanceKey[i] = switch.target
       IN  IF switch.load /\ ~ready
           THEN /\ switch.target \in server.visible
                /\ \E i \in {j \in Instances : InstanceKey[j] = switch.target} :
                       server' = [server EXCEPT !.loaded = @ \cup {i}]
                /\ To("probe")
           ELSE /\ IF ~switch.load /\ switch.known = 0 /\ ~ready THEN Stop("config_error") ELSE To("probe")
                /\ UNCHANGED server
    /\ UNCHANGED <<configured, bindings>>

\* Bound vectors keep the admitted dimension; otherwise the option or the
\* length of a probe's vector decides, which only a model the server has
\* can give.  The profile is admitted again.
Probe ==
    /\ switch.pc = "probe"
    /\ switch.bound \/ switch.known # 0 \/ switch.target \in server.visible
    /\ LET d == IF switch.bound THEN switch.candidate
                ELSE IF switch.known # 0 THEN switch.known ELSE DimensionOf[switch.target]
       IN  IF Compatible(Profile(switch.target, d))
           THEN switch' = [switch EXCEPT !.pc = "rebuild", !.dimensions = d]
           ELSE Stop("incompatible_embedding_profile")
    /\ Quiet

New == Profile(switch.target, switch.dimensions)

\* _run_switch_rebuild: skipped, no database, or a forced index run, which
\* admits the profile itself; anything but success stops the command.
Rebuild ==
    /\ switch.pc = "rebuild"
    /\ \/ /\ ~switch.rebuild /\ To("write")
          /\ UNCHANGED bindings
       \/ /\ switch.rebuild /\ bindings = Unbound /\ To("write")
          /\ UNCHANGED bindings
       \/ /\ switch.rebuild /\ Compatible(New)
          /\ bindings' \in {bindings, New}
          /\ \/ /\ bindings' \in {New, Unbound}
                /\ switch' = [switch EXCEPT !.pc = "write", !.rebuilt = bindings' = New]
             \/ Stop("embedding_rebuild_incomplete")
    /\ UNCHANGED <<server, configured>>

\* write_config replaces the file atomically.
WriteConfig ==
    /\ switch.pc = "write"
    /\ configured' = New
    /\ To("unload")
    /\ UNCHANGED <<server, bindings>>

WriteFails == switch.pc = "write" /\ Stop("failed") /\ Quiet

\* Unloads whatever the old name resolved to.
UnloadWithoutCheck ==
    /\ switch.pc = "unload"
    /\ IF switch.unload = {} THEN Stop("switched") /\ UNCHANGED server
       ELSE \E i \in switch.unload :
              /\ switch' = [switch EXCEPT !.unload = @ \ {i}]
              /\ server' \in {server, [server EXCEPT !.loaded = @ \ {i}]}
    /\ UNCHANGED <<configured, bindings>>

\* One request per remembered instance; a failure is only recorded.
UnloadPrevious ==
    /\ switch.pc = "unload"
    /\ IF switch.previous = switch.target \/ switch.unload = {} THEN Stop("switched") /\ UNCHANGED server
       ELSE \E i \in switch.unload :
              /\ switch' = [switch EXCEPT !.unload = @ \ {i}]
              /\ server' \in {server, [server EXCEPT !.loaded = @ \ {i}]}
    /\ UNCHANGED <<configured, bindings>>

-----------------------------------------------------------------------------
(* The server and other processes. *)

DownloadMoves ==
    /\ switch.pc \in {"poll", "visibility"}
    /\ server.download = "running"
    /\ \/ server' = [server EXCEPT !.download = "failed"]
       \/ \E v \in {server.visible, server.visible \cup ({ExactKey[switch.name]} \ {NoKey})} :
              server' = [server EXCEPT !.download = "done", !.visible = v]
    /\ UNCHANGED <<configured, bindings, switch>>

OthersLoad ==
    /\ \E i \in Instances \ server.loaded :
           /\ InstanceKey[i] \in server.visible
           /\ server' = [server EXCEPT !.loaded = @ \cup {i}]
    /\ switch.pc # "ended"
    /\ UNCHANGED <<configured, bindings, switch>>

OthersUnload ==
    /\ \E i \in server.loaded : server' = [server EXCEPT !.loaded = @ \ {i}]
    /\ switch.pc # "ended"
    /\ UNCHANGED <<configured, bindings, switch>>

OthersIndex ==
    /\ bindings = Unbound
    /\ switch.pc # "ended"
    /\ bindings' = configured
    /\ UNCHANGED <<server, configured, switch>>

Command == ListModels \/ PreviousInstances \/ RequestDownload \/ PollDownload \/ SeeModel \/ LoadModel
               \/ Probe \/ Rebuild \/ WriteConfig \/ WriteFails \/ UnloadPrevious \/ RequestFails

Next ==
    \/ \E name \in Names, mode \in Modes, download, load, confirmed \in BOOLEAN,
          known \in {0} \cup {DimensionOf[k] : k \in Keys} : Begin(name, mode, download, load, confirmed, known)
    \/ Command \/ Dies
    \/ DownloadMoves \/ OthersLoad \/ OthersUnload \/ OthersIndex

Spec == Init /\ [][Next]_switchVars /\ WF_switchVars(Command)

-----------------------------------------------------------------------------
\* The command unloads only what the configuration no longer names: the
\* model in use by every other mdrack process stays loaded, also when two
\* names mean the same model or the rebuild or the write failed.
ConfiguredStaysLoaded ==
    switch' # switch =>
        \A i \in server.loaded \ server'.loaded : InstanceKey[i] # configured'.model

\* The configuration never moves when vectors were bound as the command
\* began, and after a rebuild the vectors have the identity it names.  What
\* another process binds between the second check and the write of the file
\* is not looked at again (model.py:785-798), so nothing is said of it.
ConfigurationFollowsIndex ==
    configured' # configured => ~switch.bound /\ (switch.rebuilt => bindings = configured')

\* The command ends: no poll waits forever for a download or a model.
Switching == switch.pc \notin {"idle", "ended"}

=============================================================================
