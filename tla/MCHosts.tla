------------------------------- MODULE MCHosts -------------------------------
(***************************************************************************)
(* The hosts for TLC: each on its own, a behaviour exercises one.          *)
(***************************************************************************)
EXTENDS Hosts

VARIABLE host

RawRevisions == {"wave", "mp4"}
RawSignatureOf == [r \in RawRevisions |-> IF r = "wave" THEN "RIFF_WAVE" ELSE "ISO_BMFF"]
RawHeaderMs == [r \in RawRevisions |-> 1]

SwitchKeys == {"gemma", "gemma-2"}
SwitchNames == SwitchKeys \cup {"gem"}
SwitchInstanceKey == [i \in {"i1", "i2"} |-> IF i = "i1" THEN "gemma" ELSE "gemma-2"]
SwitchExactKey == [n \in SwitchNames |-> IF n = "gem" THEN "no key" ELSE n]
SwitchSimilarKeys == [n \in SwitchNames |-> SwitchKeys]
SwitchDimensionOf == [k \in SwitchKeys |-> IF k = "gemma" THEN 1 ELSE 2]

cudaVars == <<cudaClosed, cudaHolder, cudaWaiters, cudaTasks, cudaCloser, pinsIntact>>
rawVars == <<rawFile, rawCall, helper, threads, rawCatalog>>
switchVars == <<server, configured, bindings, switch>>
lmVars == <<provider, embeds>>
vars == <<host, cudaVars, rawVars, switchVars, lmVars>>

\* A component that is not exercised stays in one fixed initial state.
Init ==
    /\ host \in {"cuda", "raw", "switch", "lm"}
    /\ Cuda!Init
    /\ Raw!Init /\ (host # "raw" => rawFile = "wave")
    /\ Switch!Init
    /\ host # "switch" => /\ server = [visible |-> {"gemma"}, loaded |-> {}, download |-> "none"]
                          /\ configured = [model |-> "gemma", dimensions |-> 1]
                          /\ bindings = [model |-> "no key", dimensions |-> 0]
    /\ Lm!Init

Next ==
    /\ host' = host
    /\ \/ host = "cuda" /\ Cuda!Next /\ UNCHANGED <<rawVars, switchVars, lmVars>>
       \/ host = "raw" /\ Raw!Next /\ UNCHANGED <<cudaVars, switchVars, lmVars>>
       \/ host = "switch" /\ Switch!Next /\ UNCHANGED <<cudaVars, rawVars, lmVars>>
       \/ host = "lm" /\ Lm!Next /\ UNCHANGED <<cudaVars, rawVars, switchVars>>

\* What the hosts do by themselves (see Progress and Command there).
Progress ==
    /\ host' = host
    /\ \/ host = "cuda" /\ Cuda!Progress /\ UNCHANGED <<rawVars, switchVars, lmVars>>
       \/ host = "raw" /\ Raw!Progress /\ UNCHANGED <<cudaVars, switchVars, lmVars>>
       \/ host = "switch" /\ Switch!Command /\ UNCHANGED <<cudaVars, rawVars, lmVars>>

Spec == Init /\ [][Next]_vars /\ WF_vars(Progress)

=============================================================================
