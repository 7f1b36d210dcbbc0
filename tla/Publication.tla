---------------------------- MODULE Publication ----------------------------
(***************************************************************************)
(* What the publication port promises (ports/publication.py, ADR 0014):    *)
(* every resource has one publication state and, while it is published,    *)
(* one graph; each successful operation replaces both in a single step and *)
(* issues a token no earlier state ever carried.                           *)
(***************************************************************************)
EXTENDS PublicationState

CONSTANT Graphs

VARIABLES
    state,    \* [Resources -> StateType]
    graph,    \* [Resources -> Graphs \cup {None}]
    issued    \* how many tokens have been issued

pubVars == <<state, graph, issued>>

TypeOK ==
    /\ state \in [Resources -> StateType]
    /\ graph \in [Resources -> Graphs \cup {None}]
    /\ issued \in Nat

Init ==
    /\ state = [r \in Resources |-> NeverCreated]
    /\ graph = [r \in Resources |-> None]
    /\ issued = 0

Move(r, status, src, g) ==
    /\ PutAllowed(state, r, status, src)
    /\ state' = PutState(state, r, status, src, issued + 1)
    /\ graph' = [graph EXCEPT ![r] = g]
    /\ issued' = issued + 1

\* compare_and_publish, replace_resource
Publish(r) == \E src \in Sources, g \in Graphs : Move(r, "published", src, g)

\* withdraw_if_current
Withdraw(r) ==
    /\ IsLive(state[r])
    /\ Move(r, "live_without_projections", state[r].src, None)

\* delete_if_current, delete_resource, delete_live_resource
Delete(r) ==
    /\ IsLive(state[r])
    /\ Move(r, "deleted", state[r].src, None)

Next == \E r \in Resources : Publish(r) \/ Withdraw(r) \/ Delete(r)

Spec == Init /\ [][Next]_pubVars
=============================================================================
