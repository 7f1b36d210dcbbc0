------------------------- MODULE PublicationState -------------------------
(***************************************************************************)
(* The publication authority of one resource (domain/publication.py) and   *)
(* the rules under which the catalog moves it from one value to the next   *)
(* (SQLiteResourceStore._put_state, 0005_publication.sql).                 *)
(*                                                                         *)
(* Lifecycle ids and state tokens are uuid4 values in the code.  Here they *)
(* are numbered in the order they are committed, 0 standing for "no        *)
(* value"; that uuid4 never repeats is the one assumption this makes.      *)
(***************************************************************************)
EXTENDS Naturals

CONSTANTS
    Resources,   \* resource ids
    Sources,     \* source identities: (namespace, locator kind, locator)
    None         \* no value, no row

Statuses == {"never_created", "published", "live_without_projections", "deleted"}

StateType == [status : Statuses, life : Nat, token : Nat, src : Sources \cup {None}]

NeverCreated == [status |-> "never_created", life |-> 0, token |-> 0, src |-> None]

IsLive(st) == st.status \in {"published", "live_without_projections"}

(***************************************************************************)
(* _put_state: the lifecycle id survives as long as the resource is live,  *)
(* the state token is always new.                                          *)
(***************************************************************************)
NextState(prev, status, src, fresh) ==
    [status |-> status,
     life   |-> IF IsLive(prev) THEN prev.life ELSE fresh,
     token  |-> fresh,
     src    |-> src]

(***************************************************************************)
(* The partial unique index: one source, one row that is not deleted.      *)
(***************************************************************************)
LiveSourceFree(states, r, src) ==
    \A q \in Resources \ {r} : IsLive(states[q]) => states[q].src # src

(***************************************************************************)
(* "live source binding cannot change", and the unique index above.        *)
(***************************************************************************)
PutAllowed(states, r, status, src) ==
    /\ IsLive(states[r]) => src = states[r].src
    /\ status # "deleted" => LiveSourceFree(states, r, src)

PutState(states, r, status, src, fresh) ==
    [states EXCEPT ![r] = NextState(states[r], status, src, fresh)]
=============================================================================
