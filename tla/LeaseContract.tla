---------------------------- MODULE LeaseContract ----------------------------
(***************************************************************************)
(* What the backend promises of the leases it grants, without the queue,   *)
(* the agents, the messages and the reconciliations that make it so: every *)
(* request comes once, is admitted at most once to a place that is up, is  *)
(* never moved from it, and keeps the end it came to; and no place is taken *)
(* away from under a lease. InferenceLeases implements it.                 *)
(***************************************************************************)
CONSTANTS
    Requests,
    Places,     \* the processes a lease may be on
    Nowhere     \* no place

VARIABLES
    stage,      \* of each request, see Stages
    place,      \* where each active request is served
    up          \* the places that serve, or come up

vars == <<stage, place, up>>

Over == {"released", "cancelled", "expired", "failed"}
Stages == {"absent", "waiting", "active"} \union Over

Init ==
    /\ stage = [l \in Requests |-> "absent"]
    /\ place = [l \in Requests |-> Nowhere]
    /\ up = {}

Stays(l) == stage'[l] = stage[l] /\ place'[l] = place[l]

(* A request is queued. *)
Arrive(l) ==
    /\ stage[l] = "absent"
    /\ stage'[l] = "waiting" /\ place'[l] = Nowhere
    /\ \A k \in Requests \ {l} : Stays(k)
    /\ up' = up

(* It becomes active somewhere. *)
Admit(l) ==
    /\ stage[l] = "waiting"
    /\ stage'[l] = "active" /\ place'[l] \in up
    /\ \A k \in Requests \ {l} : Stays(k)
    /\ up' = up

Ends(l) ==
    /\ stage[l] \in {"waiting", "active"}
    /\ stage'[l] \in Over /\ place'[l] = Nowhere

(* Requests end, places come and go: none with a lease left on it. *)
Withdraw ==
    /\ \A l \in Requests : Stays(l) \/ Ends(l)
    /\ up' \subseteq Places
    /\ \A l \in Requests : stage'[l] = "active" => place'[l] \in up'

Next ==
    \/ \E l \in Requests : Arrive(l) \/ Admit(l)
    \/ Withdraw

Spec == Init /\ [][Next]_vars
===============================================================================
