---------------------------- MODULE AgentContract ----------------------------
(***************************************************************************)
(* What the agents promise the backend of the operations they are given,   *)
(* without the routes, timers, coroutines and counters that make it so: a  *)
(* process never has more operations than slots; every operation that is   *)
(* alive belongs to the process that runs; it is dispatched once at most,  *)
(* keeps the end it came to, and is over when its process goes.            *)
(* AgentSlots implements it for one llama-server, in all the detail of the *)
(* agent; the agents of InferenceLeases implement it as the broker sees    *)
(* them.                                                                   *)
(*                                                                         *)
(* The promise is void once a slot was given away while a process came or  *)
(* went: "steady" tells.                                                   *)
(***************************************************************************)
EXTENDS Naturals, FiniteSets

CONSTANTS
    Servers,
    Requests,
    Attempts,   \* what tells one reservation of a request from another
    Gens,       \* slot generations; 0 is no process
    Capacity

VARIABLES
    op,         \* per server and request, the operation the agent reports
    running,    \* per server, the generation of the process that serves
    steady

vars == <<op, running, steady>>

Live == {"queued", "reserved", "active", "cancelling"}
Ended == {"completed", "cancelled", "failed"}

Init ==
    /\ \A s \in Servers, l \in Requests : op[s][l].status = "absent"
    /\ running = [s \in Servers |-> 0]
    /\ steady = TRUE

Slots(s) == {l \in Requests : op[s][l].status \in Live \ {"queued"}}
Free(s) == Cardinality(Slots(s)) < Capacity

Becomes(s, l, new) ==
    /\ op' = [op EXCEPT ![s][l] = new]
    /\ UNCHANGED running

(* A reservation is accepted: of a new request, or of one whose last       *)
(* reservation was given up before any dispatch.                           *)
Reserve(s, l) ==
    /\ running[s] # 0 /\ Free(s)
    /\ \/ op[s][l].status = "absent"
       \/ op[s][l].status = "cancelled" /\ ~op[s][l].dispatched
    /\ \E attempt \in Attempts :
         Becomes(s, l, [status |-> "reserved", gen |-> running[s], attempt |-> attempt,
                        dispatched |-> FALSE])

(* A request that comes without one gets a slot, or waits for it. *)
Enlist(s, l) ==
    /\ running[s] # 0 /\ op[s][l].status = "absent"
    /\ \E status \in {"queued", "active"}, attempt \in Attempts :
         /\ status = "active" => Free(s)
         /\ Becomes(s, l, [status |-> status, gen |-> running[s], attempt |-> attempt,
                           dispatched |-> FALSE])

Admit(s, l) ==
    /\ op[s][l].status = "queued" /\ op[s][l].gen = running[s] /\ Free(s)
    /\ Becomes(s, l, [op[s][l] EXCEPT !.status = "active"])

Dispatch(s, l) ==
    /\ op[s][l].status = "reserved" /\ op[s][l].gen = running[s]
    /\ Becomes(s, l, [status |-> "active", gen |-> op[s][l].gen,
                      attempt |-> op[s][l].attempt, dispatched |-> TRUE])

Cancel(s, l) ==
    /\ op[s][l].status = "active"
    /\ Becomes(s, l, [op[s][l] EXCEPT !.status = "cancelling"])

(* Who has not been dispatched cannot complete. *)
End(s, l) ==
    \E outcome \in Ended :
        /\ \/ op[s][l].status = "reserved" /\ outcome = "cancelled"
           \/ op[s][l].status = "queued" /\ outcome # "completed"
           \/ op[s][l].status \in {"active", "cancelling"}
        /\ Becomes(s, l, [op[s][l] EXCEPT !.status = outcome])

(* A process comes, under a generation no operation has had, or goes; the  *)
(* operations of the one before it are over.                               *)
Over(o) == IF o.status \in Live THEN [o EXCEPT !.status = "failed"] ELSE o

Replace(s) ==
    \E gen \in Gens \ {running[s]} :
        /\ gen # 0 => \A l \in Requests : op[s][l].gen # gen
        /\ running' = [running EXCEPT ![s] = gen]
        /\ op' = [op EXCEPT ![s] = [l \in Requests |-> Over(@[l])]]

(* The agent itself is new, and knows of nothing. *)
Restart(s) ==
    /\ running' = [running EXCEPT ![s] = 0]
    /\ \A l \in Requests : op'[s][l].status = "absent"
    /\ \A t \in Servers \ {s} : op'[t] = op[t]

Step ==
    \E s \in Servers :
        \/ \E l \in Requests : \/ Reserve(s, l) \/ Enlist(s, l) \/ Admit(s, l)
                               \/ Dispatch(s, l) \/ Cancel(s, l) \/ End(s, l)
        \/ Replace(s) \/ Restart(s)

Next == ~steady' \/ (steady /\ steady' /\ Step)

Spec == Init /\ [][Next]_vars
===============================================================================
