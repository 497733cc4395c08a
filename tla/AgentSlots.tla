------------------------------ MODULE AgentSlots ------------------------------
(***************************************************************************)
(* The inference slots of one llama-server, as its agent keeps them: the   *)
(* operation registry (inference_operations.py), the slot counter and the  *)
(* dispatch coroutines (proxy.py), the routes the backend calls            *)
(* (api/routes/proxy.py), and the starts and stops of the process that     *)
(* reset them (llama_server.py).                                           *)
(*                                                                         *)
(* The agent is one asyncio loop: a step of this module is what a          *)
(* coroutine does between two suspension points.  Time is abstract: a      *)
(* reservation timer may fire at any moment after it was armed.  Every     *)
(* request names the slot generation it was routed to, as the broker's     *)
(* requests do.  The registry's retention limit (4096 finished operations) *)
(* is not reached.                                                         *)
(*                                                                         *)
(* An operator that stands right before another and is named after it      *)
(* (SlotFreeOffByOne, SlotFree) is a mutant: a plausible mistake that the  *)
(* properties must notice.  No behaviour uses it.                          *)
(***************************************************************************)
EXTENDS Integers, FiniteSets

CONSTANTS
    ReservedOps,    \* request ids that arrive through the reservation protocol
    PlainOps,       \* request ids dispatched without a reservation
    Tokens,         \* reservation ids, one per attempt of the backend
    NoToken,        \* the reservation id of an operation that has none
    Stoppers,       \* callers of stop_server: stop route, start route, monitor
    Capacity,       \* get_effective_capacity
    MaxGen          \* bound on slot generations

Ops == ReservedOps \union PlainOps

(* A request id arrives one way only: the broker reserves every request it *)
(* routes, so an id that was dispatched without a reservation is not       *)
(* reserved afterwards.                                                    *)
ASSUME SlotAssumption ==
    /\ IsFiniteSet(Ops)
    /\ ReservedOps \intersect PlainOps = {}
    /\ NoToken \notin Tokens
    /\ Capacity \in Nat \ {0}
    /\ MaxGen \in Nat

VARIABLES
    config,       \* slot_generation of configs[server_id], 0 when it is absent
    starting,     \* that process has not answered its health check yet
    latest,       \* slot_generations[server_id]
    stopGen,      \* per stop_server call under way, the generation it stops
    ops,          \* _inference_operations
    active,       \* _active_inference_requests[server_id]
    handler,      \* the coroutine that dispatches each operation
    spent,        \* history: reservation ids already accepted, per operation
    contacts,     \* history: requests sent to the LLM, per operation
    overlap,      \* history: a slot was taken during a start or a stop
    gapHit        \* history: operations whose cancellation or timer came between
                  \* consume and bind

vars == <<config, starting, latest, stopGen, ops, active, handler,
          spent, contacts, overlap, gapHit>>

Unfinished == {"queued", "reserved", "active", "cancelling"}
Finished == {"completed", "cancelled", "failed"}
Gens == 0..MaxGen
MaxIdleRetries == 1    \* MAX_PRE_BYTE_IDLE_RETRIES

NoOp == [status |-> "absent", gen |-> 0, token |-> NoToken,
         dispatched |-> FALSE, timer |-> FALSE]
Idle == [pc |-> "idle", gen |-> 0, token |-> NoToken, outcome |-> "failed", retries |-> 0]

Operations == [status : {"absent"} \union Unfinished \union Finished,
               gen : Gens, token : Tokens \union {NoToken},
               dispatched : BOOLEAN, timer : BOOLEAN]

(* "consumed": the request task of a consumed reservation, before the      *)
(* producer has bound itself; "waiting": queued for a slot without a       *)
(* reservation; "admitted": that wait is over but the stream has not       *)
(* resumed; "closing": _connection_finished is scheduled.                  *)
Handlers == [pc : {"idle", "consumed", "waiting", "admitted", "running", "closing"},
             gen : Gens, token : Tokens \union {NoToken},
             outcome : {"completed", "cancelled", "failed"},
             retries : 0..MaxIdleRetries]

TypeOK ==
    /\ config \in Gens /\ latest \in Gens /\ starting \in BOOLEAN
    /\ stopGen \in [Stoppers -> Gens]
    /\ ops \in [Ops -> Operations]
    /\ active \in 0..Capacity
    /\ handler \in [Ops -> Handlers]
    /\ spent \in [Ops -> SUBSET Tokens]
    /\ contacts \in [Ops -> Nat]
    /\ overlap \in BOOLEAN
    /\ gapHit \subseteq Ops

Init ==
    /\ config = 0 /\ latest = 0 /\ starting = FALSE
    /\ stopGen = [s \in Stoppers |-> 0]
    /\ ops = [o \in Ops |-> NoOp]
    /\ active = 0
    /\ handler = [o \in Ops |-> Idle]
    /\ spent = [o \in Ops |-> {}]
    /\ contacts = [o \in Ops |-> 0]
    /\ overlap = FALSE
    /\ gapHit = {}

(* The counter is popped rather than left at zero or below. *)
Decremented(n) == IF n > 1 THEN n - 1 ELSE 0

Stopping == \E s \in Stoppers : stopGen[s] # 0

Unsettled == starting \/ Stopping

TaskDoneAlways(o) == handler[o].pc \in {"idle", "consumed", "admitted", "running"}

(* task.done() of the task an active operation is bound to. *)
TaskDone(o) == handler[o].pc \in {"idle", "admitted"}

(* finish_operation: a finished operation keeps its first outcome. *)
FinishedAs(op, outcome) ==
    IF op.status \in Unfinished THEN [op EXCEPT !.status = outcome, !.timer = FALSE]
    ELSE op

-------------------------------------------------------------------------------
(* Starts and stops of the process. *)

(* A start publishes the configuration, under a generation never used      *)
(* before, as soon as the process exists.                                  *)
StartServer(g) ==
    /\ config = 0 /\ g > latest
    /\ config' = g /\ latest' = g /\ starting' = TRUE
    /\ UNCHANGED <<stopGen, ops, active, handler, spent, contacts, overlap, gapHit>>

StartReady ==
    /\ starting /\ starting' = FALSE
    /\ UNCHANGED <<config, latest, stopGen, ops, active, handler,
                   spent, contacts, overlap, gapHit>>

(* A start that fails withdraws the configuration and touches nothing else. *)
StartFails ==
    /\ starting /\ starting' = FALSE /\ config' = 0
    /\ UNCHANGED <<latest, stopGen, ops, active, handler, spent, contacts, overlap, gapHit>>

(* stop_server_operations: every unfinished operation fails, its task is   *)
(* cancelled and the counter is dropped.                                   *)
FenceOperations ==
    /\ ops' = [o \in Ops |-> FinishedAs(ops[o], "failed")]
    /\ active' = 0

(* stop_server up to proc.wait; the process table still holds the server. *)
StopBegin(s) ==
    /\ config # 0 /\ stopGen[s] = 0
    /\ FenceOperations
    /\ stopGen' = [stopGen EXCEPT ![s] = config]
    /\ UNCHANGED <<config, starting, latest, handler, spent, contacts, overlap, gapHit>>

(* The process has exited: whatever the table holds by now is removed. *)
StopEnd(s) ==
    /\ stopGen[s] # 0
    /\ config' = 0 /\ starting' = FALSE
    /\ stopGen' = [stopGen EXCEPT ![s] = 0]
    /\ UNCHANGED <<latest, ops, active, handler, spent, contacts, overlap, gapHit>>

-------------------------------------------------------------------------------
(* The reservation protocol. *)

ReservableOnceCancelled(o) == ops[o].status \in {"absent", "cancelled"}

(* A known operation may be reserved again only when its last attempt was  *)
(* cancelled before any dispatch.                                          *)
Reservable(o) ==
    \/ ops[o].status = "absent"
    \/ ops[o].status = "cancelled" /\ ~ops[o].dispatched

SlotFreeOffByOne == active <= Capacity

SlotFree == active < Capacity

(* The reservation of attempt t is accepted; refusals change nothing. *)
TryReserve(o, t) ==
    /\ config # 0 /\ t \notin spent[o]
    /\ Reservable(o)
    /\ SlotFree
    /\ ops' = [ops EXCEPT ![o] = [status |-> "reserved", gen |-> config, token |-> t,
                                  dispatched |-> FALSE, timer |-> TRUE]]
    /\ active' = active + 1
    /\ spent' = [spent EXCEPT ![o] = @ \union {t}]
    /\ overlap' = (overlap \/ Unsettled)
    /\ UNCHANGED <<config, starting, latest, stopGen, handler, contacts, gapHit>>

(* A dispatch consumes a reservation of its own token and generation, once. *)
Consumable(o, t) ==
    /\ ops[o].status = "reserved"
    /\ ops[o].token = t
    /\ ops[o].gen = config

Consume(o, t) ==
    /\ config # 0 /\ handler[o].pc = "idle"
    /\ Consumable(o, t)
    /\ ops' = [ops EXCEPT ![o].status = "active", ![o].dispatched = TRUE]
    /\ handler' = [handler EXCEPT ![o] = [Idle EXCEPT !.pc = "consumed",
                                                      !.gen = config, !.token = t]]
    /\ UNCHANGED <<config, starting, latest, stopGen, active, spent, contacts, overlap, gapHit>>

PendingWhenReserved(o) == ops[o].status = "reserved"

(* release_pending_reservation's condition: nothing was sent to the LLM. *)
Pending(o) ==
    \/ ops[o].status = "reserved"
    \/ ops[o].status = "active" /\ TaskDone(o)

ReleaseSlot(o) ==
    /\ ops' = [ops EXCEPT ![o] = FinishedAs(@, "cancelled")]
    /\ active' = Decremented(active)

WithGap(o) == IF handler[o].pc = "consumed" THEN gapHit \union {o} ELSE gapHit

(* The 15 s timer fires.  It survives consume and dies with bind. *)
ExpireReservation(o) ==
    /\ ops[o].timer
    /\ IF Pending(o)
       THEN ReleaseSlot(o) /\ UNCHANGED gapHit
       ELSE /\ ops' = [ops EXCEPT ![o].timer = FALSE]
            /\ gapHit' = WithGap(o)
            /\ UNCHANGED active
    /\ UNCHANGED <<config, starting, latest, stopGen, handler, spent, contacts, overlap>>

(* The cancel route: the token is compared only when one is stored; a      *)
(* pending slot is released, otherwise a queued or active task is          *)
(* cancelled and finishes later.                                           *)
TokenAccepted(o, t) == ops[o].token \in {NoToken, t}

CancelOperation(o, t) ==
    /\ TokenAccepted(o, t)
    /\ \/ /\ Pending(o) /\ ops[o].token = t
          /\ ReleaseSlot(o)
          /\ UNCHANGED gapHit
       \/ /\ ~(Pending(o) /\ ops[o].token = t)
          /\ ops[o].status \in {"queued", "active"}
          /\ ops' = [ops EXCEPT ![o].status = "cancelling"]
          /\ gapHit' = WithGap(o)
          /\ UNCHANGED active
    /\ UNCHANGED <<config, starting, latest, stopGen, handler, spent, contacts, overlap>>

-------------------------------------------------------------------------------
(* Dispatch of a consumed reservation. *)

(* An active operation is bound to its task, its timer is dropped, and the *)
(* LLM is contacted unless _check_generation finds the process gone.       *)
OwnProcess(o) == config # 0 /\ config = handler[o].gen

BindAndContact(o) ==
    /\ ops' = [ops EXCEPT ![o].timer = FALSE]
    /\ \/ /\ OwnProcess(o)
          /\ handler' = [handler EXCEPT ![o].pc = "running"]
          /\ contacts' = [contacts EXCEPT ![o] = @ + 1]
       \/ /\ ~OwnProcess(o)
          /\ handler' = [handler EXCEPT ![o].pc = "closing", ![o].outcome = "failed"]
          /\ UNCHANGED contacts

StillActiveUnchecked(o) == TRUE

(* The operation as a dispatch finds it again before it goes on. *)
StillActive(o) == ops[o].status = "active"

(* The producer's first step: it binds itself if the operation is still    *)
(* active, and gives up without touching the slot otherwise.               *)
Bind(o) ==
    /\ handler[o].pc = "consumed"
    /\ \/ StillActive(o) /\ BindAndContact(o)
       \/ /\ ~StillActive(o)
          /\ handler' = [handler EXCEPT ![o] = Idle]
          /\ UNCHANGED <<ops, contacts>>
    /\ UNCHANGED <<config, starting, latest, stopGen, active, spent, overlap, gapHit>>

(* The client goes away before the producer's first step. *)
AbandonBeforeBind(o) ==
    /\ handler[o].pc = "consumed"
    /\ handler' = [handler EXCEPT ![o] = Idle]
    /\ UNCHANGED <<config, starting, latest, stopGen, ops, active, spent, contacts, overlap, gapHit>>

-------------------------------------------------------------------------------
(* Dispatch without a reservation. *)

(* _connection_started takes a slot, for a stream that has yet to resume   *)
(* or for a plain request that goes on at once.                            *)
TakeSlot(o, op) ==
    /\ active' = active + 1
    /\ overlap' = (overlap \/ Unsettled)
    /\ ops' = [ops EXCEPT ![o] = [op EXCEPT !.status = "active"]]
    /\ \/ /\ handler' = [handler EXCEPT ![o] = [Idle EXCEPT !.pc = "admitted", !.gen = config]]
          /\ UNCHANGED contacts
       \/ /\ handler' = [handler EXCEPT ![o] = [Idle EXCEPT !.pc = "running", !.gen = config]]
          /\ contacts' = [contacts EXCEPT ![o] = @ + 1]

PlainArrive(o) ==
    LET op == [NoOp EXCEPT !.status = "queued", !.gen = config] IN
    /\ config # 0 /\ ops[o].status = "absent" /\ handler[o].pc = "idle"
    /\ \/ SlotFree /\ TakeSlot(o, op)
       \/ /\ ~SlotFree
          /\ ops' = [ops EXCEPT ![o] = op]
          /\ handler' = [handler EXCEPT ![o] = [Idle EXCEPT !.pc = "waiting", !.gen = config]]
          /\ UNCHANGED <<active, contacts, overlap>>
    /\ UNCHANGED <<config, starting, latest, stopGen, spent, gapHit>>

PlainAdmit(o) ==
    /\ handler[o].pc = "waiting" /\ ops[o].status = "queued"
    /\ OwnProcess(o) /\ SlotFree
    /\ TakeSlot(o, ops[o])
    /\ UNCHANGED <<config, starting, latest, stopGen, spent, gapHit>>

(* A wait ends without a slot: cancelled, its client gone, or the waiter   *)
(* finds another process in place.                                         *)
PlainGiveUp(o) ==
    /\ handler[o].pc = "waiting"
    /\ \/ ops' = [ops EXCEPT ![o] = FinishedAs(@, "cancelled")]
       \/ ~OwnProcess(o) /\ ops' = [ops EXCEPT ![o] = FinishedAs(@, "failed")]
    /\ handler' = [handler EXCEPT ![o] = Idle]
    /\ UNCHANGED <<config, starting, latest, stopGen, active, spent, contacts, overlap, gapHit>>

(* The stream resumes and looks at its operation again before it binds. *)
PlainResume(o) ==
    /\ handler[o].pc = "admitted"
    /\ \/ StillActive(o) /\ BindAndContact(o)
       \/ /\ ~StillActive(o)
          /\ handler' = [handler EXCEPT ![o].pc = "closing", ![o].outcome = "cancelled"]
          /\ UNCHANGED <<ops, contacts>>
    /\ UNCHANGED <<config, starting, latest, stopGen, active, spent, overlap, gapHit>>

-------------------------------------------------------------------------------
(* The end of a dispatch. *)

ReplayableEvenIfReserved(o) == handler[o].retries < MaxIdleRetries

(* A read timeout before the first byte is retried once, unless the slot   *)
(* was reserved.                                                           *)
Replayable(o) == handler[o].token = NoToken /\ handler[o].retries < MaxIdleRetries

IdleRetry(o) ==
    /\ handler[o].pc = "running" /\ ops[o].status = "active"
    /\ Replayable(o) /\ OwnProcess(o)
    /\ handler' = [handler EXCEPT ![o].retries = @ + 1]
    /\ contacts' = [contacts EXCEPT ![o] = @ + 1]
    /\ UNCHANGED <<config, starting, latest, stopGen, ops, active, spent, overlap, gapHit>>

(* Upstream EOF or an error, unless the task has been cancelled. *)
UpstreamEnds(o, outcome) ==
    /\ handler[o].pc = "running" /\ ops[o].status = "active"
    /\ outcome \in {"completed", "failed"}
    /\ handler' = [handler EXCEPT ![o].pc = "closing", ![o].outcome = outcome]
    /\ UNCHANGED <<config, starting, latest, stopGen, ops, active, spent, contacts, overlap, gapHit>>

(* The task is cancelled, by the cancel route, a stop or a lost client. *)
Interrupted(o) ==
    /\ handler[o].pc \in {"admitted", "running"}
    /\ handler' = [handler EXCEPT ![o].pc = "closing", ![o].outcome = "cancelled"]
    /\ UNCHANGED <<config, starting, latest, stopGen, ops, active, spent, contacts, overlap, gapHit>>

OwnSlotOfAnyGeneration(o) == config # 0

(* _connection_finished returns the slot of its own generation only. *)
OwnSlot(o) == config # 0 /\ config = handler[o].gen

ConnectionFinished(o) ==
    /\ handler[o].pc = "closing"
    /\ active' = IF OwnSlot(o) THEN Decremented(active) ELSE active
    /\ ops' = [ops EXCEPT ![o] = FinishedAs(@, handler[o].outcome)]
    /\ handler' = [handler EXCEPT ![o] = Idle]
    /\ UNCHANGED <<config, starting, latest, stopGen, spent, contacts, overlap, gapHit>>

-------------------------------------------------------------------------------
Process == \/ \E g \in Gens : StartServer(g)
           \/ StartReady \/ StartFails
           \/ \E s \in Stoppers : StopBegin(s) \/ StopEnd(s)

Callers == \/ \E o \in ReservedOps, t \in Tokens : TryReserve(o, t) \/ Consume(o, t)
           \/ \E o \in Ops, t \in Tokens : CancelOperation(o, t)
           \/ \E o \in PlainOps : PlainArrive(o)

(* What an operation's own coroutine or timer does next. *)
Progress(o) == \/ ExpireReservation(o) \/ Bind(o) \/ AbandonBeforeBind(o)
               \/ PlainAdmit(o) \/ PlainGiveUp(o) \/ PlainResume(o)
               \/ \E outcome \in Finished : UpstreamEnds(o, outcome)
               \/ IdleRetry(o) \/ Interrupted(o) \/ ConnectionFinished(o)

Next == Process \/ Callers \/ \E o \in Ops : Progress(o)

Spec == Init /\ [][Next]_vars

(* Timers fire, runnable coroutines run, the LLM's answer ends (a read     *)
(* timeout bounds it) and a signalled process exits.  Nobody owes a        *)
(* dispatch, a cancellation or a start.                                    *)
Fairness ==
    /\ \A o \in Ops :
         /\ WF_vars(ExpireReservation(o))
         /\ WF_vars(Bind(o))
         /\ WF_vars(PlainResume(o))
         /\ WF_vars((\E outcome \in Finished : UpstreamEnds(o, outcome)) \/ Interrupted(o))
         /\ WF_vars(ConnectionFinished(o))
    /\ \A s \in Stoppers : WF_vars(StopEnd(s))

FairSpec == Spec /\ Fairness
-------------------------------------------------------------------------------
(* Properties. *)

(* The operations that occupy a slot of the LLM.  A queued operation that  *)
(* is being cancelled never had one.                                       *)
Holds(o) == \/ ops[o].status \in {"reserved", "active"}
            \/ ops[o].status = "cancelling" /\ handler[o].pc # "waiting"

Holders == {o \in Ops : Holds(o)}

(* The slot counter of _active_inference_requests is the number of         *)
(* operations that hold a slot: none is returned twice or forgotten,       *)
(* whatever the order of timers, cancellations, stops and finishing        *)
(* dispatches, as long as no slot was taken during a start or a stop.      *)
SlotAccounting == ~overlap => active = Cardinality(Holders)

(* The LLM process never serves more requests than its capacity: those     *)
(* running under the generation now in place.                              *)
CapacityRespected ==
    ~overlap => Cardinality({o \in Ops : /\ handler[o].pc = "running"
                                         /\ handler[o].gen = config}) <= Capacity

(* Every held slot has somebody that will return it, a timer or the        *)
(* coroutine of its dispatch, unless a cancellation or the timer itself    *)
(* came between consume and bind.                                          *)
HeldSlotHasOwner ==
    \A o \in Ops \ gapHit :
        Holds(o) => \/ ops[o].timer
                    \/ handler[o].pc \in {"admitted", "running", "closing"}

(* A request reaches the LLM only while its operation is alive, even when  *)
(* its dispatch was already past the route when that ended, and it does so *)
(* once, however often it is reserved, cancelled, expired and reserved     *)
(* again; without a reservation, once more when the LLM stayed silent.     *)
ContactedInTime ==
    [][\A o \in Ops : contacts'[o] # contacts[o] =>
         /\ ops[o].status \notin Finished \union {"cancelling"}
         /\ contacts'[o] <= IF o \in ReservedOps THEN 1 ELSE 1 + MaxIdleRetries]_vars

(* What the backend may know of an operation: one that waits for a slot    *)
(* still waits while it is being cancelled.                                *)
Reported(o) ==
    [status |-> IF handler[o].pc = "waiting" /\ ops[o].status = "cancelling" THEN "queued"
                ELSE ops[o].status,
     gen |-> ops[o].gen, attempt |-> ops[o].token, dispatched |-> ops[o].dispatched]

Registry == [s \in {"llama-server"} |-> [o \in Ops |-> Reported(o)]]
Running == [s \in {"llama-server"} |-> IF Unsettled THEN 0 ELSE config]

Contract == INSTANCE AgentContract
    WITH Servers <- {"llama-server"}, Requests <- Ops, Attempts <- Tokens \union {NoToken},
         op <- Registry, running <- Running, steady <- ~overlap

(* The registry, its counter, timers and coroutines implement what the     *)
(* broker relies on: an operation is never in two slots, dispatched twice, *)
(* reopened or taken for one of another process, and a process that goes   *)
(* takes its operations with it, as long as no slot was taken during a     *)
(* start or a stop.                                                        *)
KeepsContract == Contract!Spec

(* A slot is returned in the end, whatever became of the client, the       *)
(* dispatch and the process.                                               *)
SlotsAreReturned == \A o \in Ops : Holds(o) ~> (~Holds(o) \/ o \in gapHit)

(* ARCHITECTURE.md: "A slot is held from agent reservation through         *)
(* upstream completion/cancellation": no slot is held by an operation that *)
(* was cancelled and has no dispatch left to end.                          *)
NoSlotHeldAfterCancellation ==
    \A o \in Ops : ops[o].status = "cancelling" => handler[o].pc # "idle"
===============================================================================
