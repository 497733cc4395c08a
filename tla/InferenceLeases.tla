--------------------------- MODULE InferenceLeases ---------------------------
(***************************************************************************)
(* Admission of inference requests by the backend: the InferenceLease rows *)
(* in PostgreSQL, the request that owns each row, the agents' operations,  *)
(* the reconcilers of the backend workers (inference_scheduler.py) and the *)
(* starts, stops and reports that change the servers under them            *)
(* (server_lifecycle.py, server_startup.py, agent_manager.py).             *)
(*                                                                         *)
(* A database transaction is one step; calls to an agent are messages that *)
(* may arrive late or never, and whose sender stops waiting at any time.   *)
(* Time is abstract: a row is "due" once lease_expires_at has passed and   *)
(* "late" once reservation_expires_at has.  An agent keeps a reservation   *)
(* for 15 s and a row stays "reserving" for 12 s at most, so an agent does *)
(* not expire the reservation of a row that is not late.  Agents are those *)
(* of AgentSlots, seen through their routes.                               *)
(*                                                                         *)
(* An operator that stands right before another and is named after it is a *)
(* mutant of it; no behaviour uses it.                                     *)
(***************************************************************************)
EXTENDS Integers, FiniteSets

CONSTANTS
    Requests,       \* one InferenceLease row each
    Servers,        \* ServerInstance rows
    NoServer,       \* server_instance_id IS NULL
    Compatible,     \* the servers a request may run on: model, alias, agent
    Reconcilers,    \* the backend workers' reconciliation loops
    Capacity,       \* server_capacity, what the agent reports
    MaxAttempts,    \* bound on the reservation attempts of a request
    MaxGen,         \* bound on slot generations
    MaxStops,       \* bound on the stop commands under way
    Faults          \* what the environment does in this instance

AllFaults == {"abort", "gone", "crash", "recovery", "health", "report", "exit", "restart",
              "lost", "stop", "clear", "slowdb", "expiry", "window", "latecommit"}

ASSUME LeaseAssumption ==
    /\ IsFiniteSet(Requests) /\ IsFiniteSet(Servers)
    /\ NoServer \notin Servers
    /\ Compatible \in [Requests -> SUBSET Servers]
    /\ Capacity \in Nat \ {0}
    /\ MaxAttempts \in Nat \ {0} /\ MaxGen \in Nat \ {0} /\ MaxStops \in Nat
    /\ Faults \subseteq AllFaults

VARIABLES
    server,     \* the ServerInstance rows
    process,    \* per server, the last generation its agent started, and
                \* whether that process is still up
    row,        \* the InferenceLease rows
    own,        \* the acquire() call and the lease handle of each request
    agent,      \* the agents' operation registries
    net,        \* calls to agents that were sent and not yet handled
    stops,      \* stop commands sent to agents
    rec,        \* the reconciliation under way on each worker
    revived     \* history: rows that were due and whose expiry was moved on

vars == <<server, process, row, own, agent, net, stops, rec, revived>>
world == <<server, process, stops>>
brokers == <<own, rec, revived>>

Waiting == {"queued", "reserving"}
Terminal == {"released", "cancelled", "expired", "failed"}
Live == {"queued", "reserved", "active", "cancelling"}
Ended == {"completed", "cancelled", "failed"}
Gens == 0..MaxGen
Attempts == 0..MaxAttempts

NoRow == [status |-> "absent", server |-> NoServer, gen |-> 0, attempt |-> 0,
          due |-> FALSE, late |-> FALSE, queuedAt |-> 0, place |-> 0]
NoOwner == [pc |-> "new", server |-> NoServer, gen |-> 0, attempt |-> 0,
            aborted |-> FALSE, gone |-> FALSE, lost |-> FALSE, outcome |-> "failed"]
NoOp == [status |-> "absent", gen |-> 0, attempt |-> 0, dispatched |-> FALSE]
Idle == [pc |-> "idle", due |-> {}, late |-> {}, verdict |-> [l \in Requests |-> "none"]]

(* "posted": the reservation was sent; "answered": the agent accepted it;  *)
(* "cleanup", "requeue": the two halves of a failed attempt's cleanup;     *)
(* "held": activated, not yet dispatched; "leaving": acquire() is about to *)
(* raise; "releasing", "closing": the two halves of release().             *)
OwnerStates == {"new", "waiting", "posted", "answered", "cleanup", "requeue", "held",
                "serving", "releasing", "closing", "leaving", "done", "crashed"}

(* What a reconciler knows of an active lease: nothing, that it belongs to *)
(* an old process, that it has to ask, that the agent gave no answer, or   *)
(* the agent's status.                                                     *)
Verdicts == {"none", "ask", "old", "deferred", "unknown"} \union Live \union Ended

ServerRows == [status : {"stopped", "starting", "running", "stopping", "error"},
               healthy : BOOLEAN, gen : Gens]
Rows == [status : {"absent", "active"} \union Waiting \union Terminal,
         server : Servers \union {NoServer}, gen : Gens, attempt : Attempts,
         due : BOOLEAN, late : BOOLEAN, queuedAt : Nat, place : Nat]
Owners == [pc : OwnerStates, server : Servers \union {NoServer}, gen : Gens,
           attempt : Attempts, aborted : BOOLEAN, gone : BOOLEAN, lost : BOOLEAN,
           outcome : Ended \union {"expired"}]
Operations == [status : {"absent"} \union Live \union Ended, gen : Gens,
               attempt : Attempts, dispatched : BOOLEAN]
Calls == [kind : {"reserve", "cancel", "dispatch"}, request : Requests,
          server : Servers \union {NoServer}, gen : Gens, attempt : Attempts]
StopCommands == [server : Servers, gen : Gens, by : {"caller", "cleanup"},
                 handled : BOOLEAN]
Reconciliations == [pc : {"idle", "asking"}, due : SUBSET Requests, late : SUBSET Requests,
                    verdict : [Requests -> Verdicts]]

TypeOK ==
    /\ server \in [Servers -> ServerRows]
    /\ process \in [Servers -> [gen : Gens, up : BOOLEAN]]
    /\ row \in [Requests -> Rows]
    /\ own \in [Requests -> Owners]
    /\ agent \in [Servers -> [Requests -> Operations]]
    /\ net \subseteq Calls
    /\ stops \subseteq StopCommands
    /\ rec \in [Reconcilers -> Reconciliations]
    /\ revived \subseteq Requests

Init ==
    /\ server = [s \in Servers |-> [status |-> "stopped", healthy |-> FALSE, gen |-> 0]]
    /\ process = [s \in Servers |-> [gen |-> 0, up |-> FALSE]]
    /\ row = [l \in Requests |-> NoRow]
    /\ own = [l \in Requests |-> NoOwner]
    /\ agent = [s \in Servers |-> [l \in Requests |-> NoOp]]
    /\ net = {} /\ stops = {}
    /\ rec = [w \in Reconcilers |-> Idle]
    /\ revived = {}

-------------------------------------------------------------------------------
(* Conditions of the transactions. *)

Usable(s) == server[s].status = "running" /\ server[s].healthy

OccupiedByActive(s) == {l \in Requests : /\ row[l].server = s /\ row[l].gen = server[s].gen
                                         /\ row[l].status = "active" /\ ~row[l].due}

(* The rows _claim counts against the capacity. *)
Occupied(s) == {l \in Requests : /\ row[l].server = s /\ row[l].gen = server[s].gen
                                 /\ \/ row[l].status = "reserving"
                                    \/ row[l].status = "active" /\ ~row[l].due}

QueuedFor(s) == {l \in Requests : row[l].status = "queued" /\ ~row[l].due /\ s \in Compatible[l]}

WaitingFor(s) == {l \in Requests : /\ row[l].status \in Waiting /\ ~row[l].due
                                   /\ s \in Compatible[l]}

HeadOfQueued(l, s) == /\ l \in QueuedFor(s)
                      /\ \A k \in QueuedFor(s) : row[l].queuedAt <= row[k].queuedAt

(* oldest_compatible: the head of the queue of a server, a row that is     *)
(* being reserved included.                                                *)
Head(l, s) == /\ l \in WaitingFor(s)
              /\ \A k \in WaitingFor(s) : row[l].queuedAt <= row[k].queuedAt

Requeued(r) == [r EXCEPT !.status = "queued", !.server = NoServer, !.gen = 0,
                         !.attempt = 0, !.late = FALSE]

FinishQueuedAnyway(l, status) == row' = [row EXCEPT ![l].status = status]

(* _finish_queued: only a row that is still waiting. *)
FinishQueued(l, status) ==
    row' = IF row[l].status \in Waiting THEN [row EXCEPT ![l].status = status] ELSE row

(* A handle ends the row of its own generation, if it is still active. *)
EndActive(l, status) ==
    row' = IF row[l].status = "active" /\ row[l].gen = own[l].gen
           THEN [row EXCEPT ![l].status = status] ELSE row

(* A new deadline is later than the "now" of every reconciliation under    *)
(* way, which no longer finds the row expired.                             *)
Forgotten(ls) == [w \in Reconcilers |-> [rec[w] EXCEPT !.due = @ \ ls, !.late = @ \ ls]]

Send(l, kind) ==
    net' = net \union {[kind |-> kind, request |-> l, server |-> own[l].server,
                        gen |-> own[l].gen, attempt |-> own[l].attempt]}

Goto(l, pc) == own' = [own EXCEPT ![l].pc = pc]

-------------------------------------------------------------------------------
(* acquire(). *)

(* queued_at is taken before the row is committed: a row may appear with   *)
(* an earlier time than rows that are in the queue already.  "place" is    *)
(* the order in which the rows appear.                                     *)
Enqueue(l, queuedAt) ==
    LET place == Cardinality({k \in Requests : row[k].place # 0}) + 1 IN
    /\ own[l].pc = "new"
    /\ queuedAt = place \/ "latecommit" \in Faults
    /\ \A k \in Requests : row[k].queuedAt # queuedAt
    /\ row' = [row EXCEPT ![l].status = "queued", ![l].queuedAt = queuedAt, ![l].place = place]
    /\ Goto(l, "waiting")
    /\ UNCHANGED <<world, agent, net, rec, revived>>

(* Why a waiting request leaves the queue. *)
GivesUp(l, outcome) ==
    /\ \/ outcome = "cancelled" /\ (own[l].gone \/ row[l].status # "queued")
       \/ outcome = "expired" /\ row[l].due
       \/ outcome = "failed" /\ \E s \in Compatible[l] : ~Usable(s)
    /\ own[l].pc = "waiting"
    /\ own' = [own EXCEPT ![l].pc = "leaving", ![l].outcome = outcome]
    /\ UNCHANGED <<world, row, agent, net, rec, revived>>

FinishLeaving(l) ==
    /\ own[l].pc = "leaving"
    /\ FinishQueued(l, own[l].outcome)
    /\ Goto(l, "done")
    /\ UNCHANGED <<world, agent, net, rec, revived>>

(* The head of a server's queue claims one of its slots, and asks the      *)
(* agent once the transaction is over.                                     *)
Claim(l, s) ==
    LET attempt == own[l].attempt + 1 IN
    /\ own[l].pc = "waiting" /\ attempt \in Attempts
    /\ Usable(s) /\ Cardinality(Occupied(s)) < Capacity
    /\ Head(l, s) /\ row[l].status = "queued"
    /\ row' = [row EXCEPT ![l].status = "reserving", ![l].server = s,
                          ![l].gen = server[s].gen, ![l].attempt = attempt, ![l].late = FALSE]
    /\ own' = [own EXCEPT ![l].pc = "posted", ![l].server = s,
                          ![l].gen = server[s].gen, ![l].attempt = attempt]
    /\ net' = net \union {[kind |-> "reserve", request |-> l, server |-> s,
                           gen |-> server[s].gen, attempt |-> attempt]}
    /\ rec' = Forgotten({l})
    /\ UNCHANGED <<world, agent, revived>>

(* No answer within 3.5 s. *)
PostFails(l) ==
    /\ own[l].pc = "posted"
    /\ Goto(l, "cleanup")
    /\ UNCHANGED <<world, row, agent, net, rec, revived>>

FinalizableWheneverReserving(l) ==
    /\ Usable(own[l].server) /\ server[own[l].server].gen = own[l].gen
    /\ row[l].status = "reserving" /\ row[l].attempt = own[l].attempt

FinalizableAnywhere(l) ==
    /\ row[l].status = "reserving" /\ row[l].attempt = own[l].attempt
    /\ ~row[l].due /\ ~row[l].late

(* The reservation still stands, on the same process, in time. *)
Finalizable(l) ==
    /\ Usable(own[l].server) /\ server[own[l].server].gen = own[l].gen
    /\ row[l].status = "reserving" /\ row[l].attempt = own[l].attempt
    /\ ~row[l].due /\ ~row[l].late

(* finalize() is shielded: a cancelled request finds out afterwards. *)
Finalize(l) ==
    /\ own[l].pc = "answered"
    /\ \/ /\ Finalizable(l)
          /\ row' = [row EXCEPT ![l].status = "active", ![l].due = FALSE, ![l].late = FALSE]
          /\ rec' = Forgotten({l})
          /\ Goto(l, IF own[l].aborted THEN "cleanup" ELSE "held")
       \/ /\ ~Finalizable(l)
          /\ Goto(l, "cleanup")
          /\ UNCHANGED <<row, rec>>
    /\ UNCHANGED <<world, agent, net, revived>>

(* cleanup() of an attempt that failed: the agent is told, then the row    *)
(* goes back into the queue, or ends when it had been activated.           *)
CleanupCancel(l) ==
    /\ own[l].pc = "cleanup"
    /\ Send(l, "cancel")
    /\ Goto(l, "requeue")
    /\ UNCHANGED <<world, row, agent, rec, revived>>

AfterCleanup(l) ==
    IF row[l].attempt # own[l].attempt THEN row[l]
    ELSE IF row[l].status = "active" THEN [row[l] EXCEPT !.status = "cancelled"]
    ELSE IF row[l].status = "reserving" THEN Requeued(row[l])
    ELSE row[l]

Requeue(l) ==
    /\ own[l].pc = "requeue"
    /\ row' = [row EXCEPT ![l] = AfterCleanup(l)]
    /\ Goto(l, IF own[l].aborted THEN "leaving" ELSE "waiting")
    /\ UNCHANGED <<world, agent, net, rec, revived>>

(* The request's task is cancelled; what is shielded goes on. *)
Abort(l) ==
    /\ "abort" \in Faults /\ ~own[l].aborted
    /\ own[l].pc \in {"waiting", "posted", "answered", "cleanup", "requeue"}
    /\ own' = [own EXCEPT ![l].aborted = TRUE, ![l].outcome = "cancelled",
                          ![l].pc = IF @ = "waiting" THEN "leaving"
                                    ELSE IF @ = "posted" THEN "cleanup" ELSE @]
    /\ UNCHANGED <<world, row, agent, net, rec, revived>>

(* _cancel_when_disconnected: the client of a waiting request is gone. *)
WatcherSees(l) ==
    /\ "gone" \in Faults /\ ~own[l].gone
    /\ own[l].pc \in {"waiting", "posted", "answered", "cleanup", "requeue", "held"}
    /\ own' = [own EXCEPT ![l].gone = TRUE]
    /\ FinishQueued(l, "cancelled")
    /\ UNCHANGED <<world, agent, net, rec, revived>>

-------------------------------------------------------------------------------
(* The lease handle. *)

(* The client went away before acquire() returned. *)
CancelHeld(l) ==
    /\ own[l].pc = "held" /\ own[l].gone
    /\ EndActive(l, "cancelled") /\ Send(l, "cancel")
    /\ Goto(l, "done")
    /\ UNCHANGED <<world, agent, rec, revived>>

Dispatch(l) ==
    /\ own[l].pc = "held" /\ ~own[l].gone
    /\ Send(l, "dispatch")
    /\ Goto(l, "serving")
    /\ UNCHANGED <<world, row, agent, rec, revived>>

(* The request fails before it is dispatched. *)
HeldFails(l) ==
    /\ own[l].pc = "held" /\ ~own[l].gone
    /\ own' = [own EXCEPT ![l].pc = "releasing", ![l].outcome = "failed"]
    /\ UNCHANGED <<world, row, agent, net, rec, revived>>

RenewableUnlessEnded(l) == row[l].status # "absent"

(* A lease is renewed only on the healthy server it was given. *)
Renewable(l) ==
    /\ row[l].status = "active" /\ row[l].gen = own[l].gen
    /\ Usable(own[l].server) /\ server[own[l].server].gen = own[l].gen

(* The loop runs until release() has told the agent. *)
Renew(l) ==
    /\ own[l].pc \in {"serving", "releasing"} /\ ~own[l].lost
    /\ \/ /\ Renewable(l)
          /\ row' = [row EXCEPT ![l].due = FALSE]
          /\ rec' = Forgotten({l})
          /\ revived' = IF row[l].due THEN revived \union {l} ELSE revived
          /\ UNCHANGED own
       \/ /\ ~Renewable(l)
          /\ own' = [own EXCEPT ![l].lost = TRUE]
          /\ UNCHANGED <<row, rec, revived>>
    /\ UNCHANGED <<world, agent, net>>

(* The lease could not be renewed for as long as it lasts. *)
RenewalTimesOut(l) ==
    /\ "slowdb" \in Faults
    /\ own[l].pc \in {"held", "serving"} /\ ~own[l].lost
    /\ row[l].due \/ l \in revived
    /\ own' = [own EXCEPT ![l].lost = TRUE]
    /\ UNCHANGED <<world, row, agent, net, rec, revived>>

(* monitor_disconnect: the row is cancelled before the agent is told. *)
DisconnectSeen(l) ==
    /\ "gone" \in Faults
    /\ own[l].pc \in {"held", "serving", "releasing"} /\ ~own[l].lost
    /\ own' = [own EXCEPT ![l].lost = TRUE]
    /\ EndActive(l, "cancelled") /\ Send(l, "cancel")
    /\ UNCHANGED <<world, agent, rec, revived>>

(* guard(): the answer is in, or the lease, the transport or the client is *)
(* lost.                                                                   *)
ServingEnds(l, outcome) ==
    /\ own[l].pc = "serving"
    /\ \/ /\ outcome = "completed" /\ ~own[l].lost
          /\ agent[own[l].server][l].status = "completed"
          /\ agent[own[l].server][l].attempt = own[l].attempt
       \/ outcome = "failed"
       \/ outcome = "cancelled" /\ "abort" \in Faults
    /\ own' = [own EXCEPT ![l].pc = "releasing", ![l].outcome = outcome]
    /\ UNCHANGED <<world, row, agent, net, rec, revived>>

(* release(): the agent first, then the row. *)
ReleaseCancel(l) ==
    /\ own[l].pc = "releasing"
    /\ IF own[l].outcome = "completed" THEN UNCHANGED net ELSE Send(l, "cancel")
    /\ Goto(l, "closing")
    /\ UNCHANGED <<world, row, agent, rec, revived>>

ReleaseRow(l) ==
    /\ own[l].pc = "closing"
    /\ EndActive(l, IF own[l].outcome = "completed" THEN "released" ELSE own[l].outcome)
    /\ Goto(l, "done")
    /\ UNCHANGED <<world, agent, net, rec, revived>>

(* The worker that runs the request dies. *)
Crash(l) ==
    /\ "crash" \in Faults
    /\ own[l].pc \notin {"new", "done", "crashed"}
    /\ Goto(l, "crashed")
    /\ UNCHANGED <<world, row, agent, net, rec, revived>>

-------------------------------------------------------------------------------
(* The agents. *)

Runs(s, g) == process[s].up /\ process[s].gen = g

Holds(s, l) == agent[s][l].status \in {"reserved", "active", "cancelling"}

Serves(m) == Runs(m.server, m.gen)

AgentHasSlot(s) == Cardinality({l \in Requests : Holds(s, l)}) < Capacity

(* A reservation is accepted or refused; the answer may come too late. *)
AgentReserve(m) ==
    LET op == agent[m.server][m.request]
        accepted == /\ Serves(m)
                    /\ \/ op.status = "absent"
                       \/ op.status = "cancelled" /\ ~op.dispatched
                    /\ AgentHasSlot(m.server)
    IN  /\ m.kind = "reserve" /\ net' = net \ {m}
        /\ IF accepted
           THEN agent' = [agent EXCEPT ![m.server][m.request] =
                            [status |-> "reserved", gen |-> m.gen, attempt |-> m.attempt,
                             dispatched |-> FALSE]]
           ELSE UNCHANGED agent
        /\ \/ /\ own[m.request].pc = "posted" /\ own[m.request].attempt = m.attempt
              /\ Goto(m.request, IF accepted THEN "answered" ELSE "cleanup")
           \/ UNCHANGED own
        /\ UNCHANGED <<world, row, rec, revived>>

AgentCancel(m) ==
    LET op == agent[m.server][m.request] IN
    /\ m.kind = "cancel" /\ net' = net \ {m}
    /\ agent' = IF op.attempt = m.attempt /\ op.status \in {"reserved", "active"}
                THEN [agent EXCEPT ![m.server][m.request].status =
                        IF @ = "reserved" THEN "cancelled" ELSE "cancelling"]
                ELSE agent
    /\ UNCHANGED <<world, row, brokers>>

AgentDispatch(m) ==
    LET op == agent[m.server][m.request] IN
    /\ m.kind = "dispatch" /\ net' = net \ {m}
    /\ agent' = IF op.status = "reserved" /\ op.attempt = m.attempt /\ Serves(m)
                THEN [agent EXCEPT ![m.server][m.request].status = "active",
                                   ![m.server][m.request].dispatched = TRUE]
                ELSE agent
    /\ UNCHANGED <<world, row, brokers>>

(* A cancellation may come between the end of the stream and the moment    *)
(* the operation is told of it.                                            *)
AgentEnds(s, l, outcome) ==
    /\ \/ agent[s][l].status = "active" /\ outcome \in {"completed", "failed"}
       \/ agent[s][l].status = "cancelling" /\ outcome \in Ended
    /\ agent' = [agent EXCEPT ![s][l].status = outcome]
    /\ UNCHANGED <<world, row, net, brokers>>

(* The backend closed the connection, or is gone. *)
AgentClientLost(s, l) ==
    /\ agent[s][l].status = "active"
    /\ ~(own[l].pc = "serving" /\ own[l].attempt = agent[s][l].attempt)
    /\ agent' = [agent EXCEPT ![s][l].status = "cancelled"]
    /\ UNCHANGED <<world, row, net, brokers>>

(* 15 s at the agent are longer than 12 s in the database. *)
AgentExpire(s, l) ==
    /\ agent[s][l].status = "reserved"
    /\ ~(row[l].status = "reserving" /\ row[l].attempt = agent[s][l].attempt /\ ~row[l].late)
    /\ agent' = [agent EXCEPT ![s][l].status = "cancelled"]
    /\ UNCHANGED <<world, row, net, brokers>>

-------------------------------------------------------------------------------
(* reconcile_stale_leases(). *)

Current(l) == row[l].server \in Servers /\ server[row[l].server].gen = row[l].gen

(* The first transaction: what has expired by now, and whom to ask.        *)
RecBegin(w) ==
    /\ rec[w].pc = "idle"
    /\ rec' = [rec EXCEPT ![w] =
         [pc |-> "asking",
          due |-> {l \in Requests : row[l].due},
          late |-> {l \in Requests : row[l].late},
          verdict |-> [l \in Requests |->
              IF row[l].status # "active" THEN "none"
              ELSE IF ~Current(l) THEN "old"
              ELSE IF row[l].due /\ Usable(row[l].server) THEN "ask" ELSE "none"]]]
    /\ UNCHANGED <<world, row, own, agent, net, revived>>

Asked(w, s) == {l \in Requests : rec[w].verdict[l] = "ask" /\ row[l].server = s}

(* A complete list of operations: one that is not in it, or that belongs   *)
(* to another process, is unknown.                                         *)
Reported(s, l) == IF agent[s][l].status # "absent" /\ agent[s][l].gen = row[l].gen
                  THEN agent[s][l].status ELSE "unknown"

Learns(w, s, answer) ==
    rec' = [rec EXCEPT ![w].verdict =
              [l \in Requests |-> IF l \in Asked(w, s) THEN answer[l] ELSE @[l]]]

AgentAnswers(w, s) ==
    /\ rec[w].pc = "asking" /\ Asked(w, s) # {}
    /\ Learns(w, s, [l \in Requests |-> Reported(s, l)])
    /\ UNCHANGED <<world, row, own, agent, net, revived>>

NoAnswer(w, s) ==
    /\ rec[w].pc = "asking" /\ Asked(w, s) # {}
    /\ Learns(w, s, [l \in Requests |-> "deferred"])
    /\ UNCHANGED <<world, row, own, agent, net, revived>>

Lapsed(w, l) == row[l].status = "active" /\ l \in rec[w].due

ExtendedIfAlive(w) == {l \in Requests : Lapsed(w, l) /\ rec[w].verdict[l] \in Live}

(* Leases whose operation is alive, or whose agent is silent, go on. *)
Extended(w) == {l \in Requests : /\ Lapsed(w, l)
                                 /\ rec[w].verdict[l] \in Live \union {"deferred"}}

(* Reservations whose owner has not come back in time.                     *)
Abandoned(w) == {l \in Requests : /\ row[l].status = "reserving"
                                  /\ l \in rec[w].late /\ l \notin rec[w].due}

OverdueInQueue(w) == {l \in Requests : row[l].status = "queued" /\ l \in rec[w].due}

(* Requests that waited too long, in the queue or for a reservation.       *)
Overdue(w) == {l \in Requests : row[l].status \in Waiting /\ l \in rec[w].due}

VerdictAsReported(w, l) ==
    IF rec[w].verdict[l] \in Ended THEN rec[w].verdict[l] ELSE "active"

(* The status an expired active lease gets from the agent's answer.        *)
Verdict(w, l) ==
    CASE rec[w].verdict[l] = "completed"           -> "released"
      [] rec[w].verdict[l] = "cancelled"           -> "cancelled"
      [] rec[w].verdict[l] \in {"failed", "unknown"} -> "failed"
      [] OTHER                                     -> "active"

(* The statements before the last one, in their order. *)
Reconciled(w, l) ==
    IF l \in Abandoned(w) THEN Requeued(row[l])
    ELSE IF l \in Overdue(w) THEN [row[l] EXCEPT !.status = "expired"]
    ELSE IF row[l].status = "active" /\ rec[w].verdict[l] = "old"
    THEN [row[l] EXCEPT !.status = "failed"]
    ELSE IF l \in Extended(w) THEN [row[l] EXCEPT !.due = FALSE]
    ELSE IF Lapsed(w, l) THEN [row[l] EXCEPT !.status = Verdict(w, l)]
    ELSE row[l]

(* The last statements: what is still active and expired, or on a server   *)
(* that cannot be used, fails without further questions.                   *)
Stale(w) == {l \in Requests : /\ Reconciled(w, l).status = "active" /\ Current(l)
                              /\ \/ ~Usable(row[l].server)
                                 \/ l \in rec[w].due \ Extended(w)}

FencedBy(w) == {s \in Servers : /\ ~Usable(s) /\ server[s].status \in {"running", "starting"}
                                /\ \E l \in Stale(w) : row[l].server = s}

RecCommit(w) ==
    /\ rec[w].pc = "asking" /\ \A s \in Servers : Asked(w, s) = {}
    /\ row' = [l \in Requests |-> IF l \in Stale(w) THEN [Reconciled(w, l) EXCEPT !.status = "failed"]
                                  ELSE Reconciled(w, l)]
    /\ revived' = revived \union Extended(w)
    /\ rec' = [Forgotten(Extended(w)) EXCEPT ![w] = Idle]
    /\ server' = [s \in Servers |-> IF s \in FencedBy(w)
                                    THEN [server[s] EXCEPT !.status = "stopping"] ELSE server[s]]
    /\ stops' = stops \union {[server |-> s, gen |-> server[s].gen, by |-> "cleanup",
                               handled |-> FALSE] : s \in FencedBy(w)}
    /\ UNCHANGED <<process, own, agent, net>>

(* A reconciliation that does not get to its end. *)
RecAborts(w) ==
    /\ "recovery" \in Faults /\ rec[w].pc # "idle"
    /\ rec' = [rec EXCEPT ![w] = Idle]
    /\ UNCHANGED <<world, row, own, agent, net, revived>>

ClearQueue ==
    /\ "clear" \in Faults /\ \E l \in Requests : row[l].status \in Waiting
    /\ row' = [l \in Requests |-> IF row[l].status \in Waiting
                                  THEN [row[l] EXCEPT !.status = "cancelled"] ELSE row[l]]
    /\ UNCHANGED <<world, agent, net, brokers>>

-------------------------------------------------------------------------------
(* Time. *)

Lapse(l) ==
    /\ "expiry" \in Faults
    /\ row[l].status \in Waiting \union {"active"} /\ ~row[l].due
    /\ row' = [row EXCEPT ![l].due = TRUE]
    /\ UNCHANGED <<world, agent, net, brokers>>

WindowLapses(l) ==
    /\ "window" \in Faults
    /\ row[l].status = "reserving" /\ ~row[l].late
    /\ row' = [row EXCEPT ![l].late = TRUE]
    /\ UNCHANGED <<world, agent, net, brokers>>

-------------------------------------------------------------------------------
(* The servers. *)

InvalidateNothing(s) == UNCHANGED row

(* _invalidate_server_leases: the active rows of the server fail. *)
Invalidate(s) ==
    row' = [l \in Requests |-> IF row[l].status = "active" /\ row[l].server = s
                               THEN [row[l] EXCEPT !.status = "failed"] ELSE row[l]]

SetServer(s, status, healthy) ==
    server' = [server EXCEPT ![s].status = status, ![s].healthy = healthy]

FailsUnlessReserved(op) ==
    IF op.status \in Live \ {"reserved"} THEN [op EXCEPT !.status = "failed"] ELSE op

(* stop_server_operations: what is alive fails, reservations included. *)
Fails(op) == IF op.status \in Live THEN [op EXCEPT !.status = "failed"] ELSE op

(* The agent's process gives way to another or to none; the operations it  *)
(* had fail.                                                               *)
ReplaceProcess(s, gen, up) ==
    /\ process' = [process EXCEPT ![s] = [gen |-> gen, up |-> up]]
    /\ agent' = [agent EXCEPT ![s] = [l \in Requests |-> Fails(@[l])]]

(* reserve_server_start, or ensure_server_ready, which does not spare a    *)
(* server that is being stopped.                                           *)
StartServer(s) ==
    /\ server[s].status \in {"stopped", "error", "stopping"} /\ server[s].gen < MaxGen
    /\ server' = [server EXCEPT ![s] = [status |-> "starting", healthy |-> FALSE, gen |-> @.gen + 1]]
    /\ UNCHANGED <<process, stops, row, agent, net, brokers>>

(* The agent has started the process, in place of an older one, and says   *)
(* so; it never starts a generation twice.                                 *)
ServerStarted(s) ==
    /\ server[s].status = "starting"
    /\ SetServer(s, "running", TRUE)
    /\ \/ Runs(s, server[s].gen) /\ UNCHANGED <<process, agent>>
       \/ process[s].gen < server[s].gen /\ ReplaceProcess(s, server[s].gen, TRUE)
    /\ UNCHANGED <<stops, row, net, brokers>>

(* _handle_server_health. *)
HealthReport(s, healthy) ==
    /\ "health" \in Faults /\ Runs(s, server[s].gen)
    /\ SetServer(s, IF healthy /\ server[s].status = "starting" THEN "running"
                    ELSE server[s].status, healthy)
    /\ IF healthy THEN UNCHANGED row ELSE Invalidate(s)
    /\ UNCHANGED <<process, stops, agent, net, brokers>>

(* A row that was starting or running is stopped, and its leases end. *)
Unavailable(s) ==
    /\ server[s].status \in {"starting", "running"}
    /\ SetServer(s, "stopped", FALSE)
    /\ Invalidate(s)

(* register_agent: the rows take what a report of their own generation     *)
(* says; a row without one is stopped, and its leases end; a process of    *)
(* another generation is told to stop.                                     *)
AgentRegisters(s) ==
    /\ "report" \in Faults
    /\ \/ /\ Runs(s, server[s].gen)
          /\ \E status \in {"starting", "running"}, healthy \in BOOLEAN :
               SetServer(s, status, healthy)
          /\ UNCHANGED <<row, stops>>
       \/ /\ ~Runs(s, server[s].gen)
          /\ Unavailable(s)
          /\ stops' = IF process[s].up
                      THEN stops \union {[server |-> s, gen |-> process[s].gen,
                                          by |-> "cleanup", handled |-> FALSE]}
                      ELSE stops
    /\ UNCHANGED <<process, agent, net, brokers>>

(* The connection to the agent could not be restored; its servers count as *)
(* stopped although their processes may run on.                            *)
AgentUnreachable(s) ==
    /\ "lost" \in Faults
    /\ Unavailable(s)
    /\ UNCHANGED <<process, stops, agent, net, brokers>>

ProcessExits(s) ==
    /\ "exit" \in Faults /\ process[s].up
    /\ ReplaceProcess(s, process[s].gen, FALSE)
    /\ UNCHANGED <<server, stops, row, net, brokers>>

(* A new agent has no process and an empty registry; the commands it was   *)
(* sent are not sent again.                                                *)
AgentRestarts(s) ==
    /\ "restart" \in Faults /\ process[s].up
    /\ process' = [process EXCEPT ![s].up = FALSE]
    /\ agent' = [agent EXCEPT ![s] = [l \in Requests |-> NoOp]]
    /\ UNCHANGED <<server, stops, row, net, brokers>>

(* server.stopped or server.error of the row's generation. *)
ServerGone(s, status) ==
    /\ ~Runs(s, server[s].gen) /\ server[s].gen # 0
    /\ status \in {"stopped", "error"} \ {server[s].status}
    /\ SetServer(s, status, FALSE)
    /\ Invalidate(s)
    /\ UNCHANGED <<process, stops, agent, net, brokers>>

(* request_server_stop, up to the call of the agent. *)
RequestStop(s, force) ==
    /\ "stop" \in Faults /\ Cardinality(stops) < MaxStops
    /\ force \/ \A l \in Requests : ~(row[l].status = "active" /\ row[l].server = s)
    /\ SetServer(s, "stopping", FALSE)
    /\ Invalidate(s)
    /\ stops' = stops \union {[server |-> s, gen |-> server[s].gen, by |-> "caller",
                               handled |-> FALSE]}
    /\ UNCHANGED <<process, agent, net, brokers>>

(* The agent stops the generation it was told to, if it still runs it.     *)
AgentStops(c) ==
    /\ ~c.handled
    /\ IF Runs(c.server, c.gen) THEN ReplaceProcess(c.server, c.gen, FALSE)
       ELSE UNCHANGED <<process, agent>>
    /\ stops' = (stops \ {c}) \union
                   (IF c.by = "caller" THEN {[c EXCEPT !.handled = TRUE]} ELSE {})
    /\ UNCHANGED <<server, row, net, brokers>>

(* The answer to a stop settles the row, unless it has moved on. *)
StopSettles(c, status) ==
    /\ c.by = "caller"
    /\ \/ c.handled /\ status = "stopped" /\ stops' = stops \ {c}
       \/ status = "error" /\ stops' = (stops \ {c}) \union
             (IF c.handled THEN {} ELSE {[c EXCEPT !.by = "cleanup"]})
    /\ IF server[c.server].gen = c.gen /\ server[c.server].status = "stopping"
       THEN SetServer(c.server, status, FALSE) ELSE UNCHANGED server
    /\ UNCHANGED <<process, row, agent, net, brokers>>

-------------------------------------------------------------------------------
Owner(l) == \/ \E queuedAt \in 1..Cardinality(Requests) : Enqueue(l, queuedAt)
            \/ FinishLeaving(l) \/ PostFails(l) \/ Finalize(l)
            \/ CleanupCancel(l) \/ Requeue(l) \/ Abort(l) \/ WatcherSees(l)
            \/ \E outcome \in {"cancelled", "expired", "failed"} : GivesUp(l, outcome)
            \/ \E s \in Servers : Claim(l, s)

Handle(l) == \/ CancelHeld(l) \/ Dispatch(l) \/ HeldFails(l)
             \/ Renew(l) \/ RenewalTimesOut(l) \/ DisconnectSeen(l)
             \/ \E outcome \in Ended : ServingEnds(l, outcome)
             \/ ReleaseCancel(l) \/ ReleaseRow(l) \/ Crash(l)

Agents == \/ \E m \in net : AgentReserve(m) \/ AgentCancel(m) \/ AgentDispatch(m)
          \/ \E s \in Servers, l \in Requests :
               \/ \E outcome \in Ended : AgentEnds(s, l, outcome)
               \/ AgentClientLost(s, l) \/ AgentExpire(s, l)

Reconciler(w) == \/ RecBegin(w) \/ RecCommit(w) \/ RecAborts(w)
                 \/ \E s \in Servers : AgentAnswers(w, s) \/ NoAnswer(w, s)

Environment == \/ ClearQueue
               \/ \E l \in Requests : Lapse(l) \/ WindowLapses(l)
               \/ \E s \in Servers :
                    \/ StartServer(s) \/ ServerStarted(s)
                    \/ AgentRegisters(s) \/ AgentUnreachable(s) \/ ProcessExits(s) \/ AgentRestarts(s)
                    \/ \E healthy \in BOOLEAN : HealthReport(s, healthy)
                    \/ \E status \in {"stopped", "error"} : ServerGone(s, status)
                    \/ \E force \in BOOLEAN : RequestStop(s, force)
               \/ \E c \in stops : AgentStops(c) \/ \E status \in {"stopped", "error"} :
                                                      StopSettles(c, status)

Next == \/ \E l \in Requests : Owner(l) \/ Handle(l)
        \/ Agents
        \/ \E w \in Reconcilers : Reconciler(w)
        \/ Environment

Spec == Init /\ [][Next]_vars

(* What a request does by itself until it is served, and once its lease is *)
(* lost; how long the LLM works and whether anyone starts a server is open.*)
Progress(l) ==
    \/ FinishLeaving(l) \/ PostFails(l) \/ Finalize(l) \/ CleanupCancel(l) \/ Requeue(l)
    \/ CancelHeld(l) \/ Dispatch(l) \/ HeldFails(l)
    \/ own[l].lost /\ ServingEnds(l, "failed")
    \/ ReleaseCancel(l) \/ ReleaseRow(l)

(* Time passes, coroutines run, a reconciliation follows another, an agent *)
(* that is asked again and again answers, and an agent notices a closed    *)
(* connection, a cancelled task and the end of a reservation.              *)
Fairness ==
    /\ \A l \in Requests :
         /\ WF_vars(Progress(l)) /\ WF_vars(Renew(l)) /\ WF_vars(Lapse(l))
         /\ WF_vars(GivesUp(l, "expired") \/ GivesUp(l, "cancelled"))
         /\ \A s \in Servers : /\ WF_vars(AgentClientLost(s, l))
                               /\ WF_vars(AgentExpire(s, l))
                               /\ WF_vars(AgentEnds(s, l, "cancelled"))
    /\ \A w \in Reconcilers :
         /\ WF_vars(RecBegin(w)) /\ WF_vars(RecCommit(w))
         /\ \A s \in Servers : SF_vars(AgentAnswers(w, s))

FairSpec == Spec /\ Fairness
-------------------------------------------------------------------------------
(* Properties. *)

(* An active lease belongs to the process generation its server has now,   *)
(* and that server is not stopped, stopping or broken: every transaction   *)
(* that takes a server away ends its leases, and none is activated behind  *)
(* it (ARCHITECTURE.md, invariant 5).                                      *)
ActiveOnLiveServer ==
    \A l \in Requests : row[l].status = "active" =>
        Current(l) /\ server[row[l].server].status \in {"running", "starting"}

(* The rows that occupy a server, those being reserved included, never     *)
(* outnumber its slots, except for leases that had expired, were left out  *)
(* of the count and were then renewed after all.                           *)
AdmissionBound ==
    \A s \in Servers :
        Cardinality({l \in Requests \ revived :
                        /\ row[l].server = s /\ row[l].gen = server[s].gen
                        /\ row[l].status = "reserving" \/ (row[l].status = "active" /\ ~row[l].due)})
        <= Capacity

(* Admission is first come, first served on each server: a request is not  *)
(* activated while one that was queued before it, may run there and is not *)
(* expired still waits, whatever became of reservations in between         *)
(* (ARCHITECTURE.md, invariant 3).                                         *)
NoOvertaking ==
    [][\A l \in Requests : row[l].status = "reserving" /\ row'[l].status = "active" =>
         \A k \in Requests :
            row[k].queuedAt < row[l].queuedAt /\ row[k].place < row[l].place =>
               k \notin WaitingFor(row[l].server)]_vars

(* When a reservation becomes a lease, the agent still keeps it, unless    *)
(* the process is gone: no lease is handed out for a slot that the agent   *)
(* has already given away.                                                 *)
FinalizeFindsTheReservation ==
    [][\A l \in Requests : row[l].status = "reserving" /\ row'[l].status = "active" =>
         LET s == row[l].server IN
         \/ ~Runs(s, row[l].gen)
         \/ agent[s][l].status = "reserved" /\ agent[s][l].attempt = row[l].attempt]_vars

(* A row that has ended keeps its status, and one that was activated never *)
(* waits again: late cleanups, watchers, releases and reconciliations do   *)
(* not overwrite each other.                                               *)
StatusNeverGoesBack ==
    [][\A l \in Requests :
         /\ row[l].status \in Terminal => row'[l].status = row[l].status
         /\ row[l].status = "active" => row'[l].status \notin Waiting]_vars

(* What the contract knows of the rows. *)
StageOf(l) == IF row[l].status \in Waiting THEN "waiting" ELSE row[l].status
PlaceOf(l) == IF row[l].status = "active" THEN <<row[l].server, row[l].gen>> ELSE <<NoServer, 0>>

Stage == [l \in Requests |-> StageOf(l)]
Place == [l \in Requests |-> PlaceOf(l)]
Up == {<<s, server[s].gen>> : s \in {t \in Servers : server[t].status \in {"running", "starting"}}}

Contract == INSTANCE LeaseContract
    WITH Places <- Servers \X Gens, Nowhere <- <<NoServer, 0>>,
         stage <- Stage, place <- Place, up <- Up

(* The scheduler implements the contract: late cleanups, watchers,         *)
(* releases and reconciliations never reopen, move or overwrite a lease,   *)
(* and no server changes under one, however they interleave.               *)
KeepsContract == Contract!Spec

Running == [s \in Servers |-> IF process[s].up THEN process[s].gen ELSE 0]

AgentsContract == INSTANCE AgentContract WITH op <- agent, running <- Running, steady <- TRUE

(* The agents of this module, which answer late calls of every attempt and *)
(* generation, keep the contract that AgentSlots implements.               *)
AgentsKeepContract == AgentsContract!Spec

Commits(w) == rec[w].pc = "asking" /\ rec'[w].pc = "idle"

Alive(l) == /\ Reported(row[l].server, l) \in Live
            /\ agent[row[l].server][l].attempt = row[l].attempt

Spares(l) ==
    /\ row[l].status = "reserving" /\ ~row[l].late /\ ~row[l].due => row'[l] = row[l]
    /\ row[l].status = "active" /\ Usable(row[l].server)
         => row'[l].status = "active" \/ ~Alive(l)

(* A reconciliation spares a reservation that is still in its window, and  *)
(* the lease of an operation that is alive on a server that stays healthy, *)
(* even when the agent does not answer and whatever happens in between.    *)
ReconcilerSparesTheLiving ==
    [][\A w \in Reconcilers : Commits(w) => \A l \in Requests : Spares(l)]_vars

(* Every request that is queued or admitted ends or is being served,       *)
(* whether or not its worker survives.                                     *)
LeaseEnds == \A l \in Requests :
    row[l].status \in Waiting \union {"active"} ~>
        (row[l].status \in Terminal \/ own[l].pc = "serving")

(* A request whose lease was taken away stops being served.                *)
LostLeaseStopsService == \A l \in Requests :
    own[l].pc = "serving" /\ row[l].status # "active" ~> own[l].pc # "serving"
===============================================================================
