-------------------------- MODULE ServerLifecycle --------------------------
(***************************************************************************)
(* The life of one ServerInstance row and of the llama-server processes    *)
(* behind it: the routes that start, initialize, stop, edit and delete it  *)
(* (server_instances.py), the background tasks they leave behind           *)
(* (server_startup.py), the fencing of stops (server_lifecycle.py), the    *)
(* agent's start and stop handlers (servers.py, llama_server.py), and the  *)
(* three ways the backend hears of a process: the answer to its call, the  *)
(* agent's events, and the agent's registration every minute               *)
(* (agent_manager.py).                                                     *)
(*                                                                         *)
(* A database transaction that locks the row is one step.  One that reads  *)
(* the row without a lock, decides, and writes it later is two, and writes *)
(* only the columns that differ from what it read, as SQLAlchemy's unit of *)
(* work does.  One that decides nothing (set_status, the last steps of a   *)
(* deletion and of a change of settings) reads and writes back to back and *)
(* is one step.  An agent's handler runs from one await to the next.       *)
(* Requests for inference appear only as callers of ensure_server_ready,   *)
(* leases not at all: see InferenceLeases.  No benchmark is running.       *)
(*                                                                         *)
(* An operator that stands right before another and is named after it is a *)
(* mutant of it; no behaviour uses it.                                     *)
(***************************************************************************)
EXTENDS Integers, Sequences, FiniteSets

CONSTANTS
    Clients,        \* calls to the backend; each performs one operation
    Operations,     \* the operations clients perform in this instance
    Faults,         \* what may go wrong in this instance
    MaxFaults,      \* bound on how often something goes wrong
    MaxEvents       \* room for events between agent and backend

AllOperations == {"create", "start", "ready", "initialize", "stop", "delete", "update",
                  "restart"}
AllFaults == {"overlap", "giveup", "prepare", "exit", "slow", "health", "restart", "crash",
              "unreachable", "events"}

ASSUME LifecycleAssumption ==
    /\ IsFiniteSet(Clients)
    /\ Operations \subseteq AllOperations /\ Faults \subseteq AllFaults
    /\ MaxFaults \in Nat /\ MaxEvents \in Nat

VARIABLES
    row,        \* the ServerInstance row
    client,     \* the routes under way
    task,       \* per generation, the background task that started it
    handler,    \* per generation, the agent's handler of POST /servers/start
    agent,      \* the agent's tables: servers, slot_generations, server_health,
                \* _start_locks
    alive,      \* the llama-server processes that exist, by generation
    killers,    \* the calls of LlamaServerManager.stop_server under way
    events,     \* events published and not yet handled by the backend
    report,     \* the registration under way: what the agent's tables said
    staleStop,  \* the generation a registration found outdated, 0 if none
    budget,     \* how often something may still go wrong
    history     \* generations whose process was seen healthy, whether two
                \* processes ever ran at once, whether the backend restarted

backend == <<row, client, task>>
machine == <<handler, agent, alive, killers>>
wire == <<events, report, staleStop>>
vars == <<row, client, task, handler, agent, alive, killers, events, report, staleStop,
          budget, history>>

(* Each client reserves one generation at most, and a row may start at 1.  *)
Gens == 0..(Cardinality(Clients) + 1)
NoProcess == 0

Initializing == {"preparing", "metadata_gathering"}
Uninitialized == {"uninitialized", "initialization_failed"} \union Initializing
Up == {"starting", "running"}
Gone == {"absent", "deleted"}
Statuses == Uninitialized \union Up \union Gone \union
            {"stopped", "stopping", "error", "deleting"}
Healths == {"unknown", "healthy", "unhealthy"}
Rows == [status : Statuses, health : Healths, gen : Gens]
Unread == [status |-> "absent", health |-> "unknown", gen |-> 0]

(* "wantStart", "wantReady", "wantInit": the row was read and found fit;   *)
(* "scheduled": initialize_server was created as a task and has not run;   *)
(* "stop" to "stopError": request_server_stop; "deleteMark", "deleteRow",  *)
(* "updateMark": the rest of the deletion and of the change of settings.   *)
ClientStates == {"idle", "wantStart", "wantReady", "wantInit", "scheduled", "stop",
                 "stopSent", "stopHandled", "stopAnswered", "stopFailed", "stopError",
                 "deleteMark", "deleteRow", "updateMark", "done"}
(* "gate" to "posted": _send_start_with_gate; "answered", "refused",       *)
(* "lost": what became of the call; the others are initialize_server's.    *)
TaskStates == {"none", "prepare", "preparing", "gather", "gate", "cleared", "posted",
               "answered", "refused", "lost", "stopSent", "stopHandled", "stopAnswered",
               "stopFailed", "done"}
HandlerStates == {"none", "arrived", "replacing", "fetching", "waiting", "clearing",
                  "loading", "done"}
EventTypes == {"started", "stopped", "error", "healthy", "unhealthy"}
Stoppers == Clients \union ({"task", "handler", "registration"} \X Gens)

TypeOK ==
    /\ row \in Rows
    /\ client \in [Clients -> [pc : ClientStates, op : AllOperations \union {"none"},
                               gen : Gens, seen : Rows]]
    /\ task \in [Gens -> [kind : {"none", "start", "init"}, pc : TaskStates, seen : Rows,
                          metadata : BOOLEAN]]
    /\ handler \in [Gens -> [pc : HandlerStates, lock : Gens]]
    /\ agent \in [table : Gens, latest : Gens, health : Healths, lock : Gens]
    /\ alive \subseteq Gens
    /\ killers \subseteq [by : Stoppers, gen : Gens]
    /\ events \in Seq([type : EventTypes, gen : Gens]) /\ Len(events) <= MaxEvents
    /\ report \in [sent : BOOLEAN, gen : Gens, healthy : BOOLEAN]
    /\ staleStop \in Gens /\ budget \in 0..MaxFaults
    /\ history \in [ready : SUBSET Gens, doubled : BOOLEAN, restarted : BOOLEAN]

FreshAgent(latest) == [table |-> NoProcess, latest |-> latest, health |-> "unknown", lock |-> 0]
NoReport == [sent |-> FALSE, gen |-> NoProcess, healthy |-> FALSE]
NoClient == [pc |-> "idle", op |-> "none", gen |-> 0, seen |-> Unread]
NoTask == [kind |-> "none", pc |-> "none", seen |-> Unread, metadata |-> FALSE]

(* The row does not exist yet, or its first generation was initialized.    *)
Init ==
    /\ row \in {[status |-> "absent", health |-> "unknown", gen |-> 0],
                [status |-> "stopped", health |-> "unknown", gen |-> 1]}
    /\ client = [c \in Clients |-> NoClient]
    /\ task = [g \in Gens |-> NoTask]
    /\ handler = [g \in Gens |-> [pc |-> "none", lock |-> 0]]
    /\ agent = FreshAgent(row.gen)
    /\ alive = {} /\ killers = {} /\ events = <<>>
    /\ report = NoReport /\ staleStop = 0
    /\ budget = MaxFaults /\ history = [ready |-> {}, doubled |-> FALSE, restarted |-> FALSE]

-----------------------------------------------------------------------------
(* The row *)

Exists == row.status \notin Gone

(* The commit of a transaction that read "seen" without a lock and set the *)
(* columns to those of "new".  Where "overlap" is not among the faults     *)
(* nobody writes the row in between: such a transaction has no effect.     *)
Commits(seen) == Exists /\ ("overlap" \in Faults \/ row = seen)
Commit(seen, new) ==
    IF ~Commits(seen) THEN row
    ELSE [row EXCEPT !.status = IF new.status = seen.status THEN @ ELSE new.status,
                     !.health = IF new.health = seen.health THEN @ ELSE new.health]

SetStatus(status) ==
    row' = IF Exists THEN [row EXCEPT !.status = status, !.health = "unknown"] ELSE row

NextGeneration(gen) == gen + 1

(* The row is locked: reserve the next generation and its dispatch_start.  *)
LaunchStart ==
    LET g == NextGeneration(row.gen)
    IN /\ row' = [status |-> "starting", health |-> "unknown", gen |-> g]
       /\ task' = [task EXCEPT ![g] = [NoTask EXCEPT !.kind = "start", !.pc = "gate"]]

Wrong(fault) == fault \in Faults /\ budget > 0 /\ budget' = budget - 1
Fine == UNCHANGED budget
Goto(c, pc) ==
    client' = [client EXCEPT ![c] = IF pc = "done" THEN [NoClient EXCEPT !.pc = "done"]
                                    ELSE [@ EXCEPT !.pc = pc]]
TaskGoto(g, pc) == task' = [task EXCEPT ![g].pc = pc]
Begins(c, op, pc) ==
    /\ client[c].pc = "idle" /\ op \in Operations
    /\ client' = [client EXCEPT ![c].pc = pc, ![c].op = op,
                                ![c].seen = IF pc = "wantInit" THEN row ELSE Unread]

-----------------------------------------------------------------------------
(* Routes *)

Backend == UNCHANGED <<machine, wire, history>> /\ Fine

(* POST /server-instances/start: the row is created, not locked by anyone. *)
Create(c) ==
    /\ row.status = "absent"
    /\ Begins(c, "create", "scheduled")
    /\ row' = [row EXCEPT !.status = "preparing"]
    /\ UNCHANGED task /\ Backend

ReadToStart(c) ==
    /\ row.status \notin Uninitialized \union Up \union Gone
    /\ Begins(c, "start", "wantStart")
    /\ UNCHANGED <<row, task>> /\ Backend

ReserveStart(c) ==
    /\ client[c].pc = "wantStart"
    /\ Goto(c, "done")
    /\ IF row.status \in Up \union Gone \union {"stopping"} THEN UNCHANGED <<row, task>>
                                                         ELSE LaunchStart
    /\ Backend

ReadForReadiness(c) ==
    /\ row.status \notin Uninitialized \union Up \union Gone \union {"error"}
    /\ Begins(c, "ready", "wantReady")
    /\ UNCHANGED <<row, task>> /\ Backend

EnsureStarted(c) ==
    /\ client[c].pc = "wantReady"
    /\ Goto(c, "done")
    /\ IF row.status \in Up \union Gone THEN UNCHANGED <<row, task>> ELSE LaunchStart
    /\ Backend

ReadToInitialize(c) ==
    /\ row.status \notin Initializing \union Up \union Gone
    /\ Begins(c, "initialize", "wantInit")
    /\ UNCHANGED <<row, task>> /\ Backend

MarkPreparing(c) ==
    /\ client[c].pc = "wantInit"
    /\ row' = Commit(client[c].seen, [row EXCEPT !.status = "preparing", !.health = "unknown"])
    /\ client' = [client EXCEPT ![c].pc = IF Commits(client[c].seen) THEN "scheduled" ELSE "done",
                                ![c].seen = Unread]
    /\ UNCHANGED task /\ Backend

(* initialize_server takes its generation, whatever the row's status.      *)
InitializationBegins(c) ==
    LET g == NextGeneration(row.gen)
    IN /\ client[c].pc = "scheduled"
       /\ Goto(c, "done")
       /\ IF Exists
          THEN /\ row' = [row EXCEPT !.gen = g]
               /\ task' = [task EXCEPT ![g] = [NoTask EXCEPT !.kind = "init", !.pc = "prepare"]]
          ELSE UNCHANGED <<row, task>>
       /\ Backend

ReadToDelete(c) ==
    /\ Exists
    /\ Begins(c, "delete", IF row.status \in Up \union {"stopping", "error"} THEN "stop"
                           ELSE "deleteMark")
    /\ UNCHANGED <<row, task>> /\ Backend

(* A changed model makes a running server stop first; a request to restart *)
(* means something to a running server only.                               *)
ReadToUpdate(c) ==
    /\ row.status \notin Gone \union Initializing \union {"uninitialized", "starting"}
    /\ \/ Begins(c, "update", IF row.status = "running" THEN "stop" ELSE "updateMark")
       \/ row.status = "running" /\ Begins(c, "restart", "stop")
    /\ UNCHANGED <<row, task>> /\ Backend

(* The agent of a server that was not running may be away: nothing is      *)
(* scheduled then.                                                         *)
MarkUninitialized(c) ==
    /\ client[c].pc = "updateMark"
    /\ row' = IF Exists THEN [row EXCEPT !.status = "uninitialized"] ELSE row
    /\ \/ Exists /\ Goto(c, "scheduled")
       \/ (~Exists \/ client[c].gen = 0) /\ Goto(c, "done")
    /\ UNCHANGED task /\ Backend

MarkDeleting(c) ==
    /\ client[c].pc = "deleteMark"
    /\ SetStatus("deleting")
    /\ Goto(c, IF Exists THEN "deleteRow" ELSE "done")
    /\ UNCHANGED task /\ Backend

DeleteRow(c) ==
    /\ client[c].pc = "deleteRow"
    /\ row' = [row EXCEPT !.status = "deleted"]
    /\ Goto(c, "done")
    /\ UNCHANGED task /\ Backend

ReadToStop(c) ==
    /\ Exists
    /\ Begins(c, "stop", "stop")
    /\ UNCHANGED <<row, task>> /\ Backend

(* request_server_stop; with active leases a stop that is not forced fails. *)
RequestStop(c) ==
    /\ client[c].pc = "stop"
    /\ \/ /\ Exists
          /\ row' = [row EXCEPT !.status = "stopping", !.health = "unknown"]
          /\ client' = [client EXCEPT ![c].pc = "stopSent", ![c].gen = row.gen]
       \/ /\ ~Exists \/ client[c].op # "delete"
          /\ Goto(c, "done") /\ UNCHANGED row
    /\ UNCHANGED task /\ Backend

AfterStop(op) == CASE op = "delete" -> "deleteMark" [] op = "update" -> "updateMark"
                   [] op = "restart" -> "wantStart" [] OTHER -> "done"

SettledFromRunning(c) == row.gen = client[c].gen /\ row.status = "running"
SettledAlways(c) == TRUE
Settled(c) == row.gen = client[c].gen /\ row.status = "stopping"

StopSettles(c) ==
    /\ client[c].pc = "stopAnswered"
    /\ row' = IF Settled(c) THEN [row EXCEPT !.status = "stopped", !.health = "unknown"] ELSE row
    /\ Goto(c, IF Exists THEN AfterStop(client[c].op) ELSE "done")
    /\ UNCHANGED task /\ Backend

StopFailureRead(c) ==
    /\ client[c].pc = "stopFailed"
    /\ IF Settled(c) THEN client' = [client EXCEPT ![c].pc = "stopError", ![c].seen = row]
                     ELSE Goto(c, "done")
    /\ UNCHANGED <<row, task>> /\ Backend

StopFailureWrite(c) ==
    /\ client[c].pc = "stopError"
    /\ row' = Commit(client[c].seen, [row EXCEPT !.status = "error", !.health = "unknown"])
    /\ Goto(c, "done")
    /\ UNCHANGED task /\ Backend

-----------------------------------------------------------------------------
(* Background tasks: dispatch_start and initialize_server *)

Launchable(kind) == IF kind = "start" THEN {"starting"} ELSE {"metadata_gathering"}

Gate(g) ==
    /\ task[g].pc = "gate"
    /\ TaskGoto(g, IF row.status \in Launchable(task[g].kind) /\ row.gen = g
                   THEN "cleared" ELSE "answered")
    /\ UNCHANGED <<row, client>> /\ Backend

Post(g) ==
    /\ task[g].pc = "cleared"
    /\ TaskGoto(g, "posted")
    /\ handler' = [handler EXCEPT ![g].pc = "arrived"]
    /\ UNCHANGED <<row, client, agent, alive, killers, wire, history>> /\ Fine

(* The agent is known to be away, or the connection fails or times out.    *)
PostFails(g) ==
    /\ Wrong("giveup")
    /\ \/ task[g].pc = "cleared" /\ \E pc \in {"refused", "lost"} : TaskGoto(g, pc)
       \/ task[g].pc = "posted" /\ TaskGoto(g, "lost")
    /\ UNCHANGED <<row, client, machine, wire, history>>

AcknowledgeableWhateverRuns(g) == row.status \in Up
Acknowledgeable(g) == row.status \in Up /\ row.gen = g
Failable(g) == row.status = "starting" /\ row.gen = g

(* The three ends of dispatch_start: each reads the row, then writes it.   *)
DispatchReads(g) ==
    /\ task[g].kind = "start" /\ task[g].pc \in {"answered", "refused", "lost"}
    /\ task[g].seen = Unread
    /\ IF task[g].pc = "answered" THEN Acknowledgeable(g) ELSE Failable(g)
    /\ task' = [task EXCEPT ![g].seen = row]
    /\ UNCHANGED <<row, client>> /\ Backend

DispatchIsLate(g) ==
    /\ task[g].kind = "start" /\ task[g].pc \in {"answered", "refused", "lost"}
    /\ task[g].seen = Unread
    /\ ~(IF task[g].pc = "answered" THEN Acknowledgeable(g) ELSE Failable(g))
    /\ TaskGoto(g, "done")
    /\ UNCHANGED <<row, client>> /\ Backend

Outcome(t) ==
    CASE t.pc = "answered" -> [t.seen EXCEPT !.status = "running", !.health = "healthy"]
      [] t.pc = "refused" -> [t.seen EXCEPT !.status = "error"]
      [] OTHER -> [t.seen EXCEPT !.health = "unknown"]

DispatchWrites(g) ==
    /\ task[g].kind = "start" /\ task[g].seen # Unread
    /\ row' = Commit(task[g].seen, Outcome(task[g]))
    /\ task' = [task EXCEPT ![g].pc = "done", ![g].seen = Unread]
    /\ UNCHANGED client /\ Backend

BeginPreparation(g) ==
    /\ task[g].pc = "prepare"
    /\ SetStatus("preparing") /\ TaskGoto(g, "preparing")
    /\ UNCHANGED client /\ Backend

PreparationEnds(g) ==
    /\ task[g].pc = "preparing"
    /\ \/ TaskGoto(g, "gather") /\ Fine
       \/ TaskGoto(g, "stopSent") /\ Wrong("prepare")
    /\ UNCHANGED <<row, client, machine, wire, history>>

Gather(g) ==
    /\ task[g].pc = "gather"
    /\ SetStatus("metadata_gathering") /\ TaskGoto(g, "gate")
    /\ UNCHANGED client /\ Backend

(* GET /servers/metadata asks whatever process the agent has, which may    *)
(* still be loading; then, as after every failure, the process is stopped. *)
Inspect(g) ==
    /\ task[g].kind = "init" /\ task[g].pc \in {"answered", "refused", "lost"}
    /\ \/ task' = [task EXCEPT ![g].pc = "stopSent", ![g].metadata =
                        task[g].pc = "answered" /\ agent.table \in alive] /\ Fine
       \/ /\ TaskGoto(g, "stopSent")
          /\ Wrong("prepare") \/ (handler[agent.table].pc = "loading" /\ Fine)
    /\ UNCHANGED <<row, client, machine, wire, history>>

InitializationSettles(g) ==
    /\ task[g].pc \in {"stopAnswered", "stopFailed"}
    /\ SetStatus(IF task[g].metadata /\ task[g].pc = "stopAnswered" THEN "stopped"
                 ELSE "initialization_failed")
    /\ TaskGoto(g, "done")
    /\ UNCHANGED client /\ Backend

-----------------------------------------------------------------------------
(* Calls of the agent's /servers/stop, by routes, by initializations and by *)
(* registrations.                                                          *)

Agent == UNCHANGED <<row, report, history>> /\ Fine

StopVerdict(gen) == CASE agent.table = NoProcess -> "stopAnswered"
                      [] agent.table = gen -> "stopHandled"
                      [] OTHER -> "stopFailed"

Kills(by, gen) ==
    killers' = killers \union IF StopVerdict(gen) = "stopHandled" THEN {[by |-> by, gen |-> gen]}
                              ELSE {}

RouteStopArrives(c) ==
    /\ client[c].pc = "stopSent"
    /\ Goto(c, StopVerdict(client[c].gen)) /\ Kills(c, client[c].gen)
    /\ UNCHANGED <<task, handler, agent, alive, events, staleStop>> /\ Agent

TaskStopArrives(g) ==
    /\ task[g].pc = "stopSent"
    /\ TaskGoto(g, StopVerdict(g)) /\ Kills(<<"task", g>>, g)
    /\ UNCHANGED <<client, handler, agent, alive, events, staleStop>> /\ Agent

StaleStopArrives ==
    /\ staleStop # NoProcess
    /\ staleStop' = NoProcess /\ Kills(<<"registration", staleStop>>, staleStop)
    /\ UNCHANGED <<client, task, handler, agent, alive, events>> /\ Agent

(* The caller's timeout, or a connection that fails on the way there: the  *)
(* agent finishes what it has begun.                                       *)
StopGivenUp ==
    /\ Wrong("giveup")
    /\ \/ /\ \E c \in Clients : client[c].pc \in {"stopSent", "stopHandled"} /\ Goto(c, "stopFailed")
          /\ UNCHANGED task
       \/ /\ \E g \in Gens : task[g].pc \in {"stopSent", "stopHandled"} /\ TaskGoto(g, "stopFailed")
          /\ UNCHANGED client
    /\ UNCHANGED <<row, machine, wire, history>>

-----------------------------------------------------------------------------
(* The agent *)

(* The events' queue drops what it has no room for.                        *)
PublishedAnyway(type, gen) == Append(events, [type |-> type, gen |-> gen])
Published(type, gen) ==
    IF Len(events) < MaxEvents THEN Append(events, [type |-> type, gen |-> gen]) ELSE events

Replied(g, answer) ==
    task' = [task EXCEPT ![g].pc = IF @ = "posted" THEN answer ELSE @]

FencedNever(g) == FALSE
Fenced(g) == g <= agent.latest

(* The handler leaves the lock's block: its lock leaves the table, even if *)
(* another handler waits for it.                                           *)
LockAfter(g) == IF agent.lock = handler[g].lock THEN 0 ELSE agent.lock
Ended(g) == handler' = [handler EXCEPT ![g].pc = "done", ![g].lock = 0]

StartArrives(g) ==
    /\ handler[g].pc = "arrived"
    /\ \/ /\ agent.table = NoProcess /\ ~Fenced(g)
          /\ handler' = [handler EXCEPT ![g].pc = "fetching"]
          /\ UNCHANGED <<task, killers>>
       \/ /\ agent.table # NoProcess /\ g > agent.table
          /\ handler' = [handler EXCEPT ![g].pc = "replacing"]
          /\ killers' = killers \union {[by |-> <<"handler", g>>, gen |-> agent.table]}
          /\ UNCHANGED task
       \/ /\ IF agent.table = NoProcess THEN Fenced(g) ELSE g <= agent.table
          /\ Ended(g)
          /\ Replied(g, IF agent.table = g THEN "answered" ELSE "refused")
          /\ UNCHANGED killers
    /\ UNCHANGED <<client, agent, alive, events, staleStop>> /\ Agent

(* The model's files are there, downloaded if they were missing.           *)
Fetched(g) ==
    /\ handler[g].pc = "fetching"
    /\ LET lock == IF agent.lock = 0 THEN g ELSE agent.lock
       IN /\ handler' = [handler EXCEPT ![g].pc = "waiting", ![g].lock = lock]
          /\ agent' = [agent EXCEPT !.lock = lock]
    /\ UNCHANGED <<client, task, alive, killers, events, staleStop>> /\ Agent

FetchFails(g) ==
    /\ handler[g].pc = "fetching" /\ Wrong("prepare")
    /\ Ended(g) /\ Replied(g, "refused")
    /\ UNCHANGED <<row, client, agent, alive, killers, wire, history>>

LockFree(g) == \A h \in Gens \ {g} : handler[h].lock = handler[g].lock
                                    => handler[h].pc \notin {"clearing", "loading"}

(* start_server once the table is empty: spawn, or refuse an old start.    *)
SpawnUnlessFenced(g, health) ==
    IF Fenced(g)
    THEN /\ Ended(g) /\ Replied(g, "refused")
         /\ agent' = [agent EXCEPT !.table = NoProcess, !.health = health, !.lock = LockAfter(g)]
         /\ UNCHANGED <<alive, history>>
    ELSE /\ handler' = [handler EXCEPT ![g].pc = "loading"]
         /\ agent' = [agent EXCEPT !.table = g, !.latest = g, !.health = health]
         /\ alive' = alive \union {g}
         /\ history' = [history EXCEPT !.doubled = @ \/ alive # {}]
         /\ UNCHANGED task

EnterLock(g) ==
    /\ handler[g].pc = "waiting" /\ LockFree(g)
    /\ \/ /\ agent.table = NoProcess
          /\ SpawnUnlessFenced(g, agent.health)
          /\ UNCHANGED killers
       \/ /\ agent.table # NoProcess /\ g <= agent.table
          /\ Ended(g) /\ Replied(g, "refused")
          /\ agent' = [agent EXCEPT !.lock = LockAfter(g)]
          /\ UNCHANGED <<alive, killers, history>>
       \/ /\ agent.table # NoProcess /\ g > agent.table
          /\ handler' = [handler EXCEPT ![g].pc = "clearing"]
          /\ killers' = killers \union {[by |-> <<"handler", g>>, gen |-> agent.table]}
          /\ UNCHANGED <<task, agent, alive, history>>
    /\ UNCHANGED <<row, client, wire>> /\ Fine

(* _wait_for_server polls the process the table holds, if it holds one,    *)
(* and then the port, where the process it spawned answers.                *)
BecomesReady(g) ==
    /\ handler[g].pc = "loading" /\ g \in alive /\ agent.table \in alive
    /\ agent' = [agent EXCEPT !.health = "healthy", !.lock = LockAfter(g)]
    /\ events' = Published("started", g)
    /\ history' = [history EXCEPT !.ready = @ \union {g}]
    /\ Ended(g) /\ Replied(g, "answered")
    /\ UNCHANGED <<row, client, alive, killers, report, staleStop>> /\ Fine

(* The process in the table has exited, or nothing answers in time, or the *)
(* table has lost the process.  Whatever the table holds by now is killed. *)
LoadingFails(g) ==
    /\ handler[g].pc = "loading"
    /\ \/ agent.table \notin alive /\ Fine
       \/ agent.table \in alive /\ Wrong("slow")
    /\ agent' = [agent EXCEPT !.table = NoProcess, !.health = "unknown", !.lock = LockAfter(g)]
    /\ alive' = alive \ {agent.table}
    /\ events' = Published("error", g)
    /\ Ended(g) /\ Replied(g, "refused")
    /\ UNCHANGED <<row, client, killers, report, staleStop, history>>

ProcessDies(g) ==
    /\ g \in alive
    /\ \/ (\E k \in killers : k.gen = g) /\ Fine
       \/ Wrong("exit")
    /\ alive' = alive \ {g}
    /\ UNCHANGED <<backend, handler, agent, killers, wire, history>>

(* stop_server ends: its entries go, whichever process they are for.       *)
StopReplied(k) ==
    /\ client' = [c \in Clients |-> IF k.by = c /\ client[c].pc = "stopHandled"
                                    THEN [client[c] EXCEPT !.pc = "stopAnswered"] ELSE client[c]]
    /\ task' = [g \in Gens |-> IF k.by = <<"task", g>> /\ task[g].pc = "stopHandled"
                               THEN [task[g] EXCEPT !.pc = "stopAnswered"] ELSE task[g]]

Forgets(k) ==
    /\ killers' = killers \ {k}
    /\ events' = Published("stopped", k.gen)
    /\ UNCHANGED <<row, report, staleStop>> /\ Fine

StopEnds(k) ==
    /\ k.gen \notin alive
    /\ \A g \in Gens : k.by # <<"handler", g>>
    /\ agent' = [agent EXCEPT !.table = NoProcess, !.health = "unknown"]
    /\ StopReplied(k) /\ Forgets(k)
    /\ UNCHANGED <<handler, alive, history>>

ReplacedProcessEnds(k, g) ==
    /\ k.gen \notin alive /\ k.by = <<"handler", g>>
    /\ handler[g].pc = "replacing"
    /\ handler' = [handler EXCEPT ![g].pc = "fetching"]
    /\ agent' = [agent EXCEPT !.table = NoProcess, !.health = "unknown"]
    /\ Forgets(k)
    /\ UNCHANGED <<client, task, alive, history>>

(* Inside the lock the start goes on in the same step.                     *)
ClearedProcessEnds(k, g) ==
    /\ k.gen \notin alive /\ k.by = <<"handler", g>>
    /\ handler[g].pc = "clearing"
    /\ SpawnUnlessFenced(g, "unknown")
    /\ Forgets(k)
    /\ UNCHANGED client

(* The health monitor finds that the process in the table has exited.      *)
ExitNoticed ==
    /\ agent.table # NoProcess /\ agent.table \notin alive
    /\ agent' = [agent EXCEPT !.table = NoProcess, !.health = "unknown"]
    /\ events' = Published("error", agent.table)
    /\ UNCHANGED <<client, task, handler, alive, killers, staleStop>> /\ Agent

HealthChanges ==
    /\ agent.table \in alive
    /\ LET health == IF agent.health = "unhealthy" THEN "healthy" ELSE "unhealthy"
       IN /\ agent' = [agent EXCEPT !.health = health]
          /\ events' = Published(health, agent.table)
          /\ history' = IF health = "healthy"
                     THEN [history EXCEPT !.ready = @ \union {agent.table}] ELSE history
    /\ Wrong("health")
    /\ UNCHANGED <<backend, handler, alive, killers, report, staleStop>>

(* The agent's processes, tables and handlers go; whoever waited for it is *)
(* cut off.                                                                *)
AgentRestarts ==
    /\ Wrong("restart")
    /\ agent' = FreshAgent(0) /\ alive' = {} /\ killers' = {} /\ events' = <<>>
    /\ handler' = [g \in Gens |-> [pc |-> IF handler[g].pc = "none" THEN "none" ELSE "done",
                                   lock |-> 0]]
    /\ client' = [c \in Clients |-> IF client[c].pc = "stopHandled"
                                    THEN [client[c] EXCEPT !.pc = "stopFailed"] ELSE client[c]]
    /\ task' = [g \in Gens |-> CASE task[g].pc = "posted" -> [task[g] EXCEPT !.pc = "lost"]
                                 [] task[g].pc = "stopHandled" -> [task[g] EXCEPT !.pc = "stopFailed"]
                                 [] OTHER -> task[g]]
    /\ UNCHANGED <<row, report, staleStop, history>>

-----------------------------------------------------------------------------
(* What the backend hears of the agent *)

Hears == UNCHANGED <<client, task, machine, history>>

(* _matching_server, and the five handlers.                                *)
EventApplies(e) == Exists /\ row.gen = e.gen

AfterEvent(e) ==
    CASE e.type = "started" /\ row.status \in Up ->
            [row EXCEPT !.status = "running", !.health = "healthy"]
      [] e.type = "stopped" ->
            [row EXCEPT !.status = IF @ \in Initializing THEN @ ELSE "stopped",
                        !.health = "unknown"]
      [] e.type = "error" -> [row EXCEPT !.status = "error", !.health = "unhealthy"]
      [] e.type = "healthy" ->
            [row EXCEPT !.status = IF @ = "starting" THEN "running" ELSE @, !.health = "healthy"]
      [] e.type = "unhealthy" -> [row EXCEPT !.health = "unhealthy"]
      [] OTHER -> row

HandleEvent ==
    /\ events # <<>>
    /\ events' = Tail(events)
    /\ row' = IF EventApplies(Head(events)) THEN AfterEvent(Head(events)) ELSE row
    /\ UNCHANGED <<report, staleStop>> /\ Hears /\ Fine

EventsLost ==
    /\ events # <<>> /\ Wrong("events")
    /\ events' = <<>>
    /\ UNCHANGED <<row, report, staleStop>> /\ Hears

(* The agent registers every minute with what its tables say then.         *)
Register ==
    /\ ~report.sent
    /\ report' = [sent |-> TRUE, gen |-> agent.table,
                  healthy |-> agent.table # NoProcess /\ agent.health = "healthy"]
    /\ UNCHANGED <<row, events, staleStop>> /\ Hears /\ Fine

StoppedIfUp == IF row.status \in Up THEN [row EXCEPT !.status = "stopped", !.health = "unknown"]
               ELSE row

HandleEmptyReport ==
    /\ report.sent /\ report.gen = NoProcess
    /\ report' = NoReport
    /\ row' = StoppedIfUp
    /\ UNCHANGED <<events, staleStop>> /\ Hears /\ Fine

(* A process of the row's generation is believed whatever the row says; a  *)
(* process of another generation is stopped.                               *)
StaleProcessIgnored(gen) == staleStop
StaleProcess(gen) == IF Exists /\ row.gen # gen THEN gen ELSE staleStop

HandleReport ==
    /\ report.sent /\ report.gen # NoProcess /\ staleStop = NoProcess
    /\ report' = NoReport
    /\ row' = IF ~Exists THEN row
              ELSE IF row.gen # report.gen THEN StoppedIfUp
              ELSE IF report.healthy THEN [row EXCEPT !.status = "running", !.health = "healthy"]
              ELSE [row EXCEPT !.status = "starting", !.health = "unknown"]
    /\ staleStop' = StaleProcess(report.gen)
    /\ UNCHANGED events /\ Hears /\ Fine

(* The agent's event connection failed too often.                          *)
AgentUnreachable ==
    /\ Wrong("unreachable")
    /\ row' = StoppedIfUp
    /\ UNCHANGED wire /\ Hears

BackendRestarts ==
    /\ Wrong("crash")
    /\ client' = [c \in Clients |-> IF client[c].pc = "idle" THEN client[c]
                                    ELSE [NoClient EXCEPT !.pc = "done"]]
    /\ task' = [g \in Gens |-> IF task[g].pc = "none" THEN task[g]
                               ELSE [NoTask EXCEPT !.kind = task[g].kind, !.pc = "done"]]
    /\ events' = <<>> /\ staleStop' = NoProcess
    /\ report' \in {report, NoReport}
    /\ history' = [history EXCEPT !.restarted = TRUE]
    /\ UNCHANGED <<row, machine>>

-----------------------------------------------------------------------------
Route(c) ==
    \/ Create(c) \/ ReadToStart(c) \/ ReadForReadiness(c) \/ ReadToInitialize(c)
    \/ ReadToDelete(c) \/ ReadToUpdate(c) \/ ReadToStop(c)
Continue(c) ==
    \/ ReserveStart(c) \/ EnsureStarted(c) \/ MarkPreparing(c) \/ InitializationBegins(c)
    \/ MarkUninitialized(c) \/ MarkDeleting(c) \/ DeleteRow(c)
    \/ RequestStop(c) \/ RouteStopArrives(c) \/ StopSettles(c)
    \/ StopFailureRead(c) \/ StopFailureWrite(c)
Dispatch(g) ==
    \/ Gate(g) \/ Post(g) \/ DispatchReads(g) \/ DispatchIsLate(g) \/ DispatchWrites(g)
Initialize(g) ==
    \/ BeginPreparation(g) \/ PreparationEnds(g) \/ Gather(g) \/ Inspect(g)
    \/ TaskStopArrives(g) \/ InitializationSettles(g)
Start(g) == StartArrives(g) \/ Fetched(g) \/ EnterLock(g) \/ BecomesReady(g) \/ LoadingFails(g)
Stop(k) ==
    \/ StopEnds(k)
    \/ \E g \in Gens : ReplacedProcessEnds(k, g) \/ ClearedProcessEnds(k, g)
Hear == HandleEvent \/ Register \/ HandleEmptyReport \/ HandleReport \/ StaleStopArrives

Next ==
    \/ \E c \in Clients : Route(c) \/ Continue(c)
    \/ \E g \in Gens : \/ Dispatch(g) \/ Initialize(g) \/ PostFails(g)
                       \/ Start(g) \/ FetchFails(g) \/ ProcessDies(g)
    \/ \E k \in killers : Stop(k)
    \/ Hear \/ ExitNoticed \/ StopGivenUp \/ HealthChanges
    \/ AgentRestarts \/ BackendRestarts \/ AgentUnreachable \/ EventsLost

Spec == Init /\ [][Next]_vars

(* Tasks run on, calls are answered, a terminated process exits, exits are *)
(* noticed and the agent keeps registering.  Clients need not do anything. *)
Fairness ==
    /\ \A c \in Clients : WF_vars(Continue(c))
    /\ \A g \in Gens : /\ WF_vars(Dispatch(g)) /\ WF_vars(Initialize(g)) /\ WF_vars(Start(g))
                       /\ WF_vars(ProcessDies(g) /\ Fine)
    /\ \A by \in Stoppers, gen \in Gens : WF_vars(\E k \in killers : k = [by |-> by, gen |-> gen] /\ Stop(k))
    /\ WF_vars(ExitNoticed) /\ WF_vars(HandleEvent) /\ WF_vars(Register)
    /\ WF_vars(HandleEmptyReport \/ HandleReport) /\ WF_vars(StaleStopArrives)

FairSpec == Spec /\ Fairness

-----------------------------------------------------------------------------
(* Properties *)

(* The agent spawns generations in increasing order: a start that was      *)
(* overtaken while it downloaded never replaces the process of a newer one *)
(* (LlamaServerManager.start_server).                                      *)
OvertakenStartNeverSpawns ==
    [][\A g \in alive' \ alive : \A h \in Gens : g <= h => agent.latest # h]_vars

(* A row that says "running" and "healthy" names a generation whose        *)
(* process was seen healthy: ensure_server_ready sends inference there.    *)
(* There are two exceptions: an initialization, which gives its generation *)
(* to the row before it changes the status that a registration may have    *)
(* made "running" again, and an agent that has run two processes at once,  *)
(* whose tables mix them up.                                               *)
ReadyRowsAreServed ==
    /\ row.status = "running" /\ row.health = "healthy"
    /\ task[row.gen].kind # "init" /\ ~history.doubled
    => row.gen \in history.ready

(* The end of a stop, good or bad, leaves the row alone if a start was     *)
(* reserved meanwhile (request_server_stop).                               *)
StopSparesNewerStart ==
    [][\A c \in Clients :
          /\ client[c].pc \in {"stopAnswered", "stopFailed", "stopError"}
          /\ client[c].gen # row.gen
          /\ client'[c] # client[c]
          => row' = row]_vars

(* In the end the row and the agent agree: a row that is up names the      *)
(* process in the agent's table, which runs, and a process in the table    *)
(* has a row that is up, unless the row was deleted.  This is what         *)
(* register_agent, the events and the fencing are for.                     *)
Agree == /\ row.status \in Up => agent.table = row.gen /\ row.gen \in alive
         /\ agent.table # NoProcess /\ Exists => row.status \in Up /\ agent.table = row.gen
Converges == <>[]Agree

(* No row is "stopping" or being initialized for ever, unless the backend  *)
(* restarted (request_server_stop, initialize_server).                     *)
NothingIsHalfDone ==
    <>[](row.status \in Initializing \union {"stopping"} => history.restarted)

-----------------------------------------------------------------------------
(* What the code says of itself, and does not keep *)

(* "so a live process cannot outlive the scheduler state that owns it"     *)
(* (delete_server).                                                        *)
NoProcessOutlivesItsRow == row.status = "deleted" => alive = {}
=============================================================================
