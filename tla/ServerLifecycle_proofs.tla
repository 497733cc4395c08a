------------------------ MODULE ServerLifecycle_proofs ------------------------
(***************************************************************************)
(* What ServerLifecycle keeps for any number of calls, faults and events:  *)
(* the types of its state, the order in which an agent spawns generations, *)
(* the end of a stop that a newer start has overtaken, and the process     *)
(* behind a row that says it is ready.                                     *)
(***************************************************************************)
EXTENDS ServerLifecycle, FiniteSetTheorems, TLAPS

-----------------------------------------------------------------------------
(* The parts of the type invariant. *)

ClientRec == [pc : ClientStates, op : AllOperations \union {"none"}, gen : Gens, seen : Rows]
TaskRec == [kind : {"none", "start", "init"}, pc : TaskStates, seen : Rows, metadata : BOOLEAN]
HandlerRec == [pc : HandlerStates, lock : Gens]
AgentRec == [table : Gens, latest : Gens, health : Healths, lock : Gens]
Event == [type : EventTypes, gen : Gens]
KillerRec == [by : Stoppers, gen : Gens]
ReportRec == [sent : BOOLEAN, gen : Gens, healthy : BOOLEAN]
HistoryRec == [ready : SUBSET Gens, doubled : BOOLEAN, restarted : BOOLEAN]

ClientTypes == client \in [Clients -> ClientRec]
TaskTypes == task \in [Gens -> TaskRec]
HandlerTypes == handler \in [Gens -> HandlerRec]
EventTypesOK == events \in Seq(Event) /\ Len(events) <= MaxEvents

(* The calls that may still reserve a generation.                          *)
Left == {c \in Clients : client[c].pc # "done"}

(* Every call that is left may reserve one generation more.                *)
GenerationsLeft == row.gen + Cardinality(Left) <= Cardinality(Clients) + 1

(* The inductive invariant behind the types.                               *)
Inv == TypeOK /\ GenerationsLeft

(* The writers of each part of the state.                                  *)
RowRoute(c) ==
    \/ Create(c) \/ ReserveStart(c) \/ EnsureStarted(c) \/ MarkPreparing(c)
    \/ InitializationBegins(c) \/ MarkUninitialized(c) \/ MarkDeleting(c) \/ DeleteRow(c)
    \/ RequestStop(c) \/ StopSettles(c) \/ StopFailureWrite(c)
RowTask(g) ==
    DispatchWrites(g) \/ BeginPreparation(g) \/ Gather(g) \/ InitializationSettles(g)
RowHearing == HandleEvent \/ HandleEmptyReport \/ HandleReport \/ AgentUnreachable

TaskRoute(c) == ReserveStart(c) \/ EnsureStarted(c) \/ InitializationBegins(c)
TaskOwn(g) ==
    \/ Gate(g) \/ Post(g) \/ PostFails(g) \/ DispatchReads(g) \/ DispatchIsLate(g)
    \/ DispatchWrites(g) \/ Initialize(g)
TaskReply(g) ==
    StartArrives(g) \/ FetchFails(g) \/ EnterLock(g) \/ BecomesReady(g) \/ LoadingFails(g)
Clears == \E k \in killers, g \in Gens : ClearedProcessEnds(k, g)
Replaces == \E k \in killers, g \in Gens : ReplacedProcessEnds(k, g)
Ends == \E k \in killers : StopEnds(k)

OnBackend ==
    \/ \E c \in Clients : Route(c) \/ Continue(c)
    \/ \E g \in Gens : Dispatch(g) \/ Initialize(g) \/ PostFails(g)
    \/ StopGivenUp

StopArrives ==
    \/ \E c \in Clients : RouteStopArrives(c)
    \/ \E g \in Gens : TaskStopArrives(g)
    \/ StaleStopArrives

-----------------------------------------------------------------------------
(* The invariants behind a row that says it is ready. *)

Unposted == {"none", "prepare", "preparing", "gather", "gate", "cleared"}
Endings == {"answered", "refused", "lost"}

(* Tasks belong to generations that the row has had by now.                *)
TasksInOrder == \A g \in Gens : task[g].pc # "none" => g # 0 /\ g <= row.gen

(* A handler comes from the call of its task.                              *)
HandlersAreCalled == \A g \in Gens : task[g].pc \in Unposted => handler[g].pc = "none"

(* The agent knows no generation that it has not spawned.                  *)
Spawned(g) == handler[g].pc \in {"loading", "done"}
KnownAreSpawned ==
    /\ 0 \notin alive
    /\ \A g \in Gens :
          \/ g \in alive \/ g \in history.ready
          \/ g # 0 /\ (g = agent.table \/ g = report.gen)
          => Spawned(g)

(* What a task has read without a lock is its own generation, at one of    *)
(* the ends of dispatch_start, and up if the agent has answered.           *)
ReadsAreOwn ==
    \A g \in Gens : task[g].seen # Unread =>
        /\ task[g].kind = "start" /\ task[g].pc \in Endings /\ task[g].seen.gen = g
        /\ task[g].pc = "answered" => task[g].seen.status \in Up

(* A start that was sent is answered well only once its process is ready.  *)
AnswersAreTrue ==
    \A g \in Gens : task[g].pc = "answered" /\ handler[g].pc # "none" => g \in history.ready

(* A start that was not sent finds its row starting, at first, and never   *)
(* running; once the gate has refused it, not up at all.                   *)
UnsentAreNotUp ==
    \A g \in Gens : task[g].kind = "start" /\ handler[g].pc = "none" /\ row.gen = g =>
        /\ row.status # "running"
        /\ task[g].pc = "answered" => row.status # "starting"

(* What the agent says of the health of a process is true, as long as it   *)
(* has not run two at once.                                                *)
OneAtATime == ~history.doubled => \A g, h \in alive : g = h
TableIsTrue == agent.health = "healthy" /\ ~history.doubled => agent.table \in history.ready
ReportIsTrue == report.healthy /\ ~history.doubled => report.gen \in history.ready
EventsAreTrue ==
    \A i \in DOMAIN events :
        events[i].type \in {"started", "healthy"} => events[i].gen \in history.ready

(* A row that says "healthy" names a generation that was seen healthy.     *)
RowIsTrue ==
    row.health = "healthy" /\ task[row.gen].kind # "init" /\ ~history.doubled
    => row.gen \in history.ready

-----------------------------------------------------------------------------
(* Who writes what. *)

(* The row is written by eleven steps of the routes, by four of the        *)
(* background tasks and by what the backend hears of the agent.            *)
LEMMA RowWriters ==
    ASSUME Next
    PROVE  \/ row' = row
           \/ \E c \in Clients : RowRoute(c)
           \/ \E g \in Gens : RowTask(g)
           \/ RowHearing
<1>1. ASSUME NEW c \in Clients, Route(c) PROVE row' = row \/ RowRoute(c)
  BY <1>1 DEF Route, RowRoute, ReadToStart, ReadForReadiness, ReadToInitialize, ReadToDelete,
              ReadToUpdate, ReadToStop
<1>2. ASSUME NEW c \in Clients, Continue(c) PROVE row' = row \/ RowRoute(c)
  BY <1>2 DEF Continue, RowRoute, RouteStopArrives, StopFailureRead, Agent
<1>3. ASSUME NEW g \in Gens, Dispatch(g) \/ Initialize(g) PROVE row' = row \/ RowTask(g)
  BY <1>3 DEF Dispatch, Initialize, RowTask, Gate, Post, DispatchReads, DispatchIsLate,
              PreparationEnds, Inspect, TaskStopArrives, Agent
<1>4. ASSUME NEW g \in Gens, PostFails(g) \/ FetchFails(g) \/ ProcessDies(g) PROVE row' = row
  BY <1>4 DEF PostFails, FetchFails, ProcessDies, backend
<1>5. ASSUME NEW g \in Gens, Start(g) PROVE row' = row
  BY <1>5 DEF Start, StartArrives, Fetched, EnterLock, BecomesReady, LoadingFails, Agent
<1>6. ASSUME NEW k \in killers, Stop(k) PROVE row' = row
  BY <1>6 DEF Stop, StopEnds, ReplacedProcessEnds, ClearedProcessEnds, Forgets
<1>7. CASE Hear \/ ExitNoticed \/ AgentUnreachable \/ EventsLost
  BY <1>7 DEF Hear, RowHearing, Register, StaleStopArrives, ExitNoticed, EventsLost, Agent
<1>8. CASE StopGivenUp \/ HealthChanges \/ AgentRestarts \/ BackendRestarts
  BY <1>8 DEF StopGivenUp, HealthChanges, AgentRestarts, BackendRestarts, backend
<1> QED BY <1>1, <1>2, <1>3, <1>4, <1>5, <1>6, <1>7, <1>8 DEF Next

(* The calls move by themselves, by the end of the stop they wait for, and *)
(* by timeouts and restarts.                                               *)
LEMMA ClientWriters ==
    ASSUME Next
    PROVE  \/ client' = client
           \/ \E c \in Clients : Route(c) \/ Continue(c)
           \/ StopGivenUp \/ Ends \/ AgentRestarts \/ BackendRestarts
<1>1. ASSUME NEW g \in Gens, Dispatch(g) \/ Initialize(g) PROVE client' = client
  <2>1. CASE Dispatch(g)
    BY <2>1 DEF Dispatch, Gate, Post, DispatchReads, DispatchIsLate, DispatchWrites
  <2>2. CASE Initialize(g)
    BY <2>2 DEF Initialize, BeginPreparation, PreparationEnds, Gather, Inspect,
                TaskStopArrives, InitializationSettles
  <2> QED BY <1>1, <2>1, <2>2
<1>2. ASSUME NEW g \in Gens, PostFails(g) \/ FetchFails(g) \/ ProcessDies(g)
      PROVE  client' = client
  BY <1>2 DEF PostFails, FetchFails, ProcessDies, backend
<1>3. ASSUME NEW g \in Gens, Start(g) PROVE client' = client
  BY <1>3 DEF Start, StartArrives, Fetched, EnterLock, BecomesReady, LoadingFails
<1>4. ASSUME NEW k \in killers, Stop(k) PROVE client' = client \/ Ends
  BY <1>4 DEF Stop, Ends, ReplacedProcessEnds, ClearedProcessEnds
<1>5. CASE Hear \/ ExitNoticed \/ AgentUnreachable \/ EventsLost
  BY <1>5 DEF Hear, HandleEvent, HandleEmptyReport, HandleReport, Register, StaleStopArrives,
              ExitNoticed, AgentUnreachable, EventsLost, Hears
<1>6. CASE HealthChanges BY <1>6 DEF HealthChanges, backend
<1> QED BY <1>1, <1>2, <1>3, <1>4, <1>5, <1>6 DEF Next

(* A task is created by a route and moves by itself, by the agent's answer *)
(* to its start, by the end of its stop, and by timeouts and restarts.     *)
LEMMA TaskWriters ==
    ASSUME Next
    PROVE  \/ task' = task
           \/ \E c \in Clients : TaskRoute(c)
           \/ \E g \in Gens : TaskOwn(g) \/ TaskReply(g)
           \/ Clears \/ Ends \/ StopGivenUp \/ AgentRestarts \/ BackendRestarts
<1>1. ASSUME NEW c \in Clients, Route(c) PROVE task' = task
  BY <1>1 DEF Route, Create, ReadToStart, ReadForReadiness, ReadToInitialize, ReadToDelete,
              ReadToUpdate, ReadToStop
<1>2. ASSUME NEW c \in Clients, Continue(c) PROVE task' = task \/ TaskRoute(c)
  BY <1>2 DEF Continue, TaskRoute, MarkPreparing, MarkUninitialized, MarkDeleting, DeleteRow,
              RequestStop, RouteStopArrives, StopSettles, StopFailureRead, StopFailureWrite
<1>3. ASSUME NEW g \in Gens, Dispatch(g) \/ Initialize(g) \/ PostFails(g) PROVE TaskOwn(g)
  BY <1>3 DEF Dispatch, TaskOwn
<1>4. ASSUME NEW g \in Gens, Start(g) \/ FetchFails(g) PROVE task' = task \/ TaskReply(g)
  BY <1>4 DEF Start, TaskReply, Fetched
<1>5. ASSUME NEW k \in killers, Stop(k) PROVE task' = task \/ Ends \/ Clears
  BY <1>5 DEF Stop, Ends, Clears, ReplacedProcessEnds
<1>6. CASE Hear \/ ExitNoticed \/ AgentUnreachable \/ EventsLost
  BY <1>6 DEF Hear, HandleEvent, HandleEmptyReport, HandleReport, Register, StaleStopArrives,
              ExitNoticed, AgentUnreachable, EventsLost, Hears
<1>7. ASSUME NEW g \in Gens, ProcessDies(g) PROVE task' = task BY <1>7 DEF ProcessDies, backend
<1>8. CASE HealthChanges BY <1>8 DEF HealthChanges, backend
<1> QED BY <1>1, <1>2, <1>3, <1>4, <1>5, <1>6, <1>7, <1>8 DEF Next

(* The handler of a start is created by its call and moves by itself, by   *)
(* the end of the process it replaces, and by a restart of the agent.      *)
LEMMA HandlerWriters ==
    ASSUME Next
    PROVE  \/ handler' = handler
           \/ \E g \in Gens : Post(g) \/ Fetched(g) \/ TaskReply(g)
           \/ Replaces \/ Clears \/ AgentRestarts
<1>1. ASSUME NEW c \in Clients, Route(c) \/ Continue(c) PROVE handler' = handler
  <2>1. CASE Route(c)
    BY <2>1 DEF Route, Create, ReadToStart, ReadForReadiness, ReadToInitialize, ReadToDelete,
                ReadToUpdate, ReadToStop, Backend, machine
  <2>2. CASE Continue(c)
    BY <2>2 DEF Continue, ReserveStart, EnsureStarted, MarkPreparing, InitializationBegins,
                MarkUninitialized, MarkDeleting, DeleteRow, RequestStop, RouteStopArrives,
                StopSettles, StopFailureRead, StopFailureWrite, Backend, machine
  <2> QED BY <1>1, <2>1, <2>2
<1>2. ASSUME NEW g \in Gens, Dispatch(g) \/ PostFails(g) PROVE handler' = handler \/ Post(g)
  BY <1>2 DEF Dispatch, Gate, DispatchReads, DispatchIsLate, DispatchWrites, PostFails,
              Backend, machine
<1>3. ASSUME NEW g \in Gens, Initialize(g) PROVE handler' = handler
  BY <1>3 DEF Initialize, BeginPreparation, PreparationEnds, Gather, Inspect,
              TaskStopArrives, InitializationSettles, Backend, machine
<1>4. ASSUME NEW g \in Gens, Start(g) \/ FetchFails(g) PROVE Fetched(g) \/ TaskReply(g)
  BY <1>4 DEF Start, TaskReply
<1>5. ASSUME NEW k \in killers, Stop(k) PROVE handler' = handler \/ Replaces \/ Clears
  BY <1>5 DEF Stop, Replaces, Clears, StopEnds
<1>6. CASE Hear \/ ExitNoticed \/ AgentUnreachable \/ EventsLost
  BY <1>6 DEF Hear, HandleEvent, HandleEmptyReport, HandleReport, Register, StaleStopArrives,
              ExitNoticed, AgentUnreachable, EventsLost, Hears, machine
<1>7. ASSUME NEW g \in Gens, ProcessDies(g) PROVE handler' = handler BY <1>7 DEF ProcessDies
<1>8. CASE HealthChanges \/ StopGivenUp \/ BackendRestarts
  BY <1>8 DEF HealthChanges, StopGivenUp, BackendRestarts, machine
<1> QED BY <1>1, <1>2, <1>3, <1>4, <1>5, <1>6, <1>7, <1>8 DEF Next

(* What the backend does by itself leaves the agent, its processes and     *)
(* the wire alone; only the arrival of a stop sets a killer to work.       *)
LEMMA BackendWrites ==
    ASSUME OnBackend
    PROVE  /\ UNCHANGED <<agent, alive, events, report, staleStop, history>>
           /\ killers' = killers \/ StopArrives
<1>1. ASSUME NEW c \in Clients, Route(c)
      PROVE  UNCHANGED <<agent, alive, killers, events, report, staleStop, history>>
  BY <1>1 DEF Route, Create, ReadToStart, ReadForReadiness, ReadToInitialize, ReadToDelete,
              ReadToUpdate, ReadToStop, Backend, machine, wire
<1>2. ASSUME NEW c \in Clients, Continue(c)
      PROVE  /\ UNCHANGED <<agent, alive, events, report, staleStop, history>>
             /\ killers' = killers \/ RouteStopArrives(c)
  BY <1>2 DEF Continue, ReserveStart, EnsureStarted, MarkPreparing, InitializationBegins,
              MarkUninitialized, MarkDeleting, DeleteRow, RequestStop, RouteStopArrives,
              StopSettles, StopFailureRead, StopFailureWrite, Backend, Agent, machine, wire
<1>3. ASSUME NEW g \in Gens, Dispatch(g) \/ PostFails(g) \/ Initialize(g)
      PROVE  /\ UNCHANGED <<agent, alive, events, report, staleStop, history>>
             /\ killers' = killers \/ TaskStopArrives(g)
  <2>1. CASE Dispatch(g) \/ PostFails(g)
    BY <2>1 DEF Dispatch, Gate, Post, DispatchReads, DispatchIsLate, DispatchWrites,
                PostFails, Backend, machine, wire
  <2>2. CASE Initialize(g)
    BY <2>2 DEF Initialize, BeginPreparation, PreparationEnds, Gather, Inspect,
                TaskStopArrives, InitializationSettles, Backend, Agent, machine, wire
  <2> QED BY <1>3, <2>1, <2>2
<1>4. CASE StopGivenUp BY <1>4 DEF StopGivenUp, machine, wire
<1> QED BY <1>1, <1>2, <1>3, <1>4 DEF OnBackend, StopArrives

(* A step is the backend's, the agent's, a message's, or something goes    *)
(* wrong with one of the two.                                              *)
LEMMA StepKinds ==
    ASSUME Next
    PROVE  \/ OnBackend
           \/ \E g \in Gens : Fetched(g) \/ TaskReply(g) \/ ProcessDies(g)
           \/ Ends \/ Replaces \/ Clears \/ ExitNoticed \/ HealthChanges
           \/ Hear \/ AgentUnreachable \/ EventsLost \/ AgentRestarts \/ BackendRestarts
BY DEF Next, OnBackend, Start, TaskReply, Stop, Ends, Replaces, Clears

(* What the backend hears leaves the agent's processes alone.              *)
LEMMA HearingWrites ==
    ASSUME Hear \/ AgentUnreachable \/ EventsLost \/ BackendRestarts
    PROVE  /\ UNCHANGED <<agent, alive>>
           /\ killers' = killers \/ StaleStopArrives
           /\ handler' = handler
BY DEF Hear, HandleEvent, HandleEmptyReport, HandleReport, Register, StaleStopArrives, Agent,
       AgentUnreachable, EventsLost, BackendRestarts, Hears, machine

-----------------------------------------------------------------------------
(* Records of the right types. *)

(* Assignments to a row keep its type.                                     *)
LEMMA RowRecords ==
    ASSUME NEW r \in Rows, NEW status \in Statuses, NEW health \in Healths, NEW g \in Gens
    PROVE  /\ [r EXCEPT !.status = status] \in Rows
           /\ [r EXCEPT !.health = health] \in Rows
           /\ [r EXCEPT !.status = status, !.health = health] \in Rows
           /\ [r EXCEPT !.gen = g] \in Rows
           /\ [status |-> status, health |-> health, gen |-> g] \in Rows
           /\ r.status \in Statuses /\ r.health \in Healths /\ r.gen \in Gens
BY DEF Rows

(* Assignments to a call keep its type.                                    *)
LEMMA ClientRecords ==
    ASSUME NEW r \in ClientRec, NEW pc \in ClientStates
    PROVE  /\ [r EXCEPT !.pc = pc] \in ClientRec
           /\ \A s \in Rows : [r EXCEPT !.pc = pc, !.seen = s] \in ClientRec
           /\ \A g \in Gens : [r EXCEPT !.pc = pc, !.gen = g] \in ClientRec
           /\ \A s \in Rows, op \in AllOperations :
                 [r EXCEPT !.pc = pc, !.op = op, !.seen = s] \in ClientRec
BY DEF ClientRec

(* Assignments to a task keep its type.                                    *)
LEMMA TaskRecords ==
    ASSUME NEW r \in TaskRec, NEW pc \in TaskStates
    PROVE  /\ [r EXCEPT !.pc = pc] \in TaskRec
           /\ \A s \in Rows : /\ [r EXCEPT !.seen = s] \in TaskRec
                             /\ [r EXCEPT !.pc = pc, !.seen = s] \in TaskRec
           /\ \A b \in BOOLEAN : [r EXCEPT !.pc = pc, !.metadata = b] \in TaskRec
           /\ \A kind \in {"start", "init"} : [r EXCEPT !.kind = kind, !.pc = pc] \in TaskRec
BY DEF TaskRec

(* The numbers of generations are natural numbers.                         *)
LEMMA GenerationNumbers ==
    ASSUME TRUE
    PROVE  /\ Gens \subseteq Nat /\ 0 \in Gens /\ Cardinality(Clients) \in Nat
           /\ \A n \in Nat : n <= Cardinality(Clients) => n \in Gens /\ n + 1 \in Gens
BY LifecycleAssumption, FS_CardinalityType DEF Gens

(* The records the state starts from.                                      *)
LEMMA EmptyRecords ==
    ASSUME TRUE
    PROVE  /\ Unread \in Rows /\ NoClient \in ClientRec /\ NoTask \in TaskRec
           /\ [pc |-> "none", lock |-> 0] \in HandlerRec
           /\ [pc |-> "done", lock |-> 0] \in HandlerRec
           /\ NoReport \in ReportRec /\ FreshAgent(0) \in AgentRec
<1>1. 0 \in Gens BY GenerationNumbers
<1>2. Unread \in Rows BY <1>1 DEF Unread, Rows, Statuses, Gone, Healths
<1>3. NoClient \in ClientRec BY <1>1, <1>2 DEF NoClient, ClientRec, ClientStates
<1>4. NoTask \in TaskRec BY <1>2 DEF NoTask, TaskRec, TaskStates
<1>5. /\ [pc |-> "none", lock |-> 0] \in HandlerRec
      /\ [pc |-> "done", lock |-> 0] \in HandlerRec
  BY <1>1 DEF HandlerRec, HandlerStates
<1>6. NoReport \in ReportRec /\ FreshAgent(0) \in AgentRec
  BY <1>1 DEF NoReport, ReportRec, FreshAgent, AgentRec, Healths, NoProcess
<1> QED BY <1>2, <1>3, <1>4, <1>5, <1>6

(* Changing one element of a function keeps the type of the function.      *)
LEMMA Updated ==
    ASSUME NEW S, NEW T, NEW f \in [S -> T], NEW x \in S, NEW v \in T
    PROVE  [f EXCEPT ![x] = v] \in [S -> T]
OBVIOUS

(* The type invariant in parts.                                            *)
LEMMA TypeParts ==
    TypeOK <=> /\ row \in Rows /\ ClientTypes /\ TaskTypes /\ HandlerTypes
               /\ agent \in AgentRec /\ alive \subseteq Gens /\ killers \subseteq KillerRec
               /\ EventTypesOK /\ report \in ReportRec /\ staleStop \in Gens
               /\ budget \in 0..MaxFaults /\ history \in HistoryRec
BY DEF TypeOK, ClientTypes, ClientRec, TaskTypes, TaskRec, HandlerTypes, HandlerRec, AgentRec,
       KillerRec, EventTypesOK, Event, ReportRec, HistoryRec

-----------------------------------------------------------------------------
(* Type correctness. *)

(* Calls that are left leave room for their generations.                   *)
LEMMA RoomForOne ==
    ASSUME TypeOK, GenerationsLeft, NEW c \in Clients, client[c].pc # "done"
    PROVE  row.gen + 1 \in Gens /\ row.gen \in Nat /\ row.gen + 1 # 0
<1>1. IsFiniteSet(Left) /\ Cardinality(Left) \in Nat
  BY LifecycleAssumption, FS_Subset, FS_CardinalityType DEF Left
<1>2. Cardinality(Left) # 0
  <2>1. c \in Left BY DEF Left
  <2> QED BY <1>1, <2>1, FS_EmptySet
<1>3. row.gen \in Nat BY TypeParts, RowRecords, GenerationNumbers DEF Rows
<1>4. row.gen <= Cardinality(Clients) BY <1>1, <1>2, <1>3, GenerationNumbers DEF GenerationsLeft
<1> QED BY <1>3, <1>4, GenerationNumbers

(* Reserving a generation keeps the types of the row and of the tasks.     *)
LEMMA LaunchTypes ==
    ASSUME TypeOK, row.gen + 1 \in Gens, LaunchStart
    PROVE  row' \in Rows /\ TaskTypes'
<1>1. "starting" \in Statuses /\ "unknown" \in Healths BY DEF Statuses, Up, Healths
<1>2. row' \in Rows BY <1>1, RowRecords, TypeParts DEF LaunchStart, NextGeneration
<1>3. [NoTask EXCEPT !.kind = "start", !.pc = "gate"] \in TaskRec
  BY EmptyRecords, TaskRecords DEF TaskStates
<1>4. task' = [task EXCEPT ![row.gen + 1] = [NoTask EXCEPT !.kind = "start", !.pc = "gate"]]
  BY DEF LaunchStart, NextGeneration
<1> QED BY <1>2, <1>3, <1>4, TypeParts, Updated DEF TaskTypes

(* A commit writes statuses and healths only.                              *)
LEMMA CommitTypes ==
    ASSUME TypeOK, NEW seen \in Rows, NEW new \in Rows
    PROVE  Commit(seen, new) \in Rows /\ Commit(seen, new).gen = row.gen
<1>1. row \in Rows BY TypeParts
<1> QED BY <1>1 DEF Commit, Rows

(* Each step keeps the type of the row, which has the next generation      *)
(* after three of them and the old one after the others.                   *)
LEMMA RowStep ==
    ASSUME TypeOK, GenerationsLeft, Next
    PROVE  row' \in Rows /\ (row'.gen = row.gen \/ \E c \in Clients : TaskRoute(c))
<1>0. /\ row \in Rows /\ \A c \in Clients : client[c] \in ClientRec /\ client[c].seen \in Rows
      /\ \A g \in Gens : task[g] \in TaskRec /\ task[g].seen \in Rows
  BY TypeParts DEF ClientTypes, TaskTypes, ClientRec, TaskRec
<1>1. /\ Statuses = {"uninitialized", "initialization_failed", "preparing",
                     "metadata_gathering", "starting", "running", "absent", "deleted",
                     "stopped", "stopping", "error", "deleting"}
      /\ Healths = {"unknown", "healthy", "unhealthy"}
  BY DEF Statuses, Uninitialized, Initializing, Up, Gone, Healths
<1>2. \A status \in Statuses, health \in Healths :
          LET q == [row EXCEPT !.status = status]
              h == [row EXCEPT !.health = health]
              b == [row EXCEPT !.status = status, !.health = health]
          IN q \in Rows /\ q.gen = row.gen /\ h \in Rows /\ h.gen = row.gen
             /\ b \in Rows /\ b.gen = row.gen
  BY <1>0 DEF Rows
<1>3. ASSUME NEW c \in Clients, RowRoute(c)
      PROVE  row' \in Rows /\ (row'.gen = row.gen \/ TaskRoute(c))
  <2>1. CASE Create(c) BY <1>0, <1>1, <1>2, <2>1 DEF Create
  <2>2. CASE ReserveStart(c) \/ EnsureStarted(c)
    <3>1. row.gen + 1 \in Gens BY <2>2, RoomForOne DEF ReserveStart, EnsureStarted
    <3>2. row' = row \/ LaunchStart BY <2>2 DEF ReserveStart, EnsureStarted
    <3> QED BY <1>0, <2>2, <3>1, <3>2, LaunchTypes DEF TaskRoute
  <2>3. CASE MarkPreparing(c)
    <3>1. [row EXCEPT !.status = "preparing", !.health = "unknown"] \in Rows BY <1>1, <1>2
    <3> QED BY <1>0, <2>3, <3>1, CommitTypes DEF MarkPreparing
  <2>4. CASE InitializationBegins(c)
    <3>1. row.gen + 1 \in Gens BY <2>4, RoomForOne DEF InitializationBegins
    <3>2. row' = row \/ row' = [row EXCEPT !.gen = row.gen + 1]
      BY <2>4 DEF InitializationBegins, NextGeneration
    <3> QED BY <1>0, <2>4, <3>1, <3>2 DEF TaskRoute, Rows
  <2>5. CASE MarkUninitialized(c) BY <1>0, <1>1, <1>2, <2>5 DEF MarkUninitialized
  <2>6. CASE MarkDeleting(c) \/ DeleteRow(c)
    BY <1>0, <1>1, <1>2, <2>6 DEF MarkDeleting, SetStatus, DeleteRow
  <2>7. CASE RequestStop(c) \/ StopSettles(c)
    BY <1>0, <1>1, <1>2, <2>7 DEF RequestStop, StopSettles
  <2>8. CASE StopFailureWrite(c)
    <3>1. [row EXCEPT !.status = "error", !.health = "unknown"] \in Rows BY <1>1, <1>2
    <3> QED BY <1>0, <2>8, <3>1, CommitTypes DEF StopFailureWrite
  <2> QED BY <1>3, <2>1, <2>2, <2>3, <2>4, <2>5, <2>6, <2>7, <2>8 DEF RowRoute
<1>4. ASSUME NEW g \in Gens, RowTask(g) PROVE row' \in Rows /\ row'.gen = row.gen
  <2>1. CASE DispatchWrites(g)
    <3>1. Outcome(task[g]) \in Rows BY <1>0, <1>1 DEF Outcome, Rows
    <3> QED BY <1>0, <2>1, <3>1, CommitTypes DEF DispatchWrites
  <2>2. CASE BeginPreparation(g) \/ Gather(g)
    BY <1>0, <1>1, <1>2, <2>2 DEF BeginPreparation, Gather, SetStatus
  <2>3. CASE InitializationSettles(g)
    BY <1>0, <1>1, <1>2, <2>3 DEF InitializationSettles, SetStatus
  <2> QED BY <1>4, <2>1, <2>2, <2>3 DEF RowTask
<1>5. CASE RowHearing
  <2>1. StoppedIfUp \in Rows /\ StoppedIfUp.gen = row.gen BY <1>0, <1>1, <1>2 DEF StoppedIfUp
  <2>2. CASE HandleEvent
    <3>1. \A e : AfterEvent(e) \in Rows /\ AfterEvent(e).gen = row.gen
      BY ZenonT(30), <1>0, <1>1, <1>2 DEF AfterEvent
    <3> QED BY <1>0, <2>2, <3>1 DEF HandleEvent
  <2>3. CASE HandleReport BY <1>0, <1>1, <1>2, <2>1, <2>3 DEF HandleReport
  <2>4. CASE HandleEmptyReport \/ AgentUnreachable
    BY <2>1, <2>4 DEF HandleEmptyReport, AgentUnreachable
  <2> QED BY <1>5, <2>2, <2>3, <2>4 DEF RowHearing
<1> QED BY <1>0, <1>3, <1>4, <1>5, RowWriters

(* A call that moves keeps its type and leaves the other calls alone.      *)
LEMMA GotoTypes ==
    ASSUME ClientTypes, NEW c \in Clients, NEW pc \in ClientStates, Goto(c, pc)
    PROVE  /\ ClientTypes' /\ client'[c].pc = pc
           /\ \A d \in Clients \ {c} : client'[d] = client[d]
           /\ pc # "done" => client'[c] = [client[c] EXCEPT !.pc = pc]
<1> DEFINE v == IF pc = "done" THEN [NoClient EXCEPT !.pc = "done"]
                ELSE [client[c] EXCEPT !.pc = pc]
<1>1. client[c] \in ClientRec /\ "start" \in AllOperations
  BY DEF ClientTypes, AllOperations
<1>2. v \in ClientRec BY <1>1, ClientRecords, EmptyRecords
<1>3. client' = [client EXCEPT ![c] = v] BY DEF Goto
<1>4. v.pc = pc BY <1>1 DEF ClientRec, NoClient
<1> QED BY <1>2, <1>3, <1>4, Updated DEF ClientTypes

(* A call that begins has a state, an operation and what it has read.      *)
LEMMA BeginsTypes ==
    ASSUME TypeOK, NEW c \in Clients, NEW op \in AllOperations, NEW pc \in ClientStates,
           Begins(c, op, pc)
    PROVE  /\ ClientTypes' /\ client[c].pc = "idle" /\ client'[c].pc = pc
           /\ \A d \in Clients \ {c} : client'[d] = client[d]
<1> DEFINE s == IF pc = "wantInit" THEN row ELSE Unread
           v == [client[c] EXCEPT !.pc = pc, !.op = op, !.seen = s]
<1>1. client[c] \in ClientRec /\ s \in Rows BY TypeParts, EmptyRecords DEF ClientTypes
<1>2. v \in ClientRec BY <1>1, ClientRecords
<1>3. client' = [client EXCEPT ![c] = v] BY TypeParts DEF Begins, ClientTypes
<1>4. v.pc = pc BY <1>1 DEF ClientRec
<1> QED BY <1>2, <1>3, <1>4, TypeParts, Updated DEF ClientTypes, Begins

(* A call that is done stays done.                                         *)
FewerLeft == \A c \in Clients : client[c].pc = "done" => client'[c].pc = "done"

(* The first step of a call.                                               *)
LEMMA RouteTypes ==
    ASSUME TypeOK, NEW c \in Clients, Route(c)
    PROVE  ClientTypes' /\ FewerLeft
<1>1. ASSUME NEW op \in AllOperations, NEW pc \in ClientStates, Begins(c, op, pc)
      PROVE  ClientTypes' /\ FewerLeft
  BY <1>1, BeginsTypes DEF FewerLeft
<1>2. CASE Create(c) BY <1>1, <1>2 DEF Create, AllOperations, ClientStates
<1>3. CASE ReadToStart(c) BY <1>1, <1>3 DEF ReadToStart, AllOperations, ClientStates
<1>4. CASE ReadForReadiness(c)
  BY <1>1, <1>4 DEF ReadForReadiness, AllOperations, ClientStates
<1>5. CASE ReadToInitialize(c)
  BY <1>1, <1>5 DEF ReadToInitialize, AllOperations, ClientStates
<1>6. CASE ReadToDelete(c)
  <2>1. PICK pc \in {"stop", "deleteMark"} : Begins(c, "delete", pc) BY <1>6 DEF ReadToDelete
  <2> QED BY <1>1, <2>1 DEF AllOperations, ClientStates
<1>7. CASE ReadToUpdate(c)
  <2>1. PICK pc \in {"stop", "updateMark"}, op \in {"update", "restart"} : Begins(c, op, pc)
    BY <1>7 DEF ReadToUpdate
  <2> QED BY <1>1, <2>1 DEF AllOperations, ClientStates
<1>8. CASE ReadToStop(c) BY <1>1, <1>8 DEF ReadToStop, AllOperations, ClientStates
<1> QED BY <1>2, <1>3, <1>4, <1>5, <1>6, <1>7, <1>8 DEF Route

(* The later steps of a call.                                              *)
LEMMA ContinueTypes ==
    ASSUME TypeOK, NEW c \in Clients, Continue(c)
    PROVE  /\ ClientTypes' /\ FewerLeft /\ client[c].pc # "done"
           /\ TaskRoute(c) => client'[c].pc = "done"
<1>0. client[c] \in ClientRec /\ ClientTypes BY TypeParts DEF ClientTypes
<1>1. ASSUME NEW pc \in ClientStates, Goto(c, pc), client[c].pc # "done",
             TaskRoute(c) => pc = "done"
      PROVE  /\ ClientTypes' /\ FewerLeft /\ client[c].pc # "done"
             /\ TaskRoute(c) => client'[c].pc = "done"
  BY <1>0, <1>1, GotoTypes DEF FewerLeft
<1>2. ASSUME NEW v \in ClientRec, client' = [client EXCEPT ![c] = v], client[c].pc # "done"
      PROVE  ClientTypes' /\ FewerLeft
  BY <1>0, <1>2, Updated DEF FewerLeft, ClientTypes
<1>3. CASE ReserveStart(c) \/ EnsureStarted(c) \/ DeleteRow(c) \/ StopFailureWrite(c)
  BY <1>1, <1>3 DEF ReserveStart, EnsureStarted, DeleteRow, StopFailureWrite, ClientStates
<1>4. CASE InitializationBegins(c) BY <1>1, <1>4 DEF InitializationBegins, ClientStates
<1>5. CASE MarkUninitialized(c) \/ MarkDeleting(c)
  <2>1. PICK pc \in {"scheduled", "deleteRow", "done"} : Goto(c, pc)
    BY <1>5 DEF MarkUninitialized, MarkDeleting
  <2>2. client[c].pc \in {"updateMark", "deleteMark"} BY <1>5 DEF MarkUninitialized, MarkDeleting
  <2> QED BY <1>1, <2>1, <2>2 DEF ClientStates, TaskRoute, ReserveStart, EnsureStarted,
                                  InitializationBegins
<1>6. CASE MarkPreparing(c)
  <2>1. PICK pc \in {"scheduled", "done"} :
            client' = [client EXCEPT ![c].pc = pc, ![c].seen = Unread]
    BY <1>6 DEF MarkPreparing
  <2>2. client' = [client EXCEPT ![c] = [client[c] EXCEPT !.pc = pc, !.seen = Unread]]
    BY <1>0, <2>1 DEF ClientTypes
  <2>3. [client[c] EXCEPT !.pc = pc, !.seen = Unread] \in ClientRec
    BY <1>0, <2>1, ClientRecords, EmptyRecords DEF ClientStates
  <2>4. client[c].pc = "wantInit" BY <1>6 DEF MarkPreparing
  <2> QED BY <1>2, <2>2, <2>3, <2>4 DEF TaskRoute, ReserveStart, EnsureStarted,
                                        InitializationBegins
<1>7. CASE RequestStop(c)
  <2>1. client[c].pc = "stop" BY <1>7 DEF RequestStop
  <2>2. CASE Goto(c, "done") BY <1>1, <2>1, <2>2 DEF ClientStates
  <2>3. CASE client' = [client EXCEPT ![c].pc = "stopSent", ![c].gen = row.gen]
    <3>1. client' = [client EXCEPT ![c] = [client[c] EXCEPT !.pc = "stopSent", !.gen = row.gen]]
      BY <1>0, <2>3 DEF ClientTypes
    <3>2. [client[c] EXCEPT !.pc = "stopSent", !.gen = row.gen] \in ClientRec
      BY <1>0, TypeParts, RowRecords, ClientRecords DEF ClientStates, Rows
    <3> QED BY <1>2, <2>1, <3>1, <3>2 DEF TaskRoute, ReserveStart, EnsureStarted,
                                          InitializationBegins
  <2> QED BY <1>7, <2>2, <2>3 DEF RequestStop
<1>8. CASE RouteStopArrives(c) \/ StopSettles(c)
  <2>1. PICK pc \in {"stopAnswered", "stopHandled", "stopFailed", "deleteMark", "updateMark",
                     "wantStart", "done"} : Goto(c, pc)
    BY <1>8 DEF RouteStopArrives, StopVerdict, StopSettles, AfterStop
  <2>2. client[c].pc \in {"stopSent", "stopAnswered"}
    BY <1>8 DEF RouteStopArrives, StopSettles
  <2> QED BY <1>1, <2>1, <2>2 DEF ClientStates, TaskRoute, ReserveStart, EnsureStarted,
                                  InitializationBegins
<1>9. CASE StopFailureRead(c)
  <2>1. client[c].pc = "stopFailed" BY <1>9 DEF StopFailureRead
  <2>2. CASE Goto(c, "done") BY <1>1, <2>1, <2>2 DEF ClientStates
  <2>3. CASE client' = [client EXCEPT ![c].pc = "stopError", ![c].seen = row]
    <3>1. client' = [client EXCEPT ![c] = [client[c] EXCEPT !.pc = "stopError", !.seen = row]]
      BY <1>0, <2>3 DEF ClientTypes
    <3>2. [client[c] EXCEPT !.pc = "stopError", !.seen = row] \in ClientRec
      BY <1>0, TypeParts, ClientRecords DEF ClientStates
    <3> QED BY <1>2, <2>1, <3>1, <3>2 DEF TaskRoute, ReserveStart, EnsureStarted,
                                          InitializationBegins
  <2> QED BY <1>9, <2>2, <2>3 DEF StopFailureRead
<1> QED BY <1>3, <1>4, <1>5, <1>6, <1>7, <1>8, <1>9 DEF Continue

(* Each step keeps the types of the calls, and revives none.               *)
LEMMA ClientStep ==
    ASSUME TypeOK, Next
    PROVE  ClientTypes' /\ FewerLeft
<1>0. ClientTypes BY TypeParts
<1>1. CASE client' = client BY <1>0, <1>1 DEF ClientTypes, FewerLeft
<1>2. ASSUME NEW c \in Clients, Route(c) \/ Continue(c) PROVE ClientTypes' /\ FewerLeft
  BY <1>2, RouteTypes, ContinueTypes
<1>3. CASE StopGivenUp
  <2>1. client' = client \/ \E c \in Clients : client[c].pc \in {"stopSent", "stopHandled"}
                                               /\ Goto(c, "stopFailed")
    BY <1>3 DEF StopGivenUp
  <2>2. ASSUME NEW c \in Clients, client[c].pc \in {"stopSent", "stopHandled"},
               Goto(c, "stopFailed")
        PROVE  ClientTypes' /\ FewerLeft
    BY <1>0, <2>2, GotoTypes DEF ClientStates, FewerLeft
  <2> QED BY <1>1, <2>1, <2>2
<1>4. ASSUME NEW pc \in ClientStates \ {"done"}, NEW new, client' = [c \in Clients |-> new[c]],
             \A c \in Clients : \/ new[c] = client[c]
                                \/ /\ client[c].pc = "stopHandled"
                                   /\ new[c] = [client[c] EXCEPT !.pc = pc]
      PROVE  ClientTypes' /\ FewerLeft
  <2>1. ASSUME NEW c \in Clients PROVE new[c] \in ClientRec
    <3>1. client[c] \in ClientRec BY <1>0 DEF ClientTypes
    <3>2. [client[c] EXCEPT !.pc = pc] \in ClientRec BY <1>4, <3>1, ClientRecords
    <3> QED BY <1>4, <3>1, <3>2
  <2> QED BY <1>0, <1>4, <2>1 DEF ClientTypes, FewerLeft
<1>5. CASE Ends
  <2>1. PICK k \in killers : StopEnds(k) BY <1>5 DEF Ends
  <2>2. client' = [c \in Clients |-> IF k.by = c /\ client[c].pc = "stopHandled"
                        THEN [client[c] EXCEPT !.pc = "stopAnswered"] ELSE client[c]]
    BY <2>1 DEF StopEnds, StopReplied
  <2> DEFINE new == [c \in Clients |-> IF k.by = c /\ client[c].pc = "stopHandled"
                        THEN [client[c] EXCEPT !.pc = "stopAnswered"] ELSE client[c]]
  <2> HIDE DEF new
  <2>3. client' = [c \in Clients |-> new[c]] BY <2>2 DEF new
  <2>4. \A c \in Clients : \/ new[c] = client[c]
                           \/ /\ client[c].pc = "stopHandled"
                              /\ new[c] = [client[c] EXCEPT !.pc = "stopAnswered"]
    BY DEF new
  <2> QED BY <1>4, <2>3, <2>4 DEF ClientStates
<1>6. CASE AgentRestarts
  <2>1. client' = [c \in Clients |-> IF client[c].pc = "stopHandled"
                        THEN [client[c] EXCEPT !.pc = "stopFailed"] ELSE client[c]]
    BY <1>6 DEF AgentRestarts
  <2> DEFINE new == [c \in Clients |-> IF client[c].pc = "stopHandled"
                        THEN [client[c] EXCEPT !.pc = "stopFailed"] ELSE client[c]]
  <2> HIDE DEF new
  <2>2. client' = [c \in Clients |-> new[c]] BY <2>1 DEF new
  <2>3. \A c \in Clients : \/ new[c] = client[c]
                           \/ /\ client[c].pc = "stopHandled"
                              /\ new[c] = [client[c] EXCEPT !.pc = "stopFailed"]
    BY DEF new
  <2> QED BY <1>4, <2>2, <2>3 DEF ClientStates
<1>7. CASE BackendRestarts
  <2>1. client' = [c \in Clients |-> IF client[c].pc = "idle" THEN client[c]
                                     ELSE [NoClient EXCEPT !.pc = "done"]]
    BY <1>7 DEF BackendRestarts
  <2>2. [NoClient EXCEPT !.pc = "done"] \in ClientRec
    BY EmptyRecords, ClientRecords DEF ClientStates, AllOperations
  <2>3. [NoClient EXCEPT !.pc = "done"].pc = "done" BY DEF NoClient
  <2> QED BY <1>0, <2>1, <2>2, <2>3 DEF ClientTypes, FewerLeft
<1> QED BY <1>1, <1>2, <1>3, <1>5, <1>6, <1>7, ClientWriters

(* A call that reserves a generation is done.                              *)
LEMMA ReservedAndDone ==
    ASSUME TypeOK, NEW c \in Clients, TaskRoute(c)
    PROVE  client[c].pc # "done" /\ client'[c].pc = "done"
<1>1. Continue(c) BY DEF TaskRoute, Continue
<1> QED BY <1>1, ContinueTypes

(* No step takes more generations than the calls have left.                *)
LEMMA GenerationsStep ==
    ASSUME TypeOK, GenerationsLeft, Next
    PROVE  GenerationsLeft'
<1>1. IsFiniteSet(Left) /\ Cardinality(Left) \in Nat
  BY LifecycleAssumption, FS_Subset, FS_CardinalityType DEF Left
<1>2. row.gen \in Nat /\ Cardinality(Clients) \in Nat
  BY TypeParts, RowRecords, GenerationNumbers DEF Rows
<1>3. Left' \subseteq Left BY ClientStep DEF Left, FewerLeft
<1>4. Cardinality(Left') \in Nat /\ Cardinality(Left') <= Cardinality(Left)
  BY <1>1, <1>3, FS_Subset, FS_CardinalityType
<1>5. CASE row'.gen = row.gen BY <1>1, <1>2, <1>4, <1>5 DEF GenerationsLeft
<1>6. ASSUME NEW c \in Clients, TaskRoute(c) PROVE GenerationsLeft'
  <2>1. c \in Left /\ c \notin Left' BY <1>6, ReservedAndDone DEF Left
  <2>2. /\ IsFiniteSet(Left \ {c}) /\ Left' \subseteq Left \ {c}
        /\ Cardinality(Left \ {c}) = Cardinality(Left) - 1
    BY <1>1, <1>3, <2>1, FS_RemoveElement
  <2>3. Cardinality(Left') <= Cardinality(Left) - 1
    BY <2>2, FS_Subset
  <2>4. row'.gen = row.gen \/ row'.gen = row.gen + 1
    <3>1. row \in Rows BY TypeParts
    <3> QED BY <1>6, <3>1 DEF TaskRoute, ReserveStart, EnsureStarted, InitializationBegins,
                              LaunchStart, NextGeneration, Rows
  <2> QED BY <1>1, <1>2, <1>4, <2>3, <2>4 DEF GenerationsLeft
<1> QED BY <1>5, <1>6, RowStep

(* A task that moves keeps its type.                                       *)
LEMMA TaskGotoTypes ==
    ASSUME TaskTypes, NEW g \in Gens, NEW pc \in TaskStates, TaskGoto(g, pc)
    PROVE  TaskTypes'
<1>1. task' = [task EXCEPT ![g] = [task[g] EXCEPT !.pc = pc]] BY DEF TaskGoto, TaskTypes
<1>2. [task[g] EXCEPT !.pc = pc] \in TaskRec BY TaskRecords DEF TaskTypes
<1> QED BY <1>1, <1>2, Updated DEF TaskTypes

(* A task that is answered keeps its type.                                 *)
LEMMA RepliedTypes ==
    ASSUME TaskTypes, NEW g \in Gens, NEW answer \in TaskStates, Replied(g, answer)
    PROVE  TaskTypes'
<1>1. task[g] \in TaskRec BY DEF TaskTypes
<1>2. PICK pc \in TaskStates : task' = [task EXCEPT ![g].pc = pc] BY <1>1 DEF Replied, TaskRec
<1> QED BY <1>2, TaskGotoTypes DEF TaskGoto

(* The steps of a task keep the types of the tasks.                        *)
LEMMA TaskOwnTypes ==
    ASSUME TypeOK, NEW g \in Gens, TaskOwn(g)
    PROVE  TaskTypes'
<1>0. TaskTypes /\ task[g] \in TaskRec /\ row \in Rows /\ Unread \in Rows
  BY TypeParts, EmptyRecords DEF TaskTypes
<1>1. ASSUME NEW pc \in TaskStates, TaskGoto(g, pc) PROVE TaskTypes'
  BY <1>0, <1>1, TaskGotoTypes
<1>2. ASSUME NEW v \in TaskRec, task' = [task EXCEPT ![g] = v] PROVE TaskTypes'
  BY <1>0, <1>2, Updated DEF TaskTypes
<1>3. CASE Gate(g) \/ Post(g) \/ PostFails(g) \/ DispatchIsLate(g)
  <2>1. PICK pc \in {"cleared", "answered", "posted", "refused", "lost", "done"} :
            TaskGoto(g, pc)
    BY <1>3 DEF Gate, Post, PostFails, DispatchIsLate
  <2> QED BY <1>1, <2>1 DEF TaskStates
<1>4. CASE DispatchReads(g)
  <2>1. task' = [task EXCEPT ![g] = [task[g] EXCEPT !.seen = row]]
    BY <1>0, <1>4 DEF DispatchReads, TaskTypes
  <2>2. task[g].pc \in TaskStates BY <1>0 DEF TaskRec
  <2>3. [task[g] EXCEPT !.seen = row] \in TaskRec BY <1>0, <2>2, TaskRecords
  <2> QED BY <1>2, <2>1, <2>3
<1>5. CASE DispatchWrites(g)
  <2>1. task' = [task EXCEPT ![g] = [task[g] EXCEPT !.pc = "done", !.seen = Unread]]
    BY <1>0, <1>5 DEF DispatchWrites, TaskTypes
  <2>2. "done" \in TaskStates BY DEF TaskStates
  <2>3. [task[g] EXCEPT !.pc = "done", !.seen = Unread] \in TaskRec
    BY <1>0, <2>2, TaskRecords
  <2> QED BY <1>2, <2>1, <2>3
<1>6. CASE Initialize(g)
  <2>1. CASE \E pc \in {"preparing", "gather", "stopSent", "gate", "stopAnswered",
                        "stopHandled", "stopFailed", "done"} : TaskGoto(g, pc)
    BY <1>1, <2>1 DEF TaskStates
  <2>2. CASE \E b \in BOOLEAN :
                task' = [task EXCEPT ![g].pc = "stopSent", ![g].metadata = b]
    <3>1. PICK b \in BOOLEAN : task' = [task EXCEPT ![g].pc = "stopSent", ![g].metadata = b]
      BY <2>2
    <3>2. task' = [task EXCEPT ![g] = [task[g] EXCEPT !.pc = "stopSent", !.metadata = b]]
      BY <1>0, <3>1 DEF TaskTypes
    <3>3. "stopSent" \in TaskStates BY DEF TaskStates
    <3>4. [task[g] EXCEPT !.pc = "stopSent", !.metadata = b] \in TaskRec
      BY <1>0, <3>3, TaskRecords
    <3> QED BY <1>2, <3>2, <3>4
  <2>3. CASE Inspect(g)
    <3>1. (task[g].pc = "answered" /\ agent.table \in alive) \in BOOLEAN OBVIOUS
    <3> QED BY <2>1, <2>2, <2>3, <3>1 DEF Inspect
  <2>4. CASE ~Inspect(g)
    BY <1>6, <2>1, <2>4 DEF Initialize, BeginPreparation, PreparationEnds, Gather,
                            TaskStopArrives, StopVerdict, InitializationSettles
  <2> QED BY <2>3, <2>4
<1> QED BY <1>3, <1>4, <1>5, <1>6 DEF TaskOwn

(* What the agent answers keeps the types of the tasks.                    *)
LEMMA TaskReplyTypes ==
    ASSUME TypeOK, \/ \E g \in Gens : TaskReply(g)
                   \/ Clears
    PROVE  TaskTypes'
<1>0. TaskTypes BY TypeParts
<1>1. ASSUME NEW g \in Gens, \/ Replied(g, "answered")
                             \/ Replied(g, "refused")
      PROVE  TaskTypes'
  BY <1>0, <1>1, RepliedTypes DEF TaskStates
<1>2. CASE task' = task BY <1>0, <1>2 DEF TaskTypes
<1>3. ASSUME NEW g \in Gens, NEW health, SpawnUnlessFenced(g, health) PROVE TaskTypes'
  BY <1>1, <1>2, <1>3 DEF SpawnUnlessFenced
<1>4. ASSUME NEW g \in Gens, TaskReply(g) PROVE TaskTypes'
  <2>1. CASE StartArrives(g)
    <3>1. task' = task \/ \E answer \in {"answered", "refused"} : Replied(g, answer)
      BY <2>1 DEF StartArrives
    <3> QED BY <1>1, <1>2, <3>1
  <2>2. CASE EnterLock(g) BY <1>1, <1>2, <1>3, <2>2 DEF EnterLock
  <2>3. CASE FetchFails(g) \/ BecomesReady(g) \/ LoadingFails(g)
    BY <1>1, <2>3 DEF FetchFails, BecomesReady, LoadingFails
  <2> QED BY <1>4, <2>1, <2>2, <2>3 DEF TaskReply
<1>5. CASE Clears BY <1>3, <1>5 DEF Clears, ClearedProcessEnds
<1> QED BY <1>4, <1>5

(* Each step keeps the types of the tasks.                                 *)
LEMMA TaskStep ==
    ASSUME TypeOK, GenerationsLeft, Next
    PROVE  TaskTypes'
<1>0. TaskTypes BY TypeParts
<1>1. CASE task' = task BY <1>0, <1>1 DEF TaskTypes
<1>2. ASSUME NEW c \in Clients, TaskRoute(c) PROVE TaskTypes'
  <2>1. row.gen + 1 \in Gens BY <1>2, ReservedAndDone, RoomForOne
  <2>2. CASE ReserveStart(c) \/ EnsureStarted(c)
    BY <1>1, <2>1, <2>2, LaunchTypes DEF ReserveStart, EnsureStarted
  <2>3. CASE InitializationBegins(c)
    <3> DEFINE v == [NoTask EXCEPT !.kind = "init", !.pc = "prepare"]
    <3>1. task' = task \/ task' = [task EXCEPT ![row.gen + 1] = v]
      BY <2>3 DEF InitializationBegins, NextGeneration
    <3>2. v \in TaskRec BY EmptyRecords, TaskRecords DEF TaskStates
    <3> QED BY <1>0, <1>1, <2>1, <3>1, <3>2, Updated DEF TaskTypes
  <2> QED BY <1>2, <2>2, <2>3 DEF TaskRoute
<1>3. ASSUME NEW new, task' = [g \in Gens |-> new[g]],
             \A g \in Gens : \/ new[g] = task[g]
                             \/ \E pc \in TaskStates : new[g] = [task[g] EXCEPT !.pc = pc]
      PROVE  TaskTypes'
  <2>1. ASSUME NEW g \in Gens PROVE new[g] \in TaskRec
    <3>1. task[g] \in TaskRec BY <1>0 DEF TaskTypes
    <3> QED BY <1>3, <3>1, TaskRecords
  <2> QED BY <1>3, <2>1 DEF TaskTypes
<1>4. CASE Ends
  <2>1. PICK k \in killers : StopEnds(k) BY <1>4 DEF Ends
  <2> DEFINE new == [g \in Gens |-> IF k.by = <<"task", g>> /\ task[g].pc = "stopHandled"
                               THEN [task[g] EXCEPT !.pc = "stopAnswered"] ELSE task[g]]
  <2>2. task' = new BY <2>1 DEF StopEnds, StopReplied
  <2>3. \A g \in Gens : \/ new[g] = task[g]
                        \/ \E pc \in TaskStates : new[g] = [task[g] EXCEPT !.pc = pc]
    BY DEF TaskStates
  <2>4. task' = [g \in Gens |-> new[g]] BY <2>2
  <2> HIDE DEF new
  <2> QED BY <1>3, <2>3, <2>4
<1>5. CASE AgentRestarts
  <2> DEFINE new == [g \in Gens |->
                 CASE task[g].pc = "posted" -> [task[g] EXCEPT !.pc = "lost"]
                   [] task[g].pc = "stopHandled" -> [task[g] EXCEPT !.pc = "stopFailed"]
                   [] OTHER -> task[g]]
  <2>1. task' = new BY <1>5 DEF AgentRestarts
  <2>2. \A g \in Gens : \/ new[g] = task[g]
                        \/ \E pc \in TaskStates : new[g] = [task[g] EXCEPT !.pc = pc]
    BY DEF TaskStates
  <2>3. task' = [g \in Gens |-> new[g]] BY <2>1
  <2> HIDE DEF new
  <2> QED BY <1>3, <2>2, <2>3
<1>6. CASE BackendRestarts
  <2>1. task' = [g \in Gens |-> IF task[g].pc = "none" THEN task[g]
                               ELSE [NoTask EXCEPT !.kind = task[g].kind, !.pc = "done"]]
    BY <1>6 DEF BackendRestarts
  <2>2. ASSUME NEW g \in Gens
        PROVE  task[g] \in TaskRec /\ [NoTask EXCEPT !.kind = task[g].kind, !.pc = "done"] \in TaskRec
    BY <1>0, EmptyRecords DEF TaskTypes, TaskRec, TaskStates
  <2> QED BY <2>1, <2>2 DEF TaskTypes
<1>7. CASE StopGivenUp
  <2>1. task' = task \/ \E g \in Gens : TaskGoto(g, "stopFailed") BY <1>7 DEF StopGivenUp
  <2> QED BY <1>0, <1>1, <2>1, TaskGotoTypes DEF TaskStates
<1> QED BY <1>1, <1>2, <1>4, <1>5, <1>6, <1>7, TaskOwnTypes, TaskReplyTypes, TaskWriters

(* The handlers.                                                           *)
LEMMA HandlerStep ==
    ASSUME TypeOK, Next
    PROVE  HandlerTypes'
<1>0. HandlerTypes /\ agent \in AgentRec BY TypeParts
<1>1. CASE handler' = handler BY <1>0, <1>1 DEF HandlerTypes
<1>2. ASSUME NEW g \in Gens, NEW v \in HandlerRec, handler' = [handler EXCEPT ![g] = v]
      PROVE  HandlerTypes'
  BY <1>0, <1>2, Updated DEF HandlerTypes
<1>3. ASSUME NEW g \in Gens, NEW pc \in HandlerStates, handler' = [handler EXCEPT ![g].pc = pc]
      PROVE  HandlerTypes'
  <2>1. [handler[g] EXCEPT !.pc = pc] \in HandlerRec BY <1>0 DEF HandlerTypes, HandlerRec
  <2>2. handler' = [handler EXCEPT ![g] = [handler[g] EXCEPT !.pc = pc]]
    BY <1>0, <1>3 DEF HandlerTypes
  <2> QED BY <1>2, <2>1, <2>2
<1>4. ASSUME NEW g \in Gens, NEW pc \in HandlerStates, NEW lock \in Gens,
             handler' = [handler EXCEPT ![g].pc = pc, ![g].lock = lock]
      PROVE  HandlerTypes'
  <2>1. [handler[g] EXCEPT !.pc = pc, !.lock = lock] \in HandlerRec
    <3>1. handler[g] \in HandlerRec BY <1>0 DEF HandlerTypes
    <3> QED BY <3>1 DEF HandlerRec
  <2>2. handler' = [handler EXCEPT ![g] = [handler[g] EXCEPT !.pc = pc, !.lock = lock]]
    BY <1>0, <1>4 DEF HandlerTypes
  <2> QED BY <1>2, <2>1, <2>2
<1>5. ASSUME NEW g \in Gens, Ended(g) PROVE HandlerTypes'
  BY <1>4, <1>5, GenerationNumbers DEF Ended, HandlerStates
<1>6. ASSUME NEW g \in Gens, NEW health, SpawnUnlessFenced(g, health) PROVE HandlerTypes'
  BY <1>3, <1>5, <1>6 DEF SpawnUnlessFenced, HandlerStates
<1>7. ASSUME NEW g \in Gens, Post(g) \/ Fetched(g) \/ TaskReply(g) PROVE HandlerTypes'
  <2>1. CASE Post(g) BY <1>3, <2>1 DEF Post, HandlerStates
  <2>2. CASE Fetched(g)
    <3>1. agent.lock \in Gens BY <1>0 DEF AgentRec
    <3>2. PICK lock \in Gens : handler' = [handler EXCEPT ![g].pc = "waiting", ![g].lock = lock]
      BY <2>2, <3>1 DEF Fetched
    <3> QED BY <1>4, <3>2 DEF HandlerStates
  <2>3. CASE StartArrives(g)
    <3>1. \/ handler' = [handler EXCEPT ![g].pc = "fetching"]
          \/ handler' = [handler EXCEPT ![g].pc = "replacing"]
          \/ Ended(g)
      BY <2>3 DEF StartArrives
    <3> QED BY <1>3, <1>5, <3>1 DEF HandlerStates
  <2>4. CASE FetchFails(g) \/ BecomesReady(g) \/ LoadingFails(g)
    BY <1>5, <2>4 DEF FetchFails, BecomesReady, LoadingFails
  <2>5. CASE EnterLock(g)
    <3>1. \/ SpawnUnlessFenced(g, agent.health) \/ Ended(g)
          \/ handler' = [handler EXCEPT ![g].pc = "clearing"]
      BY <2>5 DEF EnterLock
    <3> QED BY <1>3, <1>5, <1>6, <3>1 DEF HandlerStates
  <2> QED BY <1>7, <2>1, <2>2, <2>3, <2>4, <2>5 DEF TaskReply
<1>8. CASE Replaces BY <1>3, <1>8 DEF Replaces, ReplacedProcessEnds, HandlerStates
<1>9. CASE Clears BY <1>6, <1>9 DEF Clears, ClearedProcessEnds
<1>10. CASE AgentRestarts
  <2>1. handler' = [g \in Gens |-> [pc |-> IF handler[g].pc = "none" THEN "none" ELSE "done",
                                    lock |-> 0]]
    BY <1>10 DEF AgentRestarts
  <2> QED BY <2>1, EmptyRecords DEF HandlerTypes
<1> QED BY <1>1, <1>7, <1>8, <1>9, <1>10, HandlerWriters

(* Assignments to the agent's tables keep their type.                      *)
LEMMA AgentRecords ==
    ASSUME NEW r \in AgentRec, NEW h \in Healths, NEW lock \in Gens
    PROVE  /\ [r EXCEPT !.lock = lock] \in AgentRec
           /\ [r EXCEPT !.health = h] \in AgentRec
           /\ [r EXCEPT !.health = h, !.lock = lock] \in AgentRec
           /\ \A t \in Gens : /\ [r EXCEPT !.table = t, !.health = h, !.lock = lock] \in AgentRec
                              /\ [r EXCEPT !.table = t, !.health = h] \in AgentRec
                              /\ [r EXCEPT !.table = t, !.latest = t, !.health = h] \in AgentRec
BY DEF AgentRec

(* The agent's tables and the processes that exist.                        *)
LEMMA AgentStep ==
    ASSUME TypeOK, Next
    PROVE  agent' \in AgentRec /\ alive' \subseteq Gens
<1>0. /\ agent \in AgentRec /\ alive \subseteq Gens /\ HandlerTypes
      /\ agent.table \in Gens /\ agent.health \in Healths /\ agent.lock \in Gens
      /\ NoProcess \in Gens /\ 0 \in Gens /\ {"unknown", "healthy", "unhealthy"} \subseteq Healths
  BY TypeParts, GenerationNumbers DEF AgentRec, NoProcess, Healths
<1>1. ASSUME NEW g \in Gens PROVE LockAfter(g) \in Gens BY <1>0 DEF LockAfter
<1>2. \A t \in Gens, h \in Healths, lock \in Gens :
          /\ [agent EXCEPT !.lock = lock] \in AgentRec
          /\ [agent EXCEPT !.health = h] \in AgentRec
          /\ [agent EXCEPT !.health = h, !.lock = lock] \in AgentRec
          /\ [agent EXCEPT !.table = t, !.health = h, !.lock = lock] \in AgentRec
          /\ [agent EXCEPT !.table = t, !.health = h] \in AgentRec
          /\ [agent EXCEPT !.table = t, !.latest = t, !.health = h] \in AgentRec
  BY <1>0, AgentRecords
<1>3. ASSUME NEW g \in Gens, NEW h \in Healths, SpawnUnlessFenced(g, h)
      PROVE  agent' \in AgentRec /\ alive' \subseteq Gens
  <2>1. CASE agent' = [agent EXCEPT !.table = NoProcess, !.health = h, !.lock = LockAfter(g)]
             /\ alive' = alive
    BY <1>0, <1>1, <1>2, <2>1
  <2>2. CASE agent' = [agent EXCEPT !.table = g, !.latest = g, !.health = h]
             /\ alive' = alive \union {g}
    BY <1>0, <1>2, <2>2
  <2> QED BY <1>3, <2>1, <2>2 DEF SpawnUnlessFenced
<1>4. CASE OnBackend BY <1>0, <1>4, BackendWrites
<1>5. ASSUME NEW g \in Gens, Fetched(g) \/ TaskReply(g) \/ ProcessDies(g)
      PROVE  agent' \in AgentRec /\ alive' \subseteq Gens
  <2>1. CASE Fetched(g)
    <3>1. PICK lock \in Gens : agent' = [agent EXCEPT !.lock = lock]
      BY <1>0, <2>1 DEF Fetched
    <3> QED BY ZenonT(30), <1>0, <1>2, <2>1, <3>1 DEF Fetched
  <2>2. CASE StartArrives(g) \/ FetchFails(g) \/ ProcessDies(g)
    BY <1>0, <2>2 DEF StartArrives, FetchFails, ProcessDies
  <2>3. CASE EnterLock(g) BY ZenonT(30), <1>0, <1>1, <1>2, <1>3, <2>3 DEF EnterLock
  <2>4. CASE BecomesReady(g) \/ LoadingFails(g)
    <3>1. PICK lock : lock = LockAfter(g) OBVIOUS
    <3>2. /\ \/ agent' = [agent EXCEPT !.health = "healthy", !.lock = lock]
             \/ agent' = [agent EXCEPT !.table = NoProcess, !.health = "unknown", !.lock = lock]
          /\ alive' \subseteq alive
      BY <2>4, <3>1 DEF BecomesReady, LoadingFails
    <3>3. lock \in Gens BY <1>1, <3>1
    <3>4. /\ [agent EXCEPT !.health = "healthy", !.lock = lock] \in AgentRec
          /\ [agent EXCEPT !.table = NoProcess, !.health = "unknown", !.lock = lock] \in AgentRec
      BY <1>0, <1>2, <3>3
    <3> QED BY <1>0, <3>2, <3>4
  <2> QED BY <1>5, <2>1, <2>2, <2>3, <2>4 DEF TaskReply
<1>6. CASE Ends \/ Replaces
  <2>1. agent' = [agent EXCEPT !.table = NoProcess, !.health = "unknown"] /\ alive' = alive
    BY <1>6 DEF Ends, Replaces, StopEnds, ReplacedProcessEnds
  <2> QED BY <1>0, <1>2, <2>1
<1>7. CASE Clears
  <2>1. PICK g \in Gens : SpawnUnlessFenced(g, "unknown")
    BY <1>7 DEF Clears, ClearedProcessEnds
  <2> QED BY <1>0, <1>3, <2>1
<1>8. CASE ExitNoticed \/ HealthChanges
  <2>1. PICK h \in Healths : /\ \/ agent' = [agent EXCEPT !.table = NoProcess, !.health = h]
                                \/ agent' = [agent EXCEPT !.health = h]
                             /\ alive' = alive
    BY <1>0, <1>8 DEF ExitNoticed, HealthChanges
  <2> QED BY <1>0, <1>2, <2>1
<1>9. CASE AgentRestarts BY <1>9, EmptyRecords DEF AgentRestarts
<1>10. CASE Hear \/ AgentUnreachable \/ EventsLost \/ BackendRestarts
  BY <1>0, <1>10, HearingWrites
<1> QED BY <1>4, <1>5, <1>6, <1>7, <1>8, <1>9, <1>10, StepKinds

(* The calls of stop_server under way.                                     *)
LEMMA KillersStep ==
    ASSUME TypeOK, Next
    PROVE  killers' \subseteq KillerRec
<1>0. /\ killers \subseteq KillerRec /\ agent.table \in Gens /\ staleStop \in Gens
      /\ \A c \in Clients : client[c].gen \in Gens
  BY TypeParts DEF AgentRec, ClientTypes, ClientRec
<1>1. ASSUME NEW by \in Stoppers, NEW gen \in Gens,
             killers' \subseteq killers \union {[by |-> by, gen |-> gen]}
      PROVE  killers' \subseteq KillerRec
  BY <1>0, <1>1 DEF KillerRec
<1>2. CASE killers' \subseteq killers BY <1>0, <1>2
<1>3. CASE StopArrives
  <2>1. ASSUME NEW by \in Stoppers, NEW gen \in Gens, Kills(by, gen)
        PROVE  killers' \subseteq KillerRec
    BY <1>1, <2>1 DEF Kills
  <2>2. ASSUME NEW c \in Clients, RouteStopArrives(c) PROVE killers' \subseteq KillerRec
    BY <1>0, <2>1, <2>2 DEF RouteStopArrives, Stoppers
  <2>3. ASSUME NEW g \in Gens, TaskStopArrives(g) PROVE killers' \subseteq KillerRec
    BY <2>1, <2>3 DEF TaskStopArrives, Stoppers
  <2>4. CASE StaleStopArrives BY <1>0, <2>1, <2>4 DEF StaleStopArrives, Stoppers
  <2> QED BY <1>3, <2>2, <2>3, <2>4 DEF StopArrives
<1>4. CASE OnBackend BY <1>2, <1>3, <1>4, BackendWrites
<1>5. ASSUME NEW g \in Gens, Fetched(g) \/ TaskReply(g) \/ ProcessDies(g)
      PROVE  killers' \subseteq KillerRec
  <2>1. CASE StartArrives(g) \/ EnterLock(g)
    <3>1. killers' \subseteq killers \union {[by |-> <<"handler", g>>, gen |-> agent.table]}
      BY <2>1 DEF StartArrives, EnterLock
    <3>2. <<"handler", g>> \in Stoppers BY DEF Stoppers
    <3> QED BY <1>0, <1>1, <3>1, <3>2
  <2>2. CASE \/ Fetched(g) \/ ProcessDies(g) \/ FetchFails(g) \/ BecomesReady(g)
             \/ LoadingFails(g)
    BY <1>2, <2>2 DEF Fetched, ProcessDies, FetchFails, BecomesReady, LoadingFails
  <2> QED BY <1>5, <2>1, <2>2 DEF TaskReply
<1>6. CASE Ends \/ Replaces \/ Clears
  BY <1>2, <1>6 DEF Ends, Replaces, Clears, StopEnds, ReplacedProcessEnds, ClearedProcessEnds,
                    Forgets
<1>7. CASE ExitNoticed \/ HealthChanges \/ AgentRestarts
  BY <1>0, <1>7 DEF ExitNoticed, HealthChanges, AgentRestarts
<1>8. CASE Hear \/ AgentUnreachable \/ EventsLost \/ BackendRestarts
  BY <1>2, <1>3, <1>8, HearingWrites DEF StopArrives
<1> QED BY <1>4, <1>5, <1>6, <1>7, <1>8, StepKinds

(* The events and the registrations on their way.                          *)
LEMMA WireStep ==
    ASSUME TypeOK, Next
    PROVE  EventTypesOK' /\ report' \in ReportRec /\ staleStop' \in Gens
<1> DEFINE Wire == EventTypesOK' /\ report' \in ReportRec /\ staleStop' \in Gens
<1>0. /\ EventTypesOK /\ report \in ReportRec /\ staleStop \in Gens /\ MaxEvents \in Nat
      /\ agent.table \in Gens /\ report.gen \in Gens /\ NoProcess \in Gens
      /\ {"started", "stopped", "error", "healthy", "unhealthy"} \subseteq EventTypes
  BY TypeParts, GenerationNumbers, LifecycleAssumption DEF AgentRec, ReportRec, EventTypes,
                                                          NoProcess
<1>1. ASSUME events' = events \/ events' = <<>>, report' = report \/ report' = NoReport,
             staleStop' = staleStop \/ staleStop' = NoProcess
      PROVE  Wire
  <2>1. <<>> \in Seq(Event) /\ Len(<<>>) <= MaxEvents BY <1>0
  <2> QED BY <1>0, <1>1, <2>1, EmptyRecords DEF EventTypesOK
<1>2. ASSUME NEW type \in EventTypes, NEW gen \in Gens, events' = Published(type, gen),
             UNCHANGED <<report, staleStop>>
      PROVE  Wire
  <2>1. [type |-> type, gen |-> gen] \in Event BY DEF Event
  <2>2. Len(events) < MaxEvents =>
            Append(events, [type |-> type, gen |-> gen]) \in Seq(Event)
            /\ Len(Append(events, [type |-> type, gen |-> gen])) = Len(events) + 1
    BY <1>0, <2>1 DEF EventTypesOK
  <2>3. Len(events) \in Nat BY <1>0 DEF EventTypesOK
  <2> QED BY <1>0, <1>2, <2>2, <2>3 DEF Published, EventTypesOK
<1>3. CASE OnBackend BY <1>1, <1>3, BackendWrites
<1>4. ASSUME NEW g \in Gens, Fetched(g) \/ TaskReply(g) \/ ProcessDies(g) PROVE Wire
  <2>1. CASE BecomesReady(g) \/ LoadingFails(g)
    BY <1>0, <1>2, <2>1 DEF BecomesReady, LoadingFails
  <2>2. CASE Fetched(g) \/ StartArrives(g) BY <1>1, <2>2 DEF Fetched, StartArrives, Agent
  <2>3. CASE FetchFails(g) \/ ProcessDies(g) \/ EnterLock(g)
    BY <1>1, <2>3 DEF FetchFails, ProcessDies, EnterLock, wire
  <2> QED BY <1>4, <2>1, <2>2, <2>3 DEF TaskReply
<1>5. ASSUME NEW k \in killers,
             StopEnds(k) \/ \E g \in Gens : ReplacedProcessEnds(k, g) \/ ClearedProcessEnds(k, g)
      PROVE  Wire
  <2>1. Forgets(k) BY <1>5 DEF StopEnds, ReplacedProcessEnds, ClearedProcessEnds
  <2>2. k.gen \in Gens BY TypeParts DEF KillerRec
  <2> QED BY <1>0, <1>2, <2>1, <2>2 DEF Forgets
<1>6. CASE ExitNoticed BY <1>0, <1>2, <1>6 DEF ExitNoticed, Agent
<1>7. CASE HealthChanges
  <2>1. PICK type \in {"healthy", "unhealthy"} : events' = Published(type, agent.table)
    BY <1>7 DEF HealthChanges
  <2> QED BY <1>0, <1>2, <1>7, <2>1 DEF HealthChanges
<1>8. CASE AgentRestarts \/ EventsLost \/ BackendRestarts \/ AgentUnreachable
  BY <1>1, <1>8 DEF AgentRestarts, EventsLost, BackendRestarts, AgentUnreachable, wire
<1>9. CASE Hear
  <2>1. CASE HandleEvent
    <3>1. Tail(events) \in Seq(Event) /\ Len(Tail(events)) <= MaxEvents
      <4>1. events \in Seq(Event) /\ events # <<>> /\ Len(events) <= MaxEvents
        BY <1>0, <2>1 DEF EventTypesOK, HandleEvent
      <4>2. Tail(events) \in Seq(Event) /\ Len(Tail(events)) = Len(events) - 1
        BY <4>1
      <4>3. Len(events) \in Nat BY <4>1
      <4> QED BY <1>0, <4>1, <4>2, <4>3
    <3> QED BY <1>0, <2>1, <3>1 DEF HandleEvent, EventTypesOK
  <2>2. CASE Register
    <3>1. PICK gen \in Gens, b \in BOOLEAN :
              report' = [sent |-> TRUE, gen |-> gen, healthy |-> b]
      BY <1>0, <2>2 DEF Register
    <3>2. report' \in ReportRec BY <3>1 DEF ReportRec
    <3> QED BY <1>0, <2>2, <3>2 DEF Register, EventTypesOK
  <2>3. CASE HandleEmptyReport BY <1>1, <2>3 DEF HandleEmptyReport
  <2>4. CASE HandleReport
    BY <1>0, <2>4, EmptyRecords DEF HandleReport, StaleProcess, EventTypesOK
  <2>5. CASE StaleStopArrives BY <1>1, <2>5 DEF StaleStopArrives, Agent
  <2> QED BY <1>9, <2>1, <2>2, <2>3, <2>4, <2>5 DEF Hear
<1> QED BY <1>3, <1>4, <1>5, <1>6, <1>7, <1>8, <1>9, StepKinds DEF Ends, Replaces, Clears

(* A step uses up one of the faults at most.                               *)
LEMMA BudgetStep ==
    ASSUME TypeOK, Next
    PROVE  budget' \in 0..MaxFaults
<1>0. budget \in 0..MaxFaults /\ MaxFaults \in Nat BY TypeParts, LifecycleAssumption
<1>1. ASSUME Fine \/ \E fault : Wrong(fault) PROVE budget' \in 0..MaxFaults
  BY <1>0, <1>1 DEF Fine, Wrong
<1>2. ASSUME NEW c \in Clients, Route(c) \/ Continue(c) PROVE Fine
  <2>1. CASE Route(c)
    BY <2>1 DEF Route, Create, ReadToStart, ReadForReadiness, ReadToInitialize, ReadToDelete,
                ReadToUpdate, ReadToStop, Backend
  <2>2. CASE Continue(c)
    BY <2>2 DEF Continue, ReserveStart, EnsureStarted, MarkPreparing, InitializationBegins,
                MarkUninitialized, MarkDeleting, DeleteRow, RequestStop, RouteStopArrives,
                StopSettles, StopFailureRead, StopFailureWrite, Backend, Agent
  <2> QED BY <1>2, <2>1, <2>2
<1>3. ASSUME NEW g \in Gens, Dispatch(g) \/ Initialize(g) PROVE budget' \in 0..MaxFaults
  <2>1. CASE Dispatch(g)
    <3>1. Fine BY <2>1 DEF Dispatch, Gate, Post, DispatchReads, DispatchIsLate, DispatchWrites,
                           Backend
    <3> QED BY <1>1, <3>1
  <2>2. CASE Initialize(g)
    <3>1. Fine \/ Wrong("prepare")
      BY <2>2 DEF Initialize, BeginPreparation, PreparationEnds, Gather, Inspect,
                  TaskStopArrives, InitializationSettles, Backend, Agent
    <3> QED BY <1>1, <3>1
  <2> QED BY <1>3, <2>1, <2>2
<1>4. ASSUME NEW g \in Gens,
             \/ PostFails(g) \/ FetchFails(g) \/ ProcessDies(g) \/ Fetched(g)
             \/ StartArrives(g) \/ EnterLock(g) \/ BecomesReady(g) \/ LoadingFails(g)
      PROVE  budget' \in 0..MaxFaults
  <2>1. Fine \/ Wrong("giveup") \/ Wrong("prepare") \/ Wrong("exit") \/ Wrong("slow")
    BY <1>4 DEF PostFails, FetchFails, ProcessDies, Fetched, StartArrives, EnterLock,
                BecomesReady, LoadingFails, Agent
  <2> QED BY <1>1, <2>1
<1>5. CASE Ends \/ Replaces \/ Clears
  <2>1. Fine BY <1>5 DEF Ends, Replaces, Clears, StopEnds, ReplacedProcessEnds,
                         ClearedProcessEnds, Forgets
  <2> QED BY <1>1, <2>1
<1>6. CASE Hear \/ ExitNoticed
  <2>1. Fine BY <1>6 DEF Hear, HandleEvent, HandleEmptyReport, HandleReport, Register,
                         StaleStopArrives, ExitNoticed, Agent
  <2> QED BY <1>1, <2>1
<1>7. CASE \/ AgentUnreachable \/ EventsLost \/ AgentRestarts \/ BackendRestarts
           \/ HealthChanges \/ StopGivenUp
  <2>1. \E fault : Wrong(fault)
    BY <1>7 DEF AgentUnreachable, EventsLost, AgentRestarts, BackendRestarts, HealthChanges,
                StopGivenUp
  <2> QED BY <1>1, <2>1
<1> QED BY <1>1, <1>2, <1>3, <1>4, <1>5, <1>6, <1>7, StepKinds DEF OnBackend, TaskReply

(* What has happened to the processes of a generation is not forgotten.    *)
LEMMA HistoryStep ==
    ASSUME TypeOK, Next
    PROVE  /\ history' \in HistoryRec /\ history.ready \subseteq history'.ready
           /\ history.doubled => history'.doubled
<1> DEFINE Grows == /\ history' \in HistoryRec /\ history.ready \subseteq history'.ready
                    /\ history.doubled => history'.doubled
<1>0. history \in HistoryRec /\ agent.table \in Gens BY TypeParts DEF AgentRec
<1>1. CASE history' = history BY <1>0, <1>1
<1>2. ASSUME NEW g \in Gens, history' = [history EXCEPT !.ready = @ \union {g}] PROVE Grows
  BY <1>0, <1>2 DEF HistoryRec
<1>3. ASSUME NEW b \in BOOLEAN, history' = [history EXCEPT !.doubled = @ \/ b] PROVE Grows
  BY <1>0, <1>3 DEF HistoryRec
<1>4. ASSUME NEW g \in Gens, NEW health, SpawnUnlessFenced(g, health) PROVE Grows
  BY <1>1, <1>3, <1>4 DEF SpawnUnlessFenced
<1>5. CASE OnBackend BY <1>1, <1>5, BackendWrites
<1>6. ASSUME NEW g \in Gens, Fetched(g) \/ TaskReply(g) \/ ProcessDies(g) PROVE Grows
  <2>1. CASE EnterLock(g) BY <1>1, <1>4, <2>1 DEF EnterLock
  <2>2. CASE BecomesReady(g) BY <1>2, <2>2 DEF BecomesReady
  <2>3. CASE \/ Fetched(g) \/ StartArrives(g) \/ FetchFails(g) \/ LoadingFails(g)
             \/ ProcessDies(g)
    BY <1>1, <2>3 DEF Fetched, StartArrives, FetchFails, LoadingFails, ProcessDies, Agent
  <2> QED BY <1>6, <2>1, <2>2, <2>3 DEF TaskReply
<1>7. CASE Ends \/ Replaces
  BY <1>1, <1>7 DEF Ends, Replaces, StopEnds, ReplacedProcessEnds
<1>8. CASE Clears BY <1>4, <1>8 DEF Clears, ClearedProcessEnds
<1>9. CASE HealthChanges BY <1>0, <1>1, <1>2, <1>9 DEF HealthChanges
<1>10. CASE BackendRestarts BY <1>0, <1>10 DEF BackendRestarts, HistoryRec
<1>11. CASE ExitNoticed \/ Hear \/ AgentUnreachable \/ EventsLost \/ AgentRestarts
  BY <1>1, <1>11 DEF ExitNoticed, Hear, HandleEvent, HandleEmptyReport, HandleReport, Register,
                     StaleStopArrives, AgentUnreachable, EventsLost, AgentRestarts, Agent, Hears
<1> QED BY <1>5, <1>6, <1>7, <1>8, <1>9, <1>10, <1>11, StepKinds

(* Every step keeps the types.                                             *)
LEMMA TypeStep == Inv /\ [Next]_vars => Inv'
<1> SUFFICES ASSUME Inv, [Next]_vars PROVE Inv'
  OBVIOUS
<1>0. TypeOK /\ GenerationsLeft BY DEF Inv
<1>1. CASE UNCHANGED vars
  BY <1>0, <1>1 DEF vars, Inv, TypeOK, GenerationsLeft, Left
<1>2. CASE Next
  <2>1. row' \in Rows /\ ClientTypes' /\ TaskTypes' /\ HandlerTypes'
    BY <1>0, <1>2, RowStep, ClientStep, TaskStep, HandlerStep
  <2>2. /\ agent' \in AgentRec /\ alive' \subseteq Gens /\ killers' \subseteq KillerRec
        /\ EventTypesOK' /\ report' \in ReportRec /\ staleStop' \in Gens
        /\ budget' \in 0..MaxFaults /\ history' \in HistoryRec
    BY <1>0, <1>2, AgentStep, KillersStep, WireStep, BudgetStep, HistoryStep
  <2>3. GenerationsLeft' BY <1>0, <1>2, GenerationsStep
  <2> QED BY <2>1, <2>2, <2>3 DEF Inv, TypeOK, ClientTypes, ClientRec, TaskTypes, TaskRec,
             HandlerTypes, HandlerRec, AgentRec, KillerRec, EventTypesOK, Event, ReportRec,
             HistoryRec
<1> QED BY <1>1, <1>2

(* The initial states have the right types and leave every call one        *)
(* generation.                                                             *)
LEMMA TypeInit == Init => Inv
<1> SUFFICES ASSUME Init PROVE Inv
  OBVIOUS
<1>1. Cardinality(Clients) \in Nat /\ 0 \in Gens /\ 1 \in Gens
  BY LifecycleAssumption, FS_CardinalityType DEF Gens
<1>2. row \in Rows /\ (row.gen = 0 \/ row.gen = 1)
  BY <1>1 DEF Init, Rows, Statuses, Gone, Healths
<1>3. ClientTypes BY EmptyRecords DEF Init, ClientTypes
<1>4. TaskTypes /\ HandlerTypes BY EmptyRecords DEF Init, TaskTypes, HandlerTypes
<1>5. agent \in AgentRec
  BY <1>1, <1>2 DEF Init, AgentRec, FreshAgent, NoProcess, Healths
<1>6. alive \subseteq Gens /\ killers \subseteq KillerRec BY DEF Init
<1>7. EventTypesOK BY LifecycleAssumption DEF Init, EventTypesOK
<1>8. report \in ReportRec /\ staleStop \in Gens BY <1>1, EmptyRecords DEF Init
<1>9. budget \in 0..MaxFaults /\ history \in HistoryRec
  BY LifecycleAssumption DEF Init, HistoryRec
<1>10. GenerationsLeft
  <2>1. Left = Clients BY DEF Init, Left, NoClient
  <2> QED BY <1>1, <1>2, <2>1 DEF GenerationsLeft
<1> QED BY <1>2, <1>3, <1>4, <1>5, <1>6, <1>7, <1>8, <1>9, <1>10, TypeParts DEF Inv

(* The invariant of the types holds.                                       *)
LEMMA TypeInvariant == Spec => []Inv
BY TypeInit, TypeStep, PTL DEF Spec

(* The state keeps its types; no row runs out of generations, because a    *)
(* call that has reserved one is done.                                     *)
THEOREM LifecycleTypeCorrect == Spec => []TypeOK
<1>1. Inv => TypeOK BY DEF Inv
<1> QED BY <1>1, TypeInvariant, PTL

-----------------------------------------------------------------------------
(* The order of the generations that an agent spawns. *)

(* A handler spawns its own generation, which no start has overtaken.      *)
Spawns(g) ==
    /\ handler[g].pc \in {"waiting", "clearing"} /\ ~Fenced(g)
    /\ handler[g].pc = "waiting" => agent.table = NoProcess
    /\ handler' = [handler EXCEPT ![g].pc = "loading"]
    /\ alive' = alive \union {g}
    /\ history' = [history EXCEPT !.doubled = @ \/ alive # {}]
    /\ agent'.table = g /\ agent'.health \in {"unknown", agent.health}
    /\ agent.table # NoProcess => agent'.health = "unknown"

(* A process comes to be by a handler that spawns it.                      *)
LEMMA SpawnStep ==
    ASSUME TypeOK, Next
    PROVE  alive' \subseteq alive \/ \E g \in Gens : Spawns(g)
<1>0. agent \in AgentRec /\ HandlerTypes BY TypeParts
<1>1. ASSUME NEW g \in Gens, NEW health, SpawnUnlessFenced(g, health),
             \/ handler[g].pc = "waiting" /\ agent.table = NoProcess /\ health = agent.health
             \/ handler[g].pc = "clearing" /\ health = "unknown"
      PROVE  alive' \subseteq alive \/ Spawns(g)
  <2>1. CASE Fenced(g) BY <1>1, <2>1 DEF SpawnUnlessFenced
  <2>2. CASE ~Fenced(g)
    <3>1. /\ handler' = [handler EXCEPT ![g].pc = "loading"]
          /\ agent' = [agent EXCEPT !.table = g, !.latest = g, !.health = health]
          /\ alive' = alive \union {g}
          /\ history' = [history EXCEPT !.doubled = @ \/ alive # {}]
      BY <1>1, <2>2 DEF SpawnUnlessFenced
    <3>2. agent'.table = g /\ agent'.health = health BY <1>0, <3>1 DEF AgentRec
    <3> QED BY <1>1, <2>2, <3>1, <3>2 DEF Spawns
  <2> QED BY <2>1, <2>2
<1>2. CASE OnBackend BY <1>2, BackendWrites
<1>3. ASSUME NEW g \in Gens, Fetched(g) \/ TaskReply(g) \/ ProcessDies(g)
      PROVE  alive' \subseteq alive \/ Spawns(g)
  <2>1. CASE EnterLock(g) BY <1>1, <2>1 DEF EnterLock
  <2>2. CASE \/ Fetched(g) \/ StartArrives(g) \/ FetchFails(g) \/ BecomesReady(g)
             \/ LoadingFails(g) \/ ProcessDies(g)
    BY <2>2 DEF Fetched, StartArrives, FetchFails, BecomesReady, LoadingFails, ProcessDies
  <2> QED BY <1>3, <2>1, <2>2 DEF TaskReply
<1>4. CASE Ends \/ Replaces BY <1>4 DEF Ends, Replaces, StopEnds, ReplacedProcessEnds
<1>5. CASE Clears
  <2>1. PICK g \in Gens : handler[g].pc = "clearing" /\ SpawnUnlessFenced(g, "unknown")
    BY <1>5 DEF Clears, ClearedProcessEnds
  <2> QED BY <1>1, <2>1
<1>6. CASE ExitNoticed \/ HealthChanges \/ AgentRestarts
  BY <1>6 DEF ExitNoticed, HealthChanges, AgentRestarts
<1>7. CASE Hear \/ AgentUnreachable \/ EventsLost \/ BackendRestarts BY <1>7, HearingWrites
<1> QED BY <1>2, <1>3, <1>4, <1>5, <1>6, <1>7, StepKinds

(* No process is spawned for a start that a newer one has overtaken, at    *)
(* whichever of its waits that happened.                                   *)
THEOREM OldStartsAreFenced == Spec => OvertakenStartNeverSpawns
<1>1. Inv /\ [Next]_vars =>
          [\A g \in alive' \ alive : \A h \in Gens : g <= h => agent.latest # h]_vars
  <2> SUFFICES ASSUME Inv, Next, NEW g \in alive' \ alive, NEW h \in Gens, g <= h
               PROVE  agent.latest # h
    OBVIOUS
  <2>1. TypeOK BY DEF Inv
  <2>2. Spawns(g) /\ g \in Gens BY <2>1, SpawnStep DEF Spawns
  <2>3. ~(g <= agent.latest) BY <2>2 DEF Spawns, Fenced
  <2> QED BY <2>3
<1> QED BY <1>1, TypeInvariant, PTL DEF Spec, OvertakenStartNeverSpawns

-----------------------------------------------------------------------------
(* The end of a stop that a start has overtaken. *)

(* A failed stop that means to write "error" has read its own generation.  *)
StopReads == \A c \in Clients : client[c].pc = "stopError" => client[c].seen.gen = client[c].gen

(* Only a failed stop gets to write "error", and only if its generation is *)
(* still the row's.                                                        *)
LEMMA StopReadsStep ==
    ASSUME TypeOK, StopReads, Next
    PROVE  StopReads'
<1>0. ClientTypes BY TypeParts
<1>1. CASE client' = client BY <1>1 DEF StopReads
<1>2. ASSUME NEW c \in Clients, NEW pc \in ClientStates \ {"stopError"}, client'[c].pc = pc,
             \A d \in Clients \ {c} : client'[d] = client[d]
      PROVE  StopReads'
  BY <1>2 DEF StopReads
<1>3. ASSUME NEW c \in Clients, Route(c) PROVE StopReads'
  <2>1. ASSUME NEW op \in AllOperations, NEW pc \in ClientStates \ {"stopError"},
               Begins(c, op, pc)
        PROVE  StopReads'
    BY <1>2, <2>1, BeginsTypes
  <2>2. \E op \in AllOperations, pc \in ClientStates \ {"stopError"} : Begins(c, op, pc)
    <3>1. CASE ReadToDelete(c) \/ ReadToUpdate(c)
      <4>1. \E op \in {"delete", "update", "restart"}, pc \in {"stop", "deleteMark", "updateMark"} :
               Begins(c, op, pc)
        BY <3>1 DEF ReadToDelete, ReadToUpdate
      <4> QED BY <4>1 DEF AllOperations, ClientStates
    <3>2. CASE ~ReadToDelete(c) /\ ~ReadToUpdate(c)
      BY <1>3, <3>2 DEF Route, Create, ReadToStart, ReadForReadiness, ReadToInitialize,
                        ReadToStop, AllOperations, ClientStates
    <3> QED BY <3>1, <3>2
  <2> QED BY <2>1, <2>2
<1>4. ASSUME NEW c \in Clients, Continue(c) PROVE StopReads'
  <2>1. ASSUME NEW pc \in ClientStates \ {"stopError"}, Goto(c, pc) PROVE StopReads'
    BY <1>0, <1>2, <2>1, GotoTypes
  <2>2. CASE \/ ReserveStart(c) \/ EnsureStarted(c) \/ DeleteRow(c) \/ StopFailureWrite(c)
             \/ InitializationBegins(c)
    BY <2>1, <2>2 DEF ReserveStart, EnsureStarted, DeleteRow, StopFailureWrite,
                      InitializationBegins, ClientStates
  <2>3. CASE MarkUninitialized(c) \/ MarkDeleting(c) \/ RouteStopArrives(c) \/ StopSettles(c)
    <3>1. PICK pc \in {"scheduled", "deleteRow", "stopAnswered", "stopHandled", "stopFailed",
                       "deleteMark", "updateMark", "wantStart", "done"} : Goto(c, pc)
      BY <2>3 DEF MarkUninitialized, MarkDeleting, RouteStopArrives, StopVerdict, StopSettles,
                  AfterStop
    <3> QED BY <2>1, <3>1 DEF ClientStates
  <2>4. CASE MarkPreparing(c)
    <3>1. PICK pc \in {"scheduled", "done"} :
              client' = [client EXCEPT ![c].pc = pc, ![c].seen = Unread]
      BY <2>4 DEF MarkPreparing
    <3>2. client'[c].pc = pc /\ \A d \in Clients \ {c} : client'[d] = client[d]
      BY <1>0, <3>1 DEF ClientTypes, ClientRec
    <3> QED BY <1>2, <3>2 DEF ClientStates
  <2>5. CASE RequestStop(c)
    <3>1. CASE Goto(c, "done") BY <2>1, <3>1 DEF ClientStates
    <3>2. CASE client' = [client EXCEPT ![c].pc = "stopSent", ![c].gen = row.gen]
      <4>1. client'[c].pc = "stopSent" /\ \A d \in Clients \ {c} : client'[d] = client[d]
        BY <1>0, <3>2 DEF ClientTypes, ClientRec
      <4> QED BY <1>2, <4>1 DEF ClientStates
    <3> QED BY <2>5, <3>1, <3>2 DEF RequestStop
  <2>6. CASE StopFailureRead(c)
    <3>1. CASE Goto(c, "done") BY <2>1, <3>1 DEF ClientStates
    <3>2. CASE Settled(c) /\ client' = [client EXCEPT ![c].pc = "stopError", ![c].seen = row]
      <4>1. /\ client'[c].seen = row /\ client'[c].gen = client[c].gen
            /\ \A d \in Clients \ {c} : client'[d] = client[d]
        BY <1>0, <3>2 DEF ClientTypes, ClientRec
      <4> QED BY <3>2, <4>1 DEF StopReads, Settled
    <3> QED BY <2>6, <3>1, <3>2 DEF StopFailureRead
  <2> QED BY <1>4, <2>2, <2>3, <2>4, <2>5, <2>6 DEF Continue
<1>5. CASE StopGivenUp
  <2>1. client' = client \/ \E c \in Clients : Goto(c, "stopFailed") BY <1>5 DEF StopGivenUp
  <2>2. ASSUME NEW c \in Clients, Goto(c, "stopFailed") PROVE StopReads'
    BY <1>0, <1>2, <2>2, GotoTypes DEF ClientStates
  <2> QED BY <1>1, <2>1, <2>2
<1>6. ASSUME \A c \in Clients : client'[c] = client[c] \/ client'[c].pc # "stopError"
      PROVE  StopReads'
  BY <1>6 DEF StopReads
<1>7. CASE Ends
  <2>1. PICK k \in killers : StopEnds(k) BY <1>7 DEF Ends
  <2>2. ASSUME NEW c \in Clients PROVE client'[c] = client[c] \/ client'[c].pc # "stopError"
    <3>1. client[c] \in ClientRec BY <1>0 DEF ClientTypes
    <3> QED BY <2>1, <3>1 DEF StopEnds, StopReplied, ClientRec
  <2> QED BY <1>6, <2>2
<1>8. CASE AgentRestarts \/ BackendRestarts
  <2>1. ASSUME NEW c \in Clients PROVE client'[c] = client[c] \/ client'[c].pc # "stopError"
    <3>1. client[c] \in ClientRec BY <1>0 DEF ClientTypes
    <3>2. CASE AgentRestarts BY <3>1, <3>2 DEF AgentRestarts, ClientRec
    <3>3. CASE BackendRestarts BY <3>3 DEF BackendRestarts, NoClient
    <3> QED BY <1>8, <3>2, <3>3
  <2> QED BY <1>6, <2>1
<1> QED BY <1>1, <1>3, <1>4, <1>5, <1>7, <1>8, ClientWriters

(* A stop leaves the row to the start that has overtaken it, whenever that *)
(* start was reserved, as long as nobody writes a row between another's    *)
(* read and write of it.                                                   *)
THEOREM StopsSpareNewerStarts ==
    ASSUME "overlap" \notin Faults
    PROVE  Spec => StopSparesNewerStart
<1>1. Init => StopReads BY DEF Init, StopReads, NoClient
<1>2. Inv /\ StopReads /\ [Next]_vars => StopReads'
  <2> SUFFICES ASSUME Inv, StopReads, [Next]_vars PROVE StopReads'
    OBVIOUS
  <2>1. CASE UNCHANGED vars BY <2>1 DEF vars, StopReads
  <2> QED BY <2>1, StopReadsStep DEF Inv
<1>3. Inv /\ StopReads /\ [Next]_vars =>
        [\A c \in Clients :
          /\ client[c].pc \in {"stopAnswered", "stopFailed", "stopError"}
          /\ client[c].gen # row.gen
          /\ client'[c] # client[c]
          => row' = row]_vars
  <2> SUFFICES ASSUME Inv, StopReads, Next, NEW c \in Clients,
                      client[c].pc \in {"stopAnswered", "stopFailed", "stopError"},
                      client[c].gen # row.gen, client'[c] # client[c]
               PROVE  row' = row
    OBVIOUS
  <2>0. TypeOK /\ ClientTypes BY TypeParts DEF Inv
  <2>1. ASSUME NEW d \in Clients, Route(d) \/ Continue(d) PROVE row' = row
    <3>1. c = d
      <4>1. CASE Route(d)
        BY <2>0, <4>1 DEF Route, Create, ReadToStart, ReadForReadiness, ReadToInitialize,
                          ReadToDelete, ReadToUpdate, ReadToStop, Begins, ClientTypes
      <4>2. CASE Continue(d)
        BY <2>0, <4>2 DEF Continue, ReserveStart, EnsureStarted, MarkPreparing,
               InitializationBegins, MarkUninitialized, MarkDeleting, DeleteRow, RequestStop,
               RouteStopArrives, StopSettles, StopFailureRead, StopFailureWrite, Goto,
               ClientTypes
      <4> QED BY <2>1, <4>1, <4>2
    <3>2. ~Route(c)
      BY DEF Route, Create, ReadToStart, ReadForReadiness, ReadToInitialize, ReadToDelete,
             ReadToUpdate, ReadToStop, Begins
    <3>3. StopSettles(c) \/ StopFailureRead(c) \/ StopFailureWrite(c)
      BY <2>1, <3>1, <3>2 DEF Continue, ReserveStart, EnsureStarted, MarkPreparing,
             InitializationBegins, MarkUninitialized, MarkDeleting, DeleteRow, RequestStop,
             RouteStopArrives
    <3>4. CASE StopSettles(c) BY <3>4 DEF StopSettles, Settled
    <3>5. CASE StopFailureRead(c) BY <3>5 DEF StopFailureRead
    <3>6. CASE StopFailureWrite(c)
      <4>1. row # client[c].seen BY <3>6 DEF StopFailureWrite, StopReads
      <4> QED BY <3>6, <4>1 DEF StopFailureWrite, Commit, Commits
    <3> QED BY <3>3, <3>4, <3>5, <3>6
  <2>2. CASE StopGivenUp \/ Ends \/ AgentRestarts \/ BackendRestarts
    BY <2>2 DEF StopGivenUp, Ends, StopEnds, Forgets, AgentRestarts, BackendRestarts
  <2> QED BY <2>1, <2>2, ClientWriters
<1> QED BY <1>1, <1>2, <1>3, TypeInvariant, PTL DEF Spec, StopSparesNewerStart

-----------------------------------------------------------------------------
(* What a step does to a row, to a task and to a handler. *)

(* A step that says nothing good of the row.                               *)
Quiet ==
    /\ row'.gen = row.gen
    /\ row'.status = row.status \/ row'.status \notin Up
    /\ row'.health \in {row.health, "unknown", "unhealthy"}

(* The row gets its next generation, with the task of that generation.     *)
NextStarts ==
    /\ row'.gen = row.gen + 1 /\ row'.status = "starting" /\ row'.health = "unknown"
    /\ task' = [task EXCEPT ![row.gen + 1] = [NoTask EXCEPT !.kind = "start", !.pc = "gate"]]
NextInitializes ==
    /\ row'.gen = row.gen + 1 /\ row'.status = row.status /\ row'.health = row.health
    /\ task' = [task EXCEPT ![row.gen + 1] = [NoTask EXCEPT !.kind = "init", !.pc = "prepare"]]

(* The row is told that its process is up: by the answer to its start, by  *)
(* an event, or by a registration.                                         *)
Acknowledged(g) ==
    /\ task[g].pc = "answered" /\ task[g].seen # Unread /\ row = task[g].seen
    /\ row'.gen = row.gen
Announced ==
    /\ events # <<>> /\ Head(events).type \in {"started", "healthy"}
    /\ Head(events).gen = row.gen /\ row'.gen = row.gen
Registered ==
    /\ row'.gen = row.gen /\ row.gen = report.gen /\ report.gen # 0
    /\ row'.health = "healthy" => report.healthy

(* A step is quiet about the row unless it starts, initializes or hears of *)
(* a generation.                                                           *)
LEMMA RowMoves ==
    ASSUME TypeOK, GenerationsLeft, Next, "overlap" \notin Faults
    PROVE  \/ Quiet \/ NextStarts \/ NextInitializes \/ Announced \/ Registered
           \/ \E g \in Gens : Acknowledged(g)
<1>0. /\ row \in Rows /\ \A c \in Clients : client[c] \in ClientRec /\ client[c].seen \in Rows
      /\ \A g \in Gens : task[g] \in TaskRec /\ task[g].seen \in Rows
  BY TypeParts DEF ClientTypes, TaskTypes, ClientRec, TaskRec
<1>1. ASSUME row' = row PROVE Quiet BY <1>1 DEF Quiet
<1>2. ASSUME NEW status \in Statuses \ Up, NEW health \in {row.health, "unknown"},
             \/ row' = [row EXCEPT !.status = status, !.health = health]
             \/ row' = [row EXCEPT !.status = status]
      PROVE  Quiet
  BY <1>0, <1>2 DEF Quiet, Rows
<1>3. {"preparing", "metadata_gathering", "stopped", "stopping", "uninitialized", "deleting",
       "deleted", "error", "initialization_failed"} \subseteq Statuses \ Up
  BY DEF Statuses, Uninitialized, Initializing, Up, Gone
<1>4. \A seen, new : Commit(seen, new) # row => row = seen BY DEF Commit, Commits
<1>5. ASSUME LaunchStart PROVE NextStarts
  <2>1. row.gen + 1 # row.gen BY <1>0, GenerationNumbers DEF Rows
  <2> QED BY <1>0, <1>5, <2>1 DEF LaunchStart, NextGeneration, NextStarts
<1>6. ASSUME NEW c \in Clients, RowRoute(c)
      PROVE  Quiet \/ NextStarts \/ NextInitializes
  <2>1. CASE Create(c) BY <1>2, <1>3, <2>1 DEF Create
  <2>2. CASE ReserveStart(c) \/ EnsureStarted(c)
    BY <1>1, <1>5, <2>2 DEF ReserveStart, EnsureStarted, NextStarts
  <2>3. CASE MarkPreparing(c)
    <3>1. CASE Commits(client[c].seen)
      <4>1. row = client[c].seen BY <3>1 DEF Commits
      <4>2. row' = Commit(row, [row EXCEPT !.status = "preparing", !.health = "unknown"])
        BY <2>3, <4>1 DEF MarkPreparing
      <4>3. row'.gen = row.gen /\ row'.status = "preparing" /\ row'.health = "unknown"
        BY <1>0, <3>1, <4>1, <4>2 DEF Commit, Rows
      <4> QED BY <4>3 DEF Quiet, Up
    <3>2. CASE ~Commits(client[c].seen) BY <1>1, <2>3, <3>2 DEF MarkPreparing, Commit
    <3> QED BY <3>1, <3>2
  <2>4. CASE InitializationBegins(c)
    <3>1. CASE row' = [row EXCEPT !.gen = row.gen + 1]
               /\ task' = [task EXCEPT ![row.gen + 1] =
                              [NoTask EXCEPT !.kind = "init", !.pc = "prepare"]]
      BY <1>0, <3>1 DEF Rows, NextInitializes
    <3> QED BY <1>1, <2>4, <3>1 DEF InitializationBegins, NextGeneration
  <2>5. CASE MarkUninitialized(c) BY <1>1, <1>2, <1>3, <2>5 DEF MarkUninitialized
  <2>6. CASE MarkDeleting(c) \/ DeleteRow(c)
    BY <1>1, <1>2, <1>3, <2>6 DEF MarkDeleting, SetStatus, DeleteRow
  <2>7. CASE RequestStop(c) \/ StopSettles(c)
    BY <1>1, <1>2, <1>3, <2>7 DEF RequestStop, StopSettles
  <2>8. CASE StopFailureWrite(c)
    <3>1. CASE Commits(client[c].seen)
      <4>1. row = client[c].seen BY <3>1 DEF Commits
      <4>2. row' = Commit(row, [row EXCEPT !.status = "error", !.health = "unknown"])
        BY <2>8, <4>1 DEF StopFailureWrite
      <4>3. row'.gen = row.gen /\ row'.status = "error" /\ row'.health = "unknown"
        BY <1>0, <3>1, <4>1, <4>2 DEF Commit, Rows
      <4> QED BY <4>3 DEF Quiet, Up
    <3>2. CASE ~Commits(client[c].seen) BY <1>1, <2>8, <3>2 DEF StopFailureWrite, Commit
    <3> QED BY <3>1, <3>2
  <2> QED BY <1>6, <2>1, <2>2, <2>3, <2>4, <2>5, <2>6, <2>7, <2>8 DEF RowRoute
<1>7. ASSUME NEW g \in Gens, RowTask(g) PROVE Quiet \/ Acknowledged(g)
  <2>1. CASE DispatchWrites(g)
    <3>1. CASE Commits(task[g].seen)
      <4>1. row = task[g].seen /\ task[g].seen # Unread
        BY <2>1, <3>1 DEF Commits, DispatchWrites
      <4>2. row' = Commit(row, Outcome(task[g])) BY <2>1, <4>1 DEF DispatchWrites
      <4>3. row'.gen = row.gen BY <1>0, <4>2 DEF Commit, Rows
      <4>4. CASE task[g].pc = "answered" BY <4>1, <4>3, <4>4 DEF Acknowledged
      <4>5. CASE task[g].pc = "refused"
        <5>1. Outcome(task[g]) = [row EXCEPT !.status = "error"] BY <4>1, <4>5 DEF Outcome
        <5>2. row'.status = "error" /\ row'.health = row.health
          BY <1>0, <3>1, <4>1, <4>2, <5>1 DEF Commit, Rows
        <5> QED BY <4>3, <5>2 DEF Quiet, Up
      <4>6. CASE task[g].pc \notin {"answered", "refused"}
        <5>1. Outcome(task[g]) = [row EXCEPT !.health = "unknown"] BY <4>1, <4>6 DEF Outcome
        <5>2. row'.status = row.status /\ row'.health = "unknown"
          BY <1>0, <3>1, <4>1, <4>2, <5>1 DEF Commit, Rows
        <5> QED BY <4>3, <5>2 DEF Quiet
      <4> QED BY <4>4, <4>5, <4>6
    <3>2. CASE ~Commits(task[g].seen) BY <1>1, <2>1, <3>2 DEF DispatchWrites, Commit
    <3> QED BY <3>1, <3>2
  <2>2. CASE BeginPreparation(g) \/ Gather(g)
    BY <1>1, <1>2, <1>3, <2>2 DEF BeginPreparation, Gather, SetStatus
  <2>3. CASE InitializationSettles(g)
    BY <1>1, <1>2, <1>3, <2>3 DEF InitializationSettles, SetStatus
  <2> QED BY <1>7, <2>1, <2>2, <2>3 DEF RowTask
<1>8. CASE RowHearing
  <2>1. ASSUME row' = StoppedIfUp PROVE Quiet BY <1>1, <1>2, <1>3, <2>1 DEF StoppedIfUp
  <2>2. CASE HandleEvent
    <3>1. CASE row' = AfterEvent(Head(events)) /\ Head(events).gen = row.gen
      <4> DEFINE e == Head(events)
      <4>1. row'.gen = row.gen BY <1>0, <3>1 DEF AfterEvent, Rows
      <4>2. CASE e.type \in {"started", "healthy"}
        BY <2>2, <3>1, <4>1, <4>2 DEF Announced, HandleEvent
      <4>3. CASE e.type = "stopped"
        <5>1. /\ row'.health = "unknown"
              /\ row'.status = row.status \/ row'.status = "stopped"
          BY <1>0, <3>1, <4>3 DEF AfterEvent, Rows
        <5> QED BY <4>1, <5>1 DEF Quiet, Up
      <4>4. CASE e.type = "error"
        <5>1. row'.health = "unhealthy" /\ row'.status = "error"
          BY <1>0, <3>1, <4>4 DEF AfterEvent, Rows
        <5> QED BY <4>1, <5>1 DEF Quiet, Up
      <4>5. CASE e.type = "unhealthy"
        <5>1. row'.health = "unhealthy" /\ row'.status = row.status
          BY <1>0, <3>1, <4>5 DEF AfterEvent, Rows
        <5> QED BY <4>1, <5>1 DEF Quiet
      <4>6. CASE e.type \notin {"started", "healthy", "stopped", "error", "unhealthy"}
        BY <1>1, <3>1, <4>6 DEF AfterEvent
      <4> QED BY <4>2, <4>3, <4>4, <4>5, <4>6
    <3> QED BY <1>1, <2>2, <3>1 DEF HandleEvent, EventApplies
  <2>3. CASE HandleReport
    <3>1. CASE row.gen = report.gen /\ report.healthy
               /\ row' = [row EXCEPT !.status = "running", !.health = "healthy"]
      BY <1>0, <2>3, <3>1 DEF Rows, Registered, HandleReport, NoProcess
    <3>2. CASE row.gen = report.gen
               /\ row' = [row EXCEPT !.status = "starting", !.health = "unknown"]
      BY <1>0, <2>3, <3>2 DEF Rows, Registered, HandleReport, NoProcess
    <3> QED BY <1>1, <2>1, <2>3, <3>1, <3>2 DEF HandleReport
  <2>4. CASE HandleEmptyReport \/ AgentUnreachable
    BY <2>1, <2>4 DEF HandleEmptyReport, AgentUnreachable
  <2> QED BY <1>8, <2>2, <2>3, <2>4 DEF RowHearing
<1> QED BY <1>1, <1>6, <1>7, <1>8, RowWriters

(* A task that is there goes on: it keeps its kind, reads its row once, at *)
(* one of the ends of dispatch_start, and is answered because its gate has *)
(* refused it or because its process is ready.                             *)
GoesOn(g) ==
    /\ task'[g].kind = task[g].kind /\ task[g].pc # "none" /\ task'[g].pc # "none"
    /\ task'[g].pc \in Unposted => task[g].pc \in Unposted
    /\ \/ task'[g].seen = Unread
       \/ task'[g].seen = task[g].seen /\ task'[g].pc = task[g].pc
       \/ /\ task'[g].seen = row /\ row.gen = g /\ task[g].kind = "start"
          /\ task'[g].pc = task[g].pc /\ task[g].pc \in Endings
          /\ task[g].pc = "answered" => row.status \in Up
    /\ \/ task'[g].pc # "answered" \/ task[g].pc = "answered"
       \/ task[g].pc = "posted" /\ g \in history'.ready
       \/ /\ task[g].pc = "gate" /\ row' = row /\ handler' = handler
          /\ ~(row.status \in Launchable(task[g].kind) /\ row.gen = g)

TaskMoves == \A g \in Gens : task'[g] = task[g] \/ GoesOn(g)

(* A task that has read nothing yet moves on.                              *)
LEMMA MovedByGoto ==
    ASSUME TypeOK, NEW h \in Gens, NEW pc \in TaskStates \ {"none"},
           TaskGoto(h, pc), task[h].pc # "none", task[h].seen = Unread,
           pc \in Unposted => task[h].pc \in Unposted,
           \/ pc # "answered"
           \/ task[h].pc = "posted" /\ h \in history'.ready
           \/ /\ task[h].pc = "gate" /\ row' = row /\ handler' = handler
              /\ ~(row.status \in Launchable(task[h].kind) /\ row.gen = h)
    PROVE  TaskMoves
<1>1. task[h] \in TaskRec /\ TaskTypes BY TypeParts DEF TaskTypes
<1>2. task'[h] = [task[h] EXCEPT !.pc = pc] /\ \A g \in Gens \ {h} : task'[g] = task[g]
  BY <1>1 DEF TaskGoto, TaskTypes
<1>3. task'[h].kind = task[h].kind /\ task'[h].pc = pc /\ task'[h].seen = Unread
  BY <1>1, <1>2 DEF TaskRec
<1>4. GoesOn(h) BY <1>3 DEF GoesOn
<1> QED BY <1>2, <1>4 DEF TaskMoves

(* The steps of a task.                                                    *)
LEMMA OwnMoves ==
    ASSUME TypeOK, ReadsAreOwn, NEW h \in Gens, TaskOwn(h)
    PROVE  TaskMoves
<1>0. task[h] \in TaskRec /\ TaskTypes BY TypeParts DEF TaskTypes
<1>1. task[h].pc \notin Endings \/ task[h].kind # "start" => task[h].seen = Unread
  BY DEF ReadsAreOwn
<1>2. CASE Gate(h)
  <2>1. task[h].pc = "gate" /\ row' = row /\ handler' = handler
    BY <1>2 DEF Gate, Backend, machine
  <2>2. task[h].seen = Unread BY <1>1, <2>1 DEF Endings
  <2>3. CASE TaskGoto(h, "cleared")
    BY <2>1, <2>2, <2>3, MovedByGoto DEF TaskStates, Unposted
  <2>4. CASE TaskGoto(h, "answered") /\ ~(row.status \in Launchable(task[h].kind) /\ row.gen = h)
    BY <2>1, <2>2, <2>4, MovedByGoto DEF TaskStates, Unposted
  <2> QED BY <1>2, <2>3, <2>4 DEF Gate
<1>3. CASE Post(h) \/ PostFails(h)
  <2>1. task[h].pc \in {"cleared", "posted"} BY <1>3 DEF Post, PostFails
  <2>2. task[h].seen = Unread BY <1>1, <2>1 DEF Endings
  <2>3. PICK pc \in {"posted", "refused", "lost"} : TaskGoto(h, pc) BY <1>3 DEF Post, PostFails
  <2> QED BY <2>1, <2>2, <2>3, MovedByGoto DEF TaskStates, Unposted
<1>4. CASE DispatchIsLate(h)
  <2>1. task[h].pc # "none" /\ task[h].seen = Unread /\ TaskGoto(h, "done")
    BY <1>4 DEF DispatchIsLate
  <2> QED BY <2>1, MovedByGoto DEF TaskStates, Unposted
<1>5. CASE DispatchReads(h)
  <2>1. /\ task[h].kind = "start" /\ task[h].pc \in Endings /\ row.gen = h
        /\ task[h].pc = "answered" => row.status \in Up
    BY <1>5 DEF DispatchReads, Endings, Acknowledgeable, Failable
  <2>2. task'[h] = [task[h] EXCEPT !.seen = row] /\ \A g \in Gens \ {h} : task'[g] = task[g]
    BY <1>0, <1>5 DEF DispatchReads, TaskTypes
  <2>3. task'[h].kind = task[h].kind /\ task'[h].pc = task[h].pc /\ task'[h].seen = row
    BY <1>0, <2>2 DEF TaskRec
  <2>4. GoesOn(h) BY <2>1, <2>3 DEF GoesOn, Endings
  <2> QED BY <2>2, <2>4 DEF TaskMoves
<1>6. CASE DispatchWrites(h)
  <2>1. task[h].kind = "start" /\ task[h].pc \in Endings
    BY <1>6 DEF DispatchWrites, ReadsAreOwn
  <2>2. /\ task'[h] = [task[h] EXCEPT !.pc = "done", !.seen = Unread]
        /\ \A g \in Gens \ {h} : task'[g] = task[g]
    BY <1>0, <1>6 DEF DispatchWrites, TaskTypes
  <2>3. task'[h].kind = task[h].kind /\ task'[h].pc = "done" /\ task'[h].seen = Unread
    BY <1>0, <2>2 DEF TaskRec
  <2>4. GoesOn(h) BY <2>1, <2>3 DEF GoesOn, Endings, Unposted
  <2> QED BY <2>2, <2>4 DEF TaskMoves
<1>7. CASE Initialize(h)
  <2>1. CASE BeginPreparation(h) \/ PreparationEnds(h) \/ Gather(h)
    <3>1. task[h].pc \in {"prepare", "preparing", "gather"}
      BY <2>1 DEF BeginPreparation, PreparationEnds, Gather
    <3>2. task[h].seen = Unread BY <1>1, <3>1 DEF Endings
    <3>3. PICK pc \in {"preparing", "gather", "stopSent", "gate"} : TaskGoto(h, pc)
      BY <2>1 DEF BeginPreparation, PreparationEnds, Gather
    <3> QED BY <3>1, <3>2, <3>3, MovedByGoto DEF TaskStates, Unposted
  <2>2. CASE Inspect(h)
    <3>1. task[h].kind = "init" /\ task[h].pc # "none" BY <2>2 DEF Inspect
    <3>2. task[h].seen = Unread BY <1>1, <3>1
    <3>3. CASE TaskGoto(h, "stopSent")
      BY <3>1, <3>2, <3>3, MovedByGoto DEF TaskStates, Unposted
    <3>4. ASSUME NEW b, task' = [task EXCEPT ![h].pc = "stopSent", ![h].metadata = b]
          PROVE  TaskMoves
      <4>1. /\ task'[h].kind = task[h].kind /\ task'[h].pc = "stopSent"
            /\ task'[h].seen = task[h].seen /\ \A g \in Gens \ {h} : task'[g] = task[g]
        BY <1>0, <3>4 DEF TaskTypes, TaskRec
      <4>2. GoesOn(h) BY <3>1, <3>2, <4>1 DEF GoesOn, Unposted
      <4> QED BY <4>1, <4>2 DEF TaskMoves
    <3> QED BY <2>2, <3>3, <3>4 DEF Inspect
  <2>3. CASE TaskStopArrives(h) \/ InitializationSettles(h)
    <3>1. task[h].pc \in {"stopSent", "stopAnswered", "stopFailed"}
      BY <2>3 DEF TaskStopArrives, InitializationSettles
    <3>2. task[h].seen = Unread BY <1>1, <3>1 DEF Endings
    <3>3. PICK pc \in {"stopAnswered", "stopHandled", "stopFailed", "done"} : TaskGoto(h, pc)
      BY <2>3 DEF TaskStopArrives, StopVerdict, InitializationSettles
    <3> QED BY <3>1, <3>2, <3>3, MovedByGoto DEF TaskStates, Unposted
  <2> QED BY <1>7, <2>1, <2>2, <2>3 DEF Initialize
<1> QED BY <1>2, <1>3, <1>4, <1>5, <1>6, <1>7 DEF TaskOwn

(* The agent answers a start that it was sent.                             *)
LEMMA MovedByReply ==
    ASSUME TypeOK, ReadsAreOwn, NEW h \in Gens, NEW answer \in {"answered", "refused"},
           Replied(h, answer), answer = "answered" => h \in history'.ready
    PROVE  TaskMoves
<1>0. task[h] \in TaskRec /\ TaskTypes BY TypeParts DEF TaskTypes
<1>1. CASE task[h].pc = "posted"
  <2>1. task[h].seen = Unread BY <1>1 DEF ReadsAreOwn, Endings
  <2>2. TaskGoto(h, answer) BY <1>0, <1>1 DEF Replied, TaskGoto, TaskTypes
  <2> QED BY <1>1, <2>1, <2>2, MovedByGoto DEF TaskStates, Unposted
<1>2. CASE task[h].pc # "posted"
  <2>1. [task[h] EXCEPT !.pc = task[h].pc] = task[h] BY <1>0 DEF TaskRec
  <2>2. \A g \in Gens : task'[g] = task[g] BY <1>0, <1>2, <2>1 DEF Replied, TaskTypes
  <2> QED BY <2>2 DEF TaskMoves
<1> QED BY <1>1, <1>2

(* Generation 0 is never started.                                          *)
LEMMA NoHandlerOfNone ==
    ASSUME TypeOK, TasksInOrder, HandlersAreCalled
    PROVE  task[0].pc = "none" /\ handler[0].pc = "none"
BY GenerationNumbers DEF TasksInOrder, HandlersAreCalled, Unposted

(* What the agent answers.                                                 *)
LEMMA ReplyMoves ==
    ASSUME TypeOK, TasksInOrder, HandlersAreCalled, ReadsAreOwn, KnownAreSpawned, NEW h \in Gens,
           TaskReply(h) \/ \E k \in killers : ClearedProcessEnds(k, h)
    PROVE  TaskMoves
<1>1. ASSUME task' = task PROVE TaskMoves BY <1>1 DEF TaskMoves
<1>2. ASSUME NEW health, SpawnUnlessFenced(h, health) PROVE TaskMoves
  BY <1>1, <1>2, MovedByReply DEF SpawnUnlessFenced
<1>3. CASE StartArrives(h)
  <2>1. h # 0 BY <1>3, NoHandlerOfNone DEF StartArrives
  <2>2. agent.table # h BY <1>3, <2>1 DEF StartArrives, KnownAreSpawned, Spawned
  <2>3. task' = task \/ Replied(h, "refused") BY <1>3, <2>2 DEF StartArrives
  <2> QED BY <1>1, <2>3, MovedByReply
<1>4. CASE FetchFails(h) \/ LoadingFails(h)
  BY <1>4, MovedByReply DEF FetchFails, LoadingFails
<1>5. CASE EnterLock(h) BY <1>1, <1>2, <1>5, MovedByReply DEF EnterLock
<1>6. CASE BecomesReady(h)
  <2>1. history \in HistoryRec BY TypeParts
  <2>2. h \in history'.ready BY <1>6, <2>1 DEF BecomesReady, HistoryRec
  <2> QED BY <1>6, <2>2, MovedByReply DEF BecomesReady
<1>7. ASSUME NEW k \in killers, ClearedProcessEnds(k, h) PROVE TaskMoves
  BY <1>2, <1>7 DEF ClearedProcessEnds
<1> QED BY <1>3, <1>4, <1>5, <1>6, <1>7 DEF TaskReply

(* Tasks go on, or the task of the row's next generation is created.       *)
LEMMA TaskMove ==
    ASSUME TypeOK, TasksInOrder, HandlersAreCalled, ReadsAreOwn, KnownAreSpawned, Next
    PROVE  TaskMoves \/ NextStarts \/ NextInitializes
<1>0. TaskTypes /\ row \in Rows BY TypeParts
<1>1. ASSUME task' = task PROVE TaskMoves BY <1>1 DEF TaskMoves
<1>2. ASSUME NEW c \in Clients, TaskRoute(c) PROVE TaskMoves \/ NextStarts \/ NextInitializes
  <2>1. ASSUME LaunchStart PROVE NextStarts BY <2>1 DEF LaunchStart, NextGeneration, NextStarts
  <2>2. CASE ReserveStart(c) \/ EnsureStarted(c)
    BY <1>1, <2>1, <2>2 DEF ReserveStart, EnsureStarted
  <2>3. CASE InitializationBegins(c)
    BY <1>0, <1>1, <2>3 DEF InitializationBegins, NextGeneration, NextInitializes, Rows
  <2> QED BY <1>2, <2>2, <2>3 DEF TaskRoute
<1>3. ASSUME \A g \in Gens : \/ task'[g] = task[g]
                             \/ \E pc \in {"lost", "stopAnswered", "stopFailed"} :
                                    /\ task[g].pc \in {"posted", "stopSent", "stopHandled"}
                                    /\ task'[g] = [task[g] EXCEPT !.pc = pc]
      PROVE  TaskMoves
  <2>1. ASSUME NEW g \in Gens, task'[g] # task[g] PROVE GoesOn(g)
    <3>1. PICK pc \in {"lost", "stopAnswered", "stopFailed"} :
              /\ task[g].pc \in {"posted", "stopSent", "stopHandled"}
              /\ task'[g] = [task[g] EXCEPT !.pc = pc]
      BY <1>3, <2>1
    <3>2. task[g].seen = Unread BY <3>1 DEF ReadsAreOwn, Endings
    <3>3. task[g] \in TaskRec BY <1>0 DEF TaskTypes
    <3>4. task'[g].kind = task[g].kind /\ task'[g].pc = pc /\ task'[g].seen = Unread
      BY <3>1, <3>2, <3>3 DEF TaskRec
    <3> QED BY <3>1, <3>4 DEF GoesOn, Unposted
  <2> QED BY <2>1 DEF TaskMoves
<1>4. CASE Ends
  <2>1. PICK k \in killers : StopEnds(k) BY <1>4 DEF Ends
  <2> QED BY <1>3, <2>1 DEF StopEnds, StopReplied
<1>5. CASE AgentRestarts BY <1>3, <1>5 DEF AgentRestarts
<1>6. CASE StopGivenUp
  <2>1. CASE task' = task BY <1>1, <2>1
  <2>2. ASSUME NEW g \in Gens, task[g].pc \in {"stopSent", "stopHandled"},
               TaskGoto(g, "stopFailed")
        PROVE  TaskMoves
    BY <1>0, <1>3, <2>2 DEF TaskGoto, TaskTypes
  <2> QED BY <1>6, <2>1, <2>2 DEF StopGivenUp
<1>7. CASE BackendRestarts
  <2>1. ASSUME NEW g \in Gens PROVE task'[g] = task[g] \/ GoesOn(g)
    <3>1. CASE task[g].pc = "none" BY <1>7, <3>1 DEF BackendRestarts
    <3>2. CASE task[g].pc # "none"
      <4>1. task'[g] = [NoTask EXCEPT !.kind = task[g].kind, !.pc = "done"]
        BY <1>7, <3>2 DEF BackendRestarts
      <4>2. task'[g].kind = task[g].kind /\ task'[g].pc = "done" /\ task'[g].seen = Unread
        BY <4>1 DEF NoTask
      <4> QED BY <3>2, <4>2 DEF GoesOn, Unposted
    <3> QED BY <3>1, <3>2
  <2> QED BY <2>1 DEF TaskMoves
<1>8. CASE Clears BY <1>8, ReplyMoves DEF Clears
<1> QED BY <1>1, <1>2, <1>4, <1>5, <1>6, <1>7, <1>8, OwnMoves, ReplyMoves, TaskWriters

(* A handler comes with its call, and one that has spawned has.            *)
LEMMA HandlerMoves ==
    ASSUME TypeOK, HandlersAreCalled, Next
    PROVE  \A g \in Gens :
              /\ Spawned(g) => handler'[g].pc \in {"loading", "done"}
              /\ handler[g].pc # "none" => handler'[g].pc # "none"
              /\ \/ handler[g].pc # "none" \/ handler'[g].pc = "none"
                 \/ task[g].pc = "cleared" /\ task'[g].pc = "posted"
<1> DEFINE Goal == \A g \in Gens :
              /\ Spawned(g) => handler'[g].pc \in {"loading", "done"}
              /\ handler[g].pc # "none" => handler'[g].pc # "none"
              /\ \/ handler[g].pc # "none" \/ handler'[g].pc = "none"
                 \/ task[g].pc = "cleared" /\ task'[g].pc = "posted"
<1>0. HandlerTypes /\ TaskTypes BY TypeParts
<1>1. ASSUME handler' = handler PROVE Goal BY <1>1 DEF Spawned
<1>2. ASSUME NEW h \in Gens, handler[h].pc # "none", handler'[h].pc # "none",
             Spawned(h) => handler'[h].pc \in {"loading", "done"},
             \A g \in Gens \ {h} : handler'[g] = handler[g]
      PROVE  Goal
  BY <1>2 DEF Spawned
<1>3. ASSUME NEW h \in Gens, handler[h].pc # "none", Ended(h) PROVE Goal
  <2>1. handler'[h].pc = "done" /\ \A g \in Gens \ {h} : handler'[g] = handler[g]
    BY <1>0, <1>3 DEF Ended, HandlerTypes, HandlerRec
  <2> QED BY <1>2, <1>3, <2>1
<1>4. ASSUME NEW h \in Gens, NEW pc \in HandlerStates \ {"none"},
             handler' = [handler EXCEPT ![h].pc = pc],
             handler[h].pc \in {"arrived", "replacing", "fetching", "waiting", "clearing"}
      PROVE  Goal
  <2>1. handler'[h].pc = pc /\ \A g \in Gens \ {h} : handler'[g] = handler[g]
    BY <1>0, <1>4 DEF HandlerTypes, HandlerRec
  <2> QED BY <1>2, <1>4, <2>1 DEF Spawned
<1>5. ASSUME NEW h \in Gens, NEW health, SpawnUnlessFenced(h, health),
             handler[h].pc \in {"waiting", "clearing"}
      PROVE  Goal
  BY <1>3, <1>4, <1>5 DEF SpawnUnlessFenced, HandlerStates
<1>6. ASSUME NEW h \in Gens, Post(h) PROVE Goal
  <2>1. task[h].pc = "cleared" /\ TaskGoto(h, "posted")
        /\ handler' = [handler EXCEPT ![h].pc = "arrived"]
    BY <1>6 DEF Post
  <2>2. handler[h].pc = "none" BY <2>1 DEF HandlersAreCalled, Unposted
  <2>3. task'[h].pc = "posted" BY <1>0, <2>1 DEF TaskGoto, TaskTypes, TaskRec
  <2>4. \A g \in Gens \ {h} : handler'[g] = handler[g] BY <1>0, <2>1 DEF HandlerTypes
  <2> QED BY <2>1, <2>2, <2>3, <2>4 DEF Spawned
<1>7. ASSUME NEW h \in Gens, Fetched(h) PROVE Goal
  <2>1. handler[h].pc = "fetching" BY <1>7 DEF Fetched
  <2>2. PICK lock : handler' = [handler EXCEPT ![h].pc = "waiting", ![h].lock = lock]
    BY <1>7 DEF Fetched
  <2>3. handler'[h].pc = "waiting" /\ \A g \in Gens \ {h} : handler'[g] = handler[g]
    BY <1>0, <2>2 DEF HandlerTypes, HandlerRec
  <2> QED BY <1>2, <2>1, <2>3 DEF Spawned
<1>8. ASSUME NEW h \in Gens, TaskReply(h) PROVE Goal
  <2>1. CASE StartArrives(h)
    <3>1. \/ handler' = [handler EXCEPT ![h].pc = "fetching"]
          \/ handler' = [handler EXCEPT ![h].pc = "replacing"]
          \/ Ended(h)
      BY <2>1 DEF StartArrives
    <3> QED BY <1>3, <1>4, <2>1, <3>1 DEF StartArrives, HandlerStates
  <2>2. CASE FetchFails(h) \/ BecomesReady(h) \/ LoadingFails(h)
    BY <1>3, <2>2 DEF FetchFails, BecomesReady, LoadingFails
  <2>3. CASE EnterLock(h)
    <3>1. \/ SpawnUnlessFenced(h, agent.health) \/ Ended(h)
          \/ handler' = [handler EXCEPT ![h].pc = "clearing"]
      BY <2>3 DEF EnterLock
    <3>2. handler[h].pc = "waiting" BY <2>3 DEF EnterLock
    <3> QED BY <1>3, <1>4, <1>5, <3>1, <3>2 DEF HandlerStates
  <2> QED BY <1>8, <2>1, <2>2, <2>3 DEF TaskReply
<1>9. CASE Replaces BY <1>4, <1>9 DEF Replaces, ReplacedProcessEnds, HandlerStates
<1>10. CASE Clears BY <1>5, <1>10 DEF Clears, ClearedProcessEnds
<1>11. CASE AgentRestarts BY <1>11 DEF AgentRestarts, Spawned
<1> QED BY <1>1, <1>6, <1>7, <1>8, <1>9, <1>10, <1>11, HandlerWriters

(* The agent's tables lose their process, or say no more than before; or a *)
(* process is seen healthy; or one is spawned.                             *)
Loses ==
    /\ agent'.table \in {agent.table, NoProcess} /\ history'.ready = history.ready
    /\ agent'.health = "healthy" => agent.health = "healthy" /\ agent'.table = agent.table
IsSeen(g) ==
    /\ g \in alive /\ agent.table \in alive /\ agent'.table = agent.table
    /\ history'.ready = history.ready \union {g}

(* What happens to the agent's tables.                                     *)
LEMMA TableMoves ==
    ASSUME TypeOK, Next
    PROVE  \/ Loses
           \/ \E g \in Gens : \/ IsSeen(g)
                              \/ Spawns(g) /\ history'.ready = history.ready
<1>0. agent \in AgentRec /\ history \in HistoryRec /\ alive \subseteq Gens BY TypeParts
<1>1. ASSUME UNCHANGED <<agent, history>> PROVE Loses BY <1>1 DEF Loses
<1>2. ASSUME agent' = [agent EXCEPT !.table = NoProcess, !.health = "unknown"],
             UNCHANGED history
      PROVE  Loses
  BY <1>0, <1>2 DEF Loses, AgentRec
<1>3. ASSUME NEW g \in Gens, NEW health, SpawnUnlessFenced(g, health),
             \/ handler[g].pc = "waiting" /\ agent.table = NoProcess /\ health = agent.health
             \/ handler[g].pc = "clearing" /\ health = "unknown"
      PROVE  Loses \/ (Spawns(g) /\ history'.ready = history.ready)
  <2>1. CASE Fenced(g)
    <3>1. agent'.table = NoProcess /\ agent'.health = health /\ history' = history
      BY <1>0, <1>3, <2>1 DEF SpawnUnlessFenced, AgentRec
    <3> QED BY <1>3, <3>1 DEF Loses
  <2>2. CASE ~Fenced(g)
    <3>1. /\ handler' = [handler EXCEPT ![g].pc = "loading"]
          /\ agent' = [agent EXCEPT !.table = g, !.latest = g, !.health = health]
          /\ alive' = alive \union {g}
          /\ history' = [history EXCEPT !.doubled = @ \/ alive # {}]
      BY <1>3, <2>2 DEF SpawnUnlessFenced
    <3>2. agent'.table = g /\ agent'.health = health BY <1>0, <3>1 DEF AgentRec
    <3>3. history'.ready = history.ready BY <1>0, <3>1 DEF HistoryRec
    <3> QED BY <1>3, <2>2, <3>1, <3>2, <3>3 DEF Spawns
  <2> QED BY <2>1, <2>2
<1>4. CASE OnBackend BY <1>1, <1>4, BackendWrites
<1>5. ASSUME NEW g \in Gens, Fetched(g) \/ TaskReply(g) \/ ProcessDies(g)
      PROVE  Loses \/ IsSeen(g) \/ (Spawns(g) /\ history'.ready = history.ready)
  <2>1. CASE Fetched(g)
    <3>1. agent'.table = agent.table /\ agent'.health = agent.health /\ history' = history
      BY <1>0, <2>1 DEF Fetched, Agent, AgentRec
    <3> QED BY <3>1 DEF Loses
  <2>2. CASE StartArrives(g) \/ FetchFails(g) \/ ProcessDies(g)
    BY <1>1, <2>2 DEF StartArrives, FetchFails, ProcessDies, Agent
  <2>3. CASE EnterLock(g)
    <3>1. CASE agent' = [agent EXCEPT !.lock = LockAfter(g)] /\ history' = history
      <4>1. agent'.table = agent.table /\ agent'.health = agent.health
        BY <1>0, <3>1 DEF AgentRec
      <4> QED BY <3>1, <4>1 DEF Loses
    <3>2. CASE UNCHANGED <<agent, history>> BY <1>1, <3>2
    <3>3. CASE agent.table = NoProcess /\ SpawnUnlessFenced(g, agent.health)
      BY <1>3, <2>3, <3>3 DEF EnterLock
    <3> QED BY <2>3, <3>1, <3>2, <3>3 DEF EnterLock
  <2>4. CASE BecomesReady(g)
    <3>1. agent'.table = agent.table /\ history'.ready = history.ready \union {g}
      BY <1>0, <2>4 DEF BecomesReady, AgentRec, HistoryRec
    <3> QED BY <2>4, <3>1 DEF BecomesReady, IsSeen
  <2>5. CASE LoadingFails(g)
    <3>1. agent'.table = NoProcess /\ agent'.health = "unknown" /\ history' = history
      BY <1>0, <2>5 DEF LoadingFails, AgentRec
    <3> QED BY <3>1 DEF Loses
  <2> QED BY <1>5, <2>1, <2>2, <2>3, <2>4, <2>5 DEF TaskReply
<1>6. CASE Ends \/ Replaces
  <2>1. Loses BY <1>2, <1>6 DEF Ends, Replaces, StopEnds, ReplacedProcessEnds
  <2> QED BY <2>1
<1>7. CASE Clears
  <2>1. PICK g \in Gens : handler[g].pc = "clearing" /\ SpawnUnlessFenced(g, "unknown")
    BY <1>7 DEF Clears, ClearedProcessEnds
  <2> QED BY <1>3, <2>1
<1>8. CASE ExitNoticed BY <1>2, <1>8 DEF ExitNoticed, Agent
<1>9. CASE HealthChanges
  <2>1. agent.table \in alive /\ agent'.table = agent.table
    BY <1>0, <1>9 DEF HealthChanges, AgentRec
  <2>2. CASE agent.health = "unhealthy"
    <3>1. history'.ready = history.ready \union {agent.table}
      BY <1>0, <1>9, <2>2 DEF HealthChanges, HistoryRec
    <3> QED BY <1>0, <2>1, <3>1 DEF IsSeen
  <2>3. CASE agent.health # "unhealthy"
    <3>1. agent'.health = "unhealthy" /\ history' = history
      BY <1>0, <1>9, <2>3 DEF HealthChanges, AgentRec
    <3> QED BY <2>1, <3>1 DEF Loses
  <2> QED BY <2>2, <2>3
<1>10. CASE AgentRestarts
  <2>1. agent'.table = NoProcess /\ agent'.health = "unknown" /\ history' = history
    BY <1>10 DEF AgentRestarts, FreshAgent
  <2> QED BY <2>1 DEF Loses
<1>11. CASE Hear \/ AgentUnreachable \/ EventsLost \/ BackendRestarts
  <2>1. agent' = agent BY <1>11, HearingWrites
  <2>2. history'.ready = history.ready
    BY <1>0, <1>11 DEF Hear, HandleEvent, HandleEmptyReport, HandleReport, Register,
          StaleStopArrives, AgentUnreachable, EventsLost, BackendRestarts, Agent, Hears,
          HistoryRec
  <2> QED BY <2>1, <2>2 DEF Loses
<1> QED BY <1>4, <1>5, <1>6, <1>7, <1>8, <1>9, <1>10, <1>11, StepKinds

(* A registration says what the agent's tables say.                        *)
LEMMA ReportMoves ==
    ASSUME TypeOK, Next
    PROVE  \/ report' = report
           \/ report'.gen = 0 /\ ~report'.healthy
           \/ /\ report'.gen = agent.table
              /\ report'.healthy => agent.health = "healthy"
<1>1. CASE OnBackend BY <1>1, BackendWrites
<1>2. ASSUME NEW g \in Gens, Fetched(g) \/ TaskReply(g) \/ ProcessDies(g) PROVE report' = report
  BY <1>2 DEF Fetched, TaskReply, StartArrives, FetchFails, EnterLock, BecomesReady,
              LoadingFails, ProcessDies, Agent, wire
<1>3. CASE Ends \/ Replaces \/ Clears
  BY <1>3 DEF Ends, Replaces, Clears, StopEnds, ReplacedProcessEnds, ClearedProcessEnds, Forgets
<1>4. CASE ExitNoticed \/ HealthChanges \/ AgentUnreachable \/ EventsLost \/ AgentRestarts
  BY <1>4 DEF ExitNoticed, HealthChanges, AgentUnreachable, EventsLost, AgentRestarts, Agent,
              wire
<1>5. NoReport.gen = 0 /\ ~NoReport.healthy BY DEF NoReport, NoProcess
<1>6. CASE BackendRestarts BY <1>5, <1>6 DEF BackendRestarts
<1>7. CASE Hear
  <2>1. CASE Register
    <3>1. report' = [sent |-> TRUE, gen |-> agent.table,
                     healthy |-> agent.table # NoProcess /\ agent.health = "healthy"]
      BY <2>1 DEF Register
    <3>2. report'.gen = agent.table BY <3>1
    <3>3. report'.healthy => agent.health = "healthy" BY <3>1
    <3> QED BY <3>2, <3>3
  <2>2. CASE HandleEvent \/ StaleStopArrives BY <2>2 DEF HandleEvent, StaleStopArrives, Agent
  <2>3. CASE HandleEmptyReport \/ HandleReport
    BY <1>5, <2>3 DEF HandleEmptyReport, HandleReport
  <2> QED BY <1>7, <2>1, <2>2, <2>3 DEF Hear
<1> QED BY <1>1, <1>2, <1>3, <1>4, <1>6, <1>7, StepKinds

(* An event that says a process is well is published by what sees it so.   *)
LEMMA EventMoves ==
    ASSUME TypeOK, Next
    PROVE  \A j \in DOMAIN events' :
              \/ \E i \in DOMAIN events : events'[j] = events[i]
              \/ events'[j].type \notin {"started", "healthy"}
              \/ events'[j].gen \in history'.ready
<1> DEFINE Goal == \A j \in DOMAIN events' :
              \/ \E i \in DOMAIN events : events'[j] = events[i]
              \/ events'[j].type \notin {"started", "healthy"}
              \/ events'[j].gen \in history'.ready
<1>0. /\ events \in Seq(Event) /\ history \in HistoryRec
      /\ agent.table \in Gens
  BY TypeParts DEF EventTypesOK, AgentRec
<1>1. ASSUME events' = events PROVE Goal BY <1>1
<1>2. ASSUME events' = <<>> PROVE Goal BY <1>2
<1>3. ASSUME NEW type, NEW gen, events' = Published(type, gen),
             type \in {"started", "healthy"} => gen \in history'.ready
      PROVE  Goal
  <2>1. CASE events' = events BY <1>1, <2>1
  <2>2. CASE events' = Append(events, [type |-> type, gen |-> gen])
    <3>1. ASSUME NEW j \in DOMAIN events'
          PROVE  (j \in DOMAIN events /\ events'[j] = events[j])
                 \/ events'[j] = [type |-> type, gen |-> gen]
      BY <1>0, <2>2
    <3> QED BY <1>3, <3>1
  <2> QED BY <1>3, <2>1, <2>2 DEF Published
<1>4. CASE OnBackend BY <1>1, <1>4, BackendWrites
<1>5. ASSUME NEW g \in Gens, Fetched(g) \/ TaskReply(g) \/ ProcessDies(g) PROVE Goal
  <2>1. CASE BecomesReady(g)
    <3>1. g \in history'.ready BY <1>0, <2>1 DEF BecomesReady, HistoryRec
    <3> QED BY <1>3, <2>1, <3>1 DEF BecomesReady
  <2>2. CASE LoadingFails(g) BY <1>3, <2>2 DEF LoadingFails
  <2>3. CASE \/ Fetched(g) \/ StartArrives(g) \/ FetchFails(g) \/ EnterLock(g)
             \/ ProcessDies(g)
    BY <1>1, <2>3 DEF Fetched, StartArrives, FetchFails, EnterLock, ProcessDies, wire
  <2> QED BY <1>5, <2>1, <2>2, <2>3 DEF TaskReply
<1>6. CASE Ends \/ Replaces \/ Clears
  <2>1. PICK k : Forgets(k)
    BY <1>6 DEF Ends, Replaces, Clears, StopEnds, ReplacedProcessEnds, ClearedProcessEnds
  <2> QED BY <1>3, <2>1 DEF Forgets
<1>7. CASE ExitNoticed BY <1>3, <1>7 DEF ExitNoticed
<1>8. CASE HealthChanges
  <2>1. CASE agent.health = "unhealthy"
    <3>1. agent.table \in history'.ready /\ events' = Published("healthy", agent.table)
      BY <1>0, <1>8, <2>1 DEF HealthChanges, HistoryRec
    <3> QED BY <1>3, <3>1
  <2>2. CASE agent.health # "unhealthy" BY <1>3, <1>8, <2>2 DEF HealthChanges
  <2> QED BY <2>1, <2>2
<1>9. CASE AgentRestarts \/ EventsLost \/ BackendRestarts
  BY <1>2, <1>9 DEF AgentRestarts, EventsLost, BackendRestarts
<1>10. CASE AgentUnreachable BY <1>1, <1>10 DEF AgentUnreachable, wire
<1>11. CASE Hear
  <2>1. CASE HandleEvent
    <3>1. events # <<>> /\ events' = Tail(events) BY <2>1 DEF HandleEvent
    <3>2. ASSUME NEW j \in DOMAIN events'
          PROVE  j + 1 \in DOMAIN events /\ events'[j] = events[j + 1]
      BY <1>0, <3>1, <3>2
    <3> QED BY <3>2
  <2>2. CASE Register \/ HandleEmptyReport \/ HandleReport \/ StaleStopArrives
    BY <1>1, <2>2 DEF Register, HandleEmptyReport, HandleReport, StaleStopArrives
  <2> QED BY <1>11, <2>1, <2>2 DEF Hear
<1> QED BY <1>4, <1>5, <1>6, <1>7, <1>8, <1>9, <1>10, <1>11, StepKinds

-----------------------------------------------------------------------------
(* The process behind a row that says it is ready. *)

(* Tasks stay in order.                                                    *)
LEMMA OrderStep ==
    ASSUME TypeOK, GenerationsLeft, "overlap" \notin Faults, TasksInOrder,
           TaskMoves \/ NextStarts \/ NextInitializes, row'.gen \in Nat, row'.gen >= row.gen
    PROVE  TasksInOrder'
<1>0. TaskTypes /\ row.gen \in Nat BY TypeParts, RowRecords, GenerationNumbers DEF Rows
<1>1. ASSUME NEW g \in Gens, task'[g].pc # "none" PROVE g # 0 /\ g <= row'.gen
  <2>1. g \in Nat BY GenerationNumbers
  <2>2. CASE task[g].pc # "none" BY <1>0, <2>1, <2>2 DEF TasksInOrder
  <2>3. CASE task[g].pc = "none"
    <3>1. ~TaskMoves BY <1>1, <2>3 DEF TaskMoves, GoesOn
    <3>2. row'.gen = row.gen + 1 BY <3>1 DEF NextStarts, NextInitializes
    <3>3. g = row.gen + 1
      BY <1>0, <1>1, <2>3, <3>1 DEF NextStarts, NextInitializes, TaskTypes
    <3> QED BY <1>0, <3>2, <3>3
  <2> QED BY <2>2, <2>3
<1> QED BY <1>1 DEF TasksInOrder

(* A task of the next generation has not been there.                       *)
LEMMA NextIsNew ==
    ASSUME TypeOK, TasksInOrder, HandlersAreCalled, NextStarts \/ NextInitializes
    PROVE  \A g \in Gens :
              \/ g # row.gen + 1 /\ task'[g] = task[g]
              \/ /\ g = row.gen + 1 /\ task[g].pc = "none" /\ handler[g].pc = "none"
                 /\ task'[g].seen = Unread
                 /\ \/ NextStarts /\ task'[g].pc = "gate" /\ task'[g].kind = "start"
                    \/ NextInitializes /\ task'[g].pc = "prepare" /\ task'[g].kind = "init"
<1>0. TaskTypes /\ row.gen \in Nat BY TypeParts, RowRecords, GenerationNumbers DEF Rows
<1>1. ASSUME NEW g \in Gens, g = row.gen + 1
      PROVE  task[g].pc = "none" /\ handler[g].pc = "none"
  <2>1. task[g].pc = "none" BY <1>0, <1>1, GenerationNumbers DEF TasksInOrder
  <2> QED BY <2>1 DEF HandlersAreCalled, Unposted
<1>2. \A g \in Gens : g # row.gen + 1 => task'[g] = task[g]
  BY <1>0 DEF NextStarts, NextInitializes, TaskTypes
<1>3. ASSUME NEW g \in Gens, g = row.gen + 1, NextStarts
      PROVE  task'[g].pc = "gate" /\ task'[g].kind = "start" /\ task'[g].seen = Unread
  BY <1>0, <1>3 DEF NextStarts, TaskTypes, NoTask
<1>4. ASSUME NEW g \in Gens, g = row.gen + 1, NextInitializes
      PROVE  task'[g].pc = "prepare" /\ task'[g].kind = "init" /\ task'[g].seen = Unread
  BY <1>0, <1>4 DEF NextInitializes, TaskTypes, NoTask
<1> QED BY <1>1, <1>2, <1>3, <1>4

(* Handlers keep coming from the calls of their tasks.                     *)
LEMMA CalledStep ==
    ASSUME TypeOK, TasksInOrder, HandlersAreCalled, Next,
           TaskMoves \/ NextStarts \/ NextInitializes
    PROVE  HandlersAreCalled'
<1>1. ASSUME NEW g \in Gens, task'[g].pc \in Unposted PROVE handler'[g].pc = "none"
  <2>1. task[g].pc \in Unposted
    <3>1. CASE TaskMoves BY <1>1, <3>1 DEF TaskMoves, GoesOn
    <3>2. CASE ~TaskMoves BY <1>1, <3>2, NextIsNew DEF Unposted
    <3> QED BY <3>1, <3>2
  <2>2. handler[g].pc = "none" BY <2>1 DEF HandlersAreCalled
  <2> QED BY <1>1, <2>2, HandlerMoves DEF Unposted
<1> QED BY <1>1 DEF HandlersAreCalled

(* The agent goes on knowing spawned generations only.                     *)
LEMMA KnownStep ==
    ASSUME TypeOK, TasksInOrder, HandlersAreCalled, KnownAreSpawned, Next
    PROVE  KnownAreSpawned'
<1>0. HandlerTypes /\ alive \subseteq Gens BY TypeParts
<1>1. ASSUME NEW g \in Gens, Spawns(g) PROVE g # 0 /\ handler'[g].pc = "loading"
  BY <1>0, <1>1, NoHandlerOfNone DEF Spawns, HandlerTypes, HandlerRec
<1>2. \A g \in Gens : g \in alive' => g \in alive \/ Spawns(g)
  BY SpawnStep DEF Spawns
<1>3. \A g \in Gens : g \in history'.ready => g \in history.ready \/ g \in alive
  BY TableMoves DEF Loses, IsSeen
<1>4. \A g \in Gens : g = agent'.table => g = agent.table \/ g = 0 \/ Spawns(g)
  BY TableMoves DEF Loses, IsSeen, Spawns, NoProcess
<1>5. \A g \in Gens : g = report'.gen => g = report.gen \/ g = 0 \/ g = agent.table
  BY ReportMoves
<1>6. 0 \notin alive' BY <1>1, <1>2, GenerationNumbers DEF KnownAreSpawned
<1>7. ASSUME NEW g \in Gens, \/ g \in alive' \/ g \in history'.ready
                             \/ g # 0 /\ (g = agent'.table \/ g = report'.gen)
      PROVE  handler'[g].pc \in {"loading", "done"}
  <2>1. CASE Spawns(g) BY <1>1, <2>1
  <2>2. CASE ~Spawns(g)
    <3>1. Spawned(g) BY <1>2, <1>3, <1>4, <1>5, <1>7, <2>2 DEF KnownAreSpawned
    <3> QED BY <3>1, HandlerMoves
  <2> QED BY <2>1, <2>2
<1> QED BY <1>6, <1>7 DEF KnownAreSpawned, Spawned

(* What a task has read stays its own.                                     *)
LEMMA ReadsStep ==
    ASSUME TypeOK, TasksInOrder, HandlersAreCalled, ReadsAreOwn,
           TaskMoves \/ NextStarts \/ NextInitializes
    PROVE  ReadsAreOwn'
<1>1. ASSUME NEW g \in Gens, task'[g].seen # Unread
      PROVE  /\ task'[g].kind = "start" /\ task'[g].pc \in Endings /\ task'[g].seen.gen = g
             /\ task'[g].pc = "answered" => task'[g].seen.status \in Up
  <2>1. CASE task'[g] = task[g] BY <1>1, <2>1 DEF ReadsAreOwn
  <2>2. CASE GoesOn(g) BY <1>1, <2>2 DEF GoesOn, ReadsAreOwn
  <2> QED BY <1>1, <2>1, <2>2, NextIsNew DEF TaskMoves
<1> QED BY <1>1 DEF ReadsAreOwn

(* Answers stay true.                                                      *)
LEMMA AnswersStep ==
    ASSUME TypeOK, TasksInOrder, HandlersAreCalled, AnswersAreTrue, Next,
           TaskMoves \/ NextStarts \/ NextInitializes
    PROVE  AnswersAreTrue'
<1>1. ASSUME NEW g \in Gens, task'[g].pc = "answered", handler'[g].pc # "none"
      PROVE  g \in history'.ready
  <2>1. history.ready \subseteq history'.ready BY HistoryStep
  <2>2. CASE task[g].pc = "answered"
    <3>1. handler[g].pc # "none" BY <1>1, <2>2, HandlerMoves
    <3> QED BY <2>1, <2>2, <3>1 DEF AnswersAreTrue
  <2>3. CASE task[g].pc # "answered"
    <3>1. CASE TaskMoves
      <4>1. \/ g \in history'.ready
            \/ task[g].pc = "gate" /\ handler' = handler
        BY <1>1, <2>3, <3>1 DEF TaskMoves, GoesOn
      <4> QED BY <1>1, <4>1 DEF HandlersAreCalled, Unposted
    <3>2. CASE ~TaskMoves BY <1>1, <2>3, <3>2, NextIsNew
    <3> QED BY <3>1, <3>2
  <2> QED BY <2>2, <2>3
<1> QED BY <1>1 DEF AnswersAreTrue

(* A start that was not sent goes on finding its row not up.               *)
LEMMA UnsentStep ==
    ASSUME TypeOK, GenerationsLeft, "overlap" \notin Faults, Next,
           TasksInOrder, HandlersAreCalled, KnownAreSpawned, KnownAreSpawned', ReadsAreOwn,
           UnsentAreNotUp, EventsAreTrue, TaskMoves \/ NextStarts \/ NextInitializes
    PROVE  UnsentAreNotUp'
<1>0. row.gen \in Nat /\ row \in Rows /\ events \in Seq(Event)
  BY TypeParts, RowRecords, GenerationNumbers DEF Rows, EventTypesOK
<1>1. ASSUME NEW g \in Gens, task'[g].kind = "start", handler'[g].pc = "none", row'.gen = g
      PROVE  /\ row'.status # "running"
             /\ task'[g].pc = "answered" => row'.status # "starting"
  <2>1. handler[g].pc = "none" BY <1>1, HandlerMoves
  <2>2. g \notin history.ready /\ g \notin history'.ready
    BY <1>1, <2>1 DEF KnownAreSpawned, Spawned
  <2>3. CASE Quiet
    <3>1. row.gen = g /\ TaskMoves BY <1>0, <1>1, <2>3 DEF Quiet, NextStarts, NextInitializes
    <3>2. task[g].kind = "start" BY <1>1, <3>1 DEF TaskMoves, GoesOn
    <3>3. row.status # "running" BY <2>1, <3>1, <3>2 DEF UnsentAreNotUp
    <3>4. row'.status \notin {"running", "starting"} \/ row'.status = row.status
      BY <2>3 DEF Quiet, Up
    <3>5. ASSUME task'[g].pc = "answered" PROVE row.status # "starting"
      <4>1. CASE task[g].pc = "answered" BY <2>1, <3>1, <3>2, <4>1 DEF UnsentAreNotUp
      <4>2. CASE task[g].pc # "answered"
        BY <2>2, <3>1, <3>2, <3>5, <4>2 DEF TaskMoves, GoesOn, Launchable
      <4> QED BY <4>1, <4>2
    <3> QED BY <3>3, <3>4, <3>5
  <2>4. CASE NextStarts
    <3>1. task'[g].pc = "gate" BY <1>1, <2>4, NextIsNew DEF NextStarts
    <3> QED BY <2>4, <3>1 DEF NextStarts
  <2>5. CASE NextInitializes
    <3>1. g = row.gen + 1 BY <1>1, <2>5 DEF NextInitializes
    <3>2. task'[g].kind = "init"
      <4>1. ~NextStarts
        BY <1>0, <1>1, <2>5, <3>1, TypeParts DEF NextStarts, NextInitializes, TaskTypes, NoTask
      <4> QED BY <1>1, <2>5, <3>1, <4>1, NextIsNew
    <3> QED BY <1>1, <3>2
  <2>6. CASE Announced
    <3>1. 1 \in DOMAIN events /\ Head(events) = events[1] BY <1>0, <2>6 DEF Announced
    <3>2. g \in history.ready BY <1>1, <2>6, <3>1 DEF Announced, EventsAreTrue
    <3> QED BY <2>2, <3>2
  <2>7. CASE Registered
    BY <1>1, <2>1, <2>7 DEF Registered, KnownAreSpawned, Spawned
  <2>8. ASSUME NEW h \in Gens, Acknowledged(h) PROVE FALSE
    <3>1. h = g /\ task[g].kind = "start" /\ row.status \in Up /\ row.gen = g
      BY <1>1, <2>8 DEF Acknowledged, ReadsAreOwn
    <3> QED BY <2>1, <2>8, <3>1 DEF Acknowledged, UnsentAreNotUp, Up
  <2> QED BY <2>3, <2>4, <2>5, <2>6, <2>7, <2>8, RowMoves
<1> QED BY <1>1 DEF UnsentAreNotUp

(* What the agent, its registrations and its events say stays true.        *)
LEMMA SayingsStep ==
    ASSUME TypeOK, Next, TasksInOrder, HandlersAreCalled, KnownAreSpawned,
           OneAtATime, TableIsTrue, ReportIsTrue, EventsAreTrue
    PROVE  OneAtATime' /\ TableIsTrue' /\ ReportIsTrue' /\ EventsAreTrue'
<1>0. /\ history.ready \subseteq history'.ready
      /\ history.doubled => history'.doubled
      /\ history \in HistoryRec
  BY HistoryStep, TypeParts
<1>1. OneAtATime'
  <2>1. CASE alive' \subseteq alive BY <1>0, <2>1 DEF OneAtATime
  <2>2. ASSUME NEW g \in Gens, Spawns(g), ~history'.doubled PROVE alive' = {g}
    <3>1. alive = {} BY <1>0, <2>2 DEF Spawns, HistoryRec
    <3> QED BY <2>2, <3>1 DEF Spawns
  <2> QED BY <2>1, <2>2, SpawnStep DEF OneAtATime
<1>2. TableIsTrue'
  <2> SUFFICES ASSUME agent'.health = "healthy", ~history'.doubled
               PROVE  agent'.table \in history'.ready
    BY DEF TableIsTrue
  <2>1. CASE Loses BY <1>0, <2>1 DEF Loses, TableIsTrue
  <2>2. ASSUME NEW g \in Gens, IsSeen(g) PROVE agent'.table \in history'.ready
    BY <1>0, <2>2 DEF IsSeen, OneAtATime
  <2>3. ASSUME NEW g \in Gens, Spawns(g) PROVE agent'.table \in history'.ready
    <3>1. agent.health = "healthy" /\ agent.table = 0 BY <2>3 DEF Spawns, NoProcess
    <3>2. 0 \in history.ready BY <1>0, <3>1 DEF TableIsTrue
    <3>3. FALSE BY <3>2, NoHandlerOfNone, GenerationNumbers DEF KnownAreSpawned, Spawned
    <3> QED BY <3>3
  <2> QED BY <2>1, <2>2, <2>3, TableMoves
<1>3. ReportIsTrue'
  BY <1>0, ReportMoves DEF ReportIsTrue, TableIsTrue
<1>4. EventsAreTrue'
  <2>1. ASSUME NEW j \in DOMAIN events', events'[j].type \in {"started", "healthy"}
        PROVE  events'[j].gen \in history'.ready
    BY <1>0, <2>1, EventMoves DEF EventsAreTrue
  <2> QED BY <2>1 DEF EventsAreTrue
<1> QED BY <1>1, <1>2, <1>3, <1>4

(* A row goes on saying "healthy" of generations that were.                *)
LEMMA RowTruthStep ==
    ASSUME TypeOK, GenerationsLeft, "overlap" \notin Faults, Next,
           TasksInOrder, HandlersAreCalled, ReadsAreOwn, AnswersAreTrue, UnsentAreNotUp,
           ReportIsTrue, EventsAreTrue, RowIsTrue, TaskMoves \/ NextStarts \/ NextInitializes
    PROVE  RowIsTrue'
<1>0. /\ history.ready \subseteq history'.ready
      /\ history.doubled => history'.doubled
      /\ row.gen \in Nat /\ row.gen \in Gens /\ row'.gen \in Gens /\ events \in Seq(Event)
  BY HistoryStep, RowStep, TypeParts, RowRecords, GenerationNumbers DEF Rows, EventTypesOK
<1> SUFFICES ASSUME row'.health = "healthy", task'[row'.gen].kind # "init",
                    ~history'.doubled
             PROVE  row'.gen \in history'.ready
  BY DEF RowIsTrue
<1>1. CASE Quiet
  <2>1. row'.gen = row.gen /\ row.health = "healthy" /\ TaskMoves
    BY <1>0, <1>1 DEF Quiet, NextStarts, NextInitializes
  <2>2. task[row.gen].kind # "init" BY <1>0, <2>1 DEF TaskMoves, GoesOn
  <2> QED BY <1>0, <2>1, <2>2 DEF RowIsTrue
<1>2. CASE NextStarts BY <1>2 DEF NextStarts
<1>3. CASE NextInitializes
  <2>1. task'[row'.gen].kind = "init"
    BY <1>0, <1>3, TypeParts DEF NextInitializes, TaskTypes, NoTask
  <2> QED BY <2>1
<1>4. CASE Announced
  <2>1. 1 \in DOMAIN events /\ Head(events) = events[1] BY <1>0, <1>4 DEF Announced
  <2> QED BY <1>0, <1>4, <2>1 DEF Announced, EventsAreTrue
<1>5. CASE Registered BY <1>0, <1>5 DEF Registered, ReportIsTrue
<1>6. ASSUME NEW g \in Gens, Acknowledged(g) PROVE row'.gen \in history'.ready
  <2>1. row.gen = g /\ row'.gen = g /\ task[g].kind = "start" /\ row.status \in Up
        /\ task[g].pc = "answered"
    BY <1>6 DEF Acknowledged, ReadsAreOwn
  <2>2. handler[g].pc # "none" BY <2>1 DEF UnsentAreNotUp, Up
  <2> QED BY <1>0, <2>1, <2>2 DEF AnswersAreTrue
<1> QED BY <1>1, <1>2, <1>3, <1>4, <1>5, <1>6, RowMoves

(* The inductive invariant behind the rows that are ready.                 *)
ReadyInv ==
    /\ TasksInOrder /\ HandlersAreCalled /\ KnownAreSpawned /\ ReadsAreOwn /\ AnswersAreTrue
    /\ UnsentAreNotUp /\ OneAtATime /\ TableIsTrue /\ ReportIsTrue /\ EventsAreTrue /\ RowIsTrue

(* It holds at first: nothing was started.                                 *)
LEMMA ReadyInit == Init => ReadyInv
<1> SUFFICES ASSUME Init PROVE ReadyInv
  OBVIOUS
<1>1. TasksInOrder /\ HandlersAreCalled BY DEF Init, TasksInOrder, HandlersAreCalled, NoTask
<1>2. KnownAreSpawned BY DEF Init, KnownAreSpawned, FreshAgent, NoReport, NoProcess
<1>3. ReadsAreOwn /\ AnswersAreTrue BY DEF Init, ReadsAreOwn, AnswersAreTrue, NoTask
<1>4. UnsentAreNotUp BY DEF Init, UnsentAreNotUp, NoTask
<1>5. OneAtATime /\ TableIsTrue /\ ReportIsTrue
  BY DEF Init, OneAtATime, TableIsTrue, ReportIsTrue, FreshAgent, NoReport
<1>6. EventsAreTrue /\ RowIsTrue BY DEF Init, EventsAreTrue, RowIsTrue
<1> QED BY <1>1, <1>2, <1>3, <1>4, <1>5, <1>6 DEF ReadyInv

(* Every step keeps it.                                                    *)
LEMMA ReadyStep ==
    ASSUME "overlap" \notin Faults
    PROVE  Inv /\ Inv' /\ ReadyInv /\ [Next]_vars => ReadyInv'
<1> SUFFICES ASSUME Inv, Inv', ReadyInv, [Next]_vars PROVE ReadyInv'
  OBVIOUS
<1>0. TypeOK /\ GenerationsLeft /\ TypeOK' BY DEF Inv
<1>1. CASE UNCHANGED vars
  BY <1>1 DEF vars, ReadyInv, TasksInOrder, HandlersAreCalled, KnownAreSpawned, Spawned,
       ReadsAreOwn, AnswersAreTrue, UnsentAreNotUp, OneAtATime, TableIsTrue, ReportIsTrue,
       EventsAreTrue, RowIsTrue
<1>2. CASE Next
  <2>1. TaskMoves \/ NextStarts \/ NextInitializes BY <1>0, <1>2, TaskMove DEF ReadyInv
  <2>2. row'.gen \in Nat /\ row'.gen >= row.gen
    <3>1. row.gen \in Nat /\ row'.gen \in Nat
      BY <1>0, <1>2, RowStep, TypeParts, GenerationNumbers DEF Rows
    <3> QED BY <1>0, <1>2, <3>1, RowMoves DEF Quiet, NextStarts, NextInitializes, Announced,
                                           Registered, Acknowledged
  <2>3. TasksInOrder' /\ HandlersAreCalled' /\ KnownAreSpawned' /\ ReadsAreOwn' /\ AnswersAreTrue'
    BY <1>0, <1>2, <2>1, <2>2, OrderStep, CalledStep, KnownStep, ReadsStep, AnswersStep
       DEF ReadyInv
  <2>4. UnsentAreNotUp' BY <1>0, <1>2, <2>1, <2>3, UnsentStep DEF ReadyInv
  <2>5. OneAtATime' /\ TableIsTrue' /\ ReportIsTrue' /\ EventsAreTrue' /\ RowIsTrue'
    BY <1>0, <1>2, <2>1, SayingsStep, RowTruthStep DEF ReadyInv
  <2> QED BY <2>3, <2>4, <2>5 DEF ReadyInv
<1> QED BY <1>1, <1>2

(* A row that says it is ready names a generation whose process was seen   *)
(* healthy, whatever starts, stops, restarts, late answers, events and     *)
(* registrations came before, as long as nobody writes a row between       *)
(* another's read and write of it.                                         *)
THEOREM ReadyRowsAreReady ==
    ASSUME "overlap" \notin Faults
    PROVE  Spec => []ReadyRowsAreServed
<1>1. ReadyInv => ReadyRowsAreServed BY DEF ReadyInv, RowIsTrue, ReadyRowsAreServed
<1> QED BY <1>1, ReadyInit, ReadyStep, TypeInvariant, PTL DEF Spec
===============================================================================
