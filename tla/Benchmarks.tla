------------------------------ MODULE Benchmarks ------------------------------
(***************************************************************************)
(* Benchmark runs and what they exclude: the rows of benchmark_runs, the   *)
(* executors of the backend's workers, the advisory lock that stands for   *)
(* exclusive admission (the gate), the llama-bench jobs at the agent, and  *)
(* as much of one server and one inference request as the gate is about.   *)
(* Sources: backend/app/services/benchmark.py, scheduler_locks.py,         *)
(* api/routes/benchmarks.py; agent/app/services/llama_bench.py and         *)
(* api/routes/benchmarks.py; the gated start of server_startup.py and the  *)
(* gated admission of inference_scheduler.py.                              *)
(***************************************************************************)
EXTENDS Integers, Sequences

CONSTANTS
    Runs,       \* benchmark runs
    Workers,    \* uvicorn workers, each with its own tables of tasks and controls
    Faults,     \* what may go wrong or be decided in this instance, see "Trouble"
    MaxFaults,  \* bound on how often it does
    MaxEvents   \* bound on benchmark events under way

Decisions == {"cancel", "abort", "force"}

ASSUME BenchmarkAssumption ==
    /\ Faults \subseteq {"crash", "giveup", "stopfails", "gone", "lost", "delete", "latestart"}
                       \union Decisions
    /\ MaxFaults \in Nat /\ MaxEvents \in Nat

VARIABLES
    run,        \* BenchmarkRun.status; "none" before the creation, "deleted" after
    exec,       \* exec[w][r]: where _execute of worker w is with run r
    controls,   \* the <<w, r>> whose _run_controls event is set
    gate,       \* the <<w, r>> that holds the gate exclusively; a starter that has sent
                \* its start holds it shared
    cut,        \* the servers' rows _stop_servers has read and not stopped yet
    posts,      \* handlers of POST /benchmarks/run at the agent: the run, who waits
    job,        \* llama_bench_manager.runs at the agent, by run
    events,     \* benchmark events on their way to the backend, oldest first
    server,     \* an inference server: its row, and whether its process is up
    starter,    \* a start of that server: the route, then dispatch_start
    lease,      \* an inference request, by the status of its lease
    user,       \* a cancel, abort or force-stop under way
    history     \* what the properties need to remember, see Init

vars == <<run, exec, controls, gate, cut, posts, job, events, server, starter, lease, user, history>>
bench == <<posts, job, events>>
inference == <<server, starter, lease>>

Active == {"waiting_for_idle", "stopping_servers", "running", "idle_timeout"}
Resumable == {"waiting_for_idle", "stopping_servers", "running"}
Terminal == {"completed", "failed", "stopped"}
Missing == {"none", "deleted"}
RunStatus == Active \union Terminal \union Missing \union {"queued", "cancelled"}

\* claim: the task was created; gate: it claimed or resumes the run in status "of";
\* requeue: another executor has the gate; idle, deadline, decide: _wait_for_idle; notidle,
\* abandon: it returned False; mark, read, stop: towards _stop_servers; post, posting,
\* posted: the call to the agent; monitor, result: _monitor_agent_run, which found "of";
\* failing: an exception is about to be recorded; leave: the two finally blocks.
Past == {"idle", "deadline", "decide", "notidle", "abandon", "mark", "read", "stop",
         "post", "posting", "posted", "monitor", "result", "failing", "leave"}
Stages == {"none", "claim", "gate", "requeue"} \union Past

\* "starting" is a job whose process has not been spawned yet: its status is "running",
\* and stop() does nothing about it.
Jobs == {"none", "starting", "running", "stopping"} \union Terminal
Going == {"starting", "running", "stopping"}
Calls == [kind : Decisions, run : Runs, seen : RunStatus]
NoCall == [kind |-> "none"]
Nobody == "nobody"

ASSUME NobodyAssumption == Nobody \notin Workers

TypeOK ==
    /\ run \in [Runs -> RunStatus]
    /\ exec \in [Workers -> [Runs -> [at : Stages, of : RunStatus]]]
    /\ controls \subseteq Workers \X Runs
    /\ gate \subseteq Workers \X Runs
    /\ \A w \in Workers, r \in Runs : <<w, r>> \in gate <=> exec[w][r].at \in Past
    /\ cut \in BOOLEAN
    /\ posts \subseteq [run : Runs, to : Workers \union {Nobody}]
    /\ job \in [Runs -> Jobs]
    /\ events \in Seq(Runs \X (Terminal \union {"running"})) /\ Len(events) <= MaxEvents
    /\ server \in [row : {"stopped", "starting", "running", "error"}, up : BOOLEAN]
    /\ starter \in {"none", "checked", "waiting", "sent", "late"}
    /\ lease \in {"none", "reserving", "active"}
    /\ user \in Calls \union {NoCall}
    /\ history \in [loose : SUBSET Runs, excused : BOOLEAN, again : SUBSET Runs, faults : 0 .. MaxFaults]

At(stage) == [at |-> stage, of |-> "none"]

Init ==
    /\ run = [r \in Runs |-> "none"]
    /\ exec = [w \in Workers |-> [r \in Runs |-> At("none")]]
    /\ controls = {} /\ gate = {} /\ cut = FALSE
    /\ posts = {} /\ job = [r \in Runs |-> "none"] /\ events = <<>>
    /\ server = [row |-> "stopped", up |-> FALSE] /\ starter = "none" /\ lease = "none"
    /\ user = NoCall
    /\ history = [
           loose |-> {},       \* runs whose job may go on without an executor
           excused |-> FALSE,  \* the lease was not there to be seen by the last idle check
           again |-> {},       \* runs whose job was started a second time
           faults |-> 0]

-------------------------------------------------------------------------------
(* Helpers *)

Goto(w, r, stage) == exec' = [exec EXCEPT ![w][r] = At(stage)]
GotoWith(w, r, stage, status) ==
    exec' = [exec EXCEPT ![w][r] = [at |-> stage, of |-> status]]

\* _set_run: writes whatever the row says, if there is one.
Written(r, status) == IF run[r] \in Missing THEN run ELSE [run EXCEPT ![r] = status]
SetRun(r, status) == run' = Written(r, status)

GateIsFree == gate = {} /\ starter # "sent"
Blocking == \E r \in Runs : run[r] \in Active

\* What is left at the agent when the executor of r is gone.
Loose(r) ==
    IF job[r] \in Going \/ \E p \in posts : p.run = r THEN {r} ELSE {}

Trouble(kind) ==
    /\ kind \in Faults /\ history.faults < MaxFaults
    /\ history' = [history EXCEPT !.faults = @ + 1]

-------------------------------------------------------------------------------
(* The executors *)

\* POST /benchmarks/runs on worker w.
CreateRun(w, r) ==
    /\ run[r] = "none"
    /\ run' = [run EXCEPT ![r] = "queued"]
    /\ Goto(w, r, "claim")
    /\ UNCHANGED <<controls, gate, cut, bench, inference, user, history>>

QueueLoopQueuedOnly(w, r) ==
    /\ run[r] = "queued"
    /\ exec[w][r].at = "none"
    /\ Goto(w, r, "claim")
    /\ UNCHANGED <<run, controls, gate, cut, bench, inference, user, history>>

\* The queue loop of a worker schedules whatever it has no task for.
QueueLoop(w, r) ==
    /\ run[r] \in Resumable \union {"queued"}
    /\ exec[w][r].at = "none"
    /\ Goto(w, r, "claim")
    /\ UNCHANGED <<run, controls, gate, cut, bench, inference, user, history>>

Claim(w, r) ==
    /\ exec[w][r].at = "claim"
    /\ \/ /\ run[r] = "queued"
          /\ SetRun(r, "waiting_for_idle") /\ GotoWith(w, r, "gate", "waiting_for_idle")
       \/ /\ run[r] \in Resumable
          /\ GotoWith(w, r, "gate", run[r]) /\ UNCHANGED run
       \/ /\ run[r] \notin Resumable \union {"queued"}
          /\ Goto(w, r, "none") /\ UNCHANGED run
    /\ UNCHANGED <<controls, gate, cut, bench, inference, user, history>>

\* Where an executor goes on that got the gate.
Resumed(r, status) ==
    IF run[r] \in Missing THEN "leave"
    ELSE CASE status = "running" -> "monitor"
           [] status = "waiting_for_idle" -> "idle"
           [] status = "stopping_servers" -> "read"

TryGateUnguarded(w, r) ==
    /\ exec[w][r].at = "gate"
    /\ gate' = {<<w, r>>}
    /\ Goto(w, r, Resumed(r, exec[w][r].of))
    /\ UNCHANGED <<run, controls, cut, bench, inference, user, history>>

\* pg_try_advisory_lock. A run that was claimed goes back to the queue, also when it is
\* another executor of the same run that has the gate.
TryGate(w, r) ==
    /\ exec[w][r].at = "gate"
    /\ LET status == exec[w][r].of IN
       \/ /\ GateIsFree
          /\ gate' = {<<w, r>>}
          /\ Goto(w, r, Resumed(r, status))
          /\ history' = [history EXCEPT !.excused = @ \/ status = "stopping_servers"]
       \/ /\ ~GateIsFree
          /\ Goto(w, r, IF status = "waiting_for_idle" THEN "requeue" ELSE "none")
          /\ UNCHANGED <<gate, history>>
    /\ UNCHANGED <<run, controls, cut, bench, inference, user>>

\* With the gate, the definition, its model and its agent are read: one is gone.
SourceGone(w, r) ==
    /\ exec[w][r].at = "gate" /\ GateIsFree /\ run[r] \notin Missing
    /\ "gone" \in Faults /\ history.faults < MaxFaults
    /\ history' = [history EXCEPT !.faults = @ + 1, !.loose = @ \union Loose(r)]
    /\ gate' = {<<w, r>>}
    /\ Goto(w, r, "failing")
    /\ UNCHANGED <<run, controls, cut, bench, inference, user>>

Requeue(w, r) ==
    /\ exec[w][r].at = "requeue"
    /\ SetRun(r, "queued") /\ Goto(w, r, "none")
    /\ UNCHANGED <<controls, gate, cut, bench, inference, user, history>>

IdleCheckIgnoresLeases(w, r) ==
    /\ exec[w][r].at = "idle"
    /\ Goto(w, r, "mark")
    /\ history' = [history EXCEPT !.excused = FALSE]
    /\ UNCHANGED <<run, controls, gate, cut, bench, inference, user>>

\* _wait_for_idle: a look at the run and at the active leases, every two seconds. A row
\* that is still "reserving" is not counted.
IdleCheck(w, r) ==
    /\ exec[w][r].at = "idle"
    /\ \/ /\ run[r] \in Missing \union {"cancelled"}
          /\ Goto(w, r, "notidle") /\ UNCHANGED history
       \/ /\ run[r] \notin Missing \union {"cancelled"} /\ lease # "active"
          /\ Goto(w, r, "mark")
          /\ history' = [history EXCEPT !.excused = lease = "reserving"]
       \/ /\ run[r] \notin Missing \union {"cancelled"} /\ lease = "active"
          /\ Goto(w, r, "deadline") /\ UNCHANGED history
    /\ UNCHANGED <<run, controls, gate, cut, bench, inference, user>>

\* It looks again, or BENCHMARK_IDLE_TIMEOUT is over and it waits for a decision.
IdleDeadline(w, r) ==
    /\ exec[w][r].at = "deadline"
    /\ \/ Goto(w, r, "idle") /\ UNCHANGED run
       \/ SetRun(r, "idle_timeout") /\ Goto(w, r, "decide")
    /\ UNCHANGED <<controls, gate, cut, bench, inference, user, history>>

Decide(w, r) ==
    /\ exec[w][r].at = "decide" /\ <<w, r>> \in controls
    /\ Goto(w, r, "notidle")
    /\ UNCHANGED <<run, controls, gate, cut, bench, inference, user, history>>

\* _wait_for_idle has returned False.
NotIdle(w, r) ==
    /\ exec[w][r].at = "notidle"
    /\ Goto(w, r, IF run[r] \in Missing \union {"cancelled"} THEN "leave" ELSE "abandon")
    /\ UNCHANGED <<run, controls, gate, cut, bench, inference, user, history>>

Abandon(w, r) ==
    /\ exec[w][r].at = "abandon"
    /\ SetRun(r, "cancelled") /\ Goto(w, r, "leave")
    /\ UNCHANGED <<controls, gate, cut, bench, inference, user, history>>

MarkStopping(w, r) ==
    /\ exec[w][r].at = "mark"
    /\ SetRun(r, "stopping_servers") /\ Goto(w, r, "read")
    /\ UNCHANGED <<controls, gate, cut, bench, inference, user, history>>

\* _stop_servers reads the servers that are up, then stops each by request_server_stop,
\* which ends its active leases.
ReadServers(w, r) ==
    /\ exec[w][r].at = "read"
    /\ cut' = (server.row \in {"starting", "running"}) /\ Goto(w, r, "stop")
    /\ UNCHANGED <<run, controls, gate, bench, inference, user, history>>

StopServers(w, r) ==
    /\ exec[w][r].at = "stop"
    /\ cut' = FALSE
    /\ lease' = IF cut /\ lease = "active" THEN "none" ELSE lease
    /\ \/ /\ Goto(w, r, "post") /\ UNCHANGED history
          /\ server' = IF cut THEN [row |-> "stopped", up |-> FALSE] ELSE server
       \/ /\ cut /\ Trouble("stopfails")
          /\ Goto(w, r, "failing")
          /\ server' = [server EXCEPT !.row = "error"]
    /\ UNCHANGED <<run, controls, gate, bench, starter, user>>

\* Once the agent is online, which is not modelled, the job is posted.
Post(w, r) ==
    /\ exec[w][r].at = "post"
    /\ posts' = posts \union {[run |-> r, to |-> w]}
    /\ Goto(w, r, "posting")
    /\ UNCHANGED <<run, controls, gate, cut, job, events, inference, user, history>>

\* The call fails or takes more than its 900 s; the handler at the agent goes on.
PostGivesUp(w, r) ==
    /\ exec[w][r].at = "posting" /\ "giveup" \in Faults /\ history.faults < MaxFaults
    /\ history' = [history EXCEPT !.faults = @ + 1, !.loose = @ \union {r}]
    /\ [run |-> r, to |-> w] \in posts
    /\ posts' = (posts \ {[run |-> r, to |-> w]}) \union {[run |-> r, to |-> Nobody]}
    /\ Goto(w, r, "failing")
    /\ UNCHANGED <<run, controls, gate, cut, job, events, inference, user>>

\* Whatever was decided in the meantime, the run is marked as running.
Posted(w, r) ==
    /\ exec[w][r].at = "posted"
    /\ SetRun(r, "running") /\ Goto(w, r, "monitor")
    /\ UNCHANGED <<controls, gate, cut, bench, inference, user, history>>

\* _monitor_agent_run: the row first, then the agent; an agent that does not answer, or
\* does not know the run, is asked again.
Monitor(w, r) ==
    /\ exec[w][r].at = "monitor"
    /\ \/ /\ run[r] \in Terminal \union Missing \union {"cancelled"}
          /\ Goto(w, r, "leave")
       \/ /\ run[r] \notin Terminal \union Missing \union {"cancelled"}
          /\ job[r] \in Terminal
          /\ GotoWith(w, r, "result", job[r])
    /\ UNCHANGED <<run, controls, gate, cut, bench, inference, user, history>>

WriteResult(w, r) ==
    /\ exec[w][r].at = "result"
    /\ SetRun(r, exec[w][r].of) /\ Goto(w, r, "leave")
    /\ UNCHANGED <<controls, gate, cut, bench, inference, user, history>>

RecordFailure(w, r) ==
    /\ exec[w][r].at = "failing"
    /\ SetRun(r, "failed") /\ Goto(w, r, "leave")
    /\ UNCHANGED <<controls, gate, cut, bench, inference, user, history>>

LeaveKeepsGate(w, r) ==
    /\ exec[w][r].at = "leave"
    /\ Goto(w, r, "none")
    /\ controls' = controls \ {<<w, r>>}
    /\ UNCHANGED <<run, gate, cut, bench, inference, user, history>>

Leave(w, r) ==
    /\ exec[w][r].at = "leave"
    /\ Goto(w, r, "none")
    /\ controls' = controls \ {<<w, r>>}
    /\ gate' = {}
    /\ UNCHANGED <<run, cut, bench, inference, user, history>>

\* A worker stops or dies: its tasks, events and database session are gone.
CrashWorker(w) ==
    /\ "crash" \in Faults /\ history.faults < MaxFaults
    /\ exec' = [exec EXCEPT ![w] = [r \in Runs |-> At("none")]]
    /\ controls' = {c \in controls : c[1] # w}
    /\ posts' = {IF p.to = w THEN [p EXCEPT !.to = Nobody] ELSE p : p \in posts}
    /\ gate' = {h \in gate : h[1] # w}
    /\ cut' = (cut /\ gate' # {})
    /\ history' = [history EXCEPT !.faults = @ + 1,
                      !.loose = @ \union UNION {Loose(h[2]) : h \in gate \ gate'}]
    /\ UNCHANGED <<run, job, events, inference, user>>

-------------------------------------------------------------------------------
(* llama_bench at the agent *)

Busy == \E r \in Runs : job[r] \in Going

\* The model could not be fetched, or it is there: the manager takes one job at a time.
\* Whoever still waits for the answer gets it.
StartJob(p) ==
    /\ p \in posts
    /\ posts' = posts \ {p}
    /\ \/ /\ exec' = IF p.to = Nobody THEN exec
                     ELSE [exec EXCEPT ![p.to][p.run] = At("failing")]
          /\ UNCHANGED <<job, events, history>>
       \/ /\ ~Busy /\ Len(events) < MaxEvents
          /\ job' = [job EXCEPT ![p.run] = "starting"]
          /\ events' = Append(events, <<p.run, "running">>)
          /\ exec' = IF p.to = Nobody THEN exec
                     ELSE [exec EXCEPT ![p.to][p.run] = At("posted")]
          /\ history' = IF job[p.run] = "none" THEN history
                        ELSE [history EXCEPT !.again = @ \union {p.run}]
    /\ UNCHANGED <<run, controls, gate, cut, inference, user>>

Spawn(r) ==
    /\ job[r] = "starting"
    /\ job' = [job EXCEPT ![r] = "running"]
    /\ UNCHANGED <<run, exec, controls, gate, cut, posts, events, inference, user, history>>

\* _execute of the manager ends: the process exited, or could not be spawned.
EndJob(r, status) ==
    /\ \/ job[r] = "starting" /\ status = "failed"
       \/ job[r] = "running" /\ status \in {"completed", "failed"}
       \/ job[r] = "stopping" /\ status = "stopped"
    /\ Len(events) < MaxEvents
    /\ job' = [job EXCEPT ![r] = status]
    /\ events' = Append(events, <<r, status>>)
    /\ UNCHANGED <<run, exec, controls, gate, cut, posts, inference, user, history>>

\* _handle_benchmark_event writes the status the event stands for.
DeliverEvent ==
    /\ events # <<>>
    /\ events' = Tail(events)
    /\ SetRun(Head(events)[1], Head(events)[2])
    /\ UNCHANGED <<exec, controls, gate, cut, posts, job, inference, user, history>>

\* The socket to the backend drops.
LoseEvents ==
    /\ events # <<>> /\ Trouble("lost")
    /\ events' = <<>>
    /\ UNCHANGED <<run, exec, controls, gate, cut, posts, job, inference, user>>

-------------------------------------------------------------------------------
(* What the user does *)

\* stop_run: abort and force-stop first set the control of the worker that serves them;
\* then the status is read.
UserCall(w, r, kind) ==
    /\ user = NoCall /\ run[r] \notin Missing /\ Trouble(kind)
    /\ user' = [kind |-> kind, run |-> r, seen |-> run[r]]
    /\ controls' = IF kind = "cancel" THEN controls ELSE controls \union {<<w, r>>}
    /\ UNCHANGED <<run, exec, gate, cut, bench, inference>>

Executed(r) == {x \in {r} : \E w \in Workers : <<w, r>> \in gate}

\* The run is cancelled if it was waiting when it was looked at, or by force.
UserCancels ==
    /\ user # NoCall /\ user.seen # "none"
    /\ LET r == user.run IN
       /\ IF user.seen \in {"queued", "waiting_for_idle", "idle_timeout"} \/ user.kind = "force"
          THEN /\ SetRun(r, "cancelled")
               /\ history' = [history EXCEPT !.loose = @ \union Executed(r)]
          ELSE UNCHANGED <<run, history>>
    /\ user' = [user EXCEPT !.seen = "none"]
    /\ UNCHANGED <<exec, controls, gate, cut, bench, inference>>

\* Then the agent is told, which terminates a job whose process was spawned.
UserStopsJob ==
    /\ user # NoCall /\ user.seen = "none"
    /\ job' = [job EXCEPT ![user.run] = IF @ = "running" THEN "stopping" ELSE @]
    /\ user' = NoCall
    /\ UNCHANGED <<run, exec, controls, gate, cut, posts, events, inference, history>>

\* A definition is deleted, and its runs with it.
DeleteRun(r) ==
    /\ run[r] \notin Missing /\ "delete" \in Faults /\ history.faults < MaxFaults
    /\ history' = [history EXCEPT !.faults = @ + 1, !.loose = @ \union Executed(r)]
    /\ run' = [run EXCEPT ![r] = "deleted"]
    /\ UNCHANGED <<exec, controls, gate, cut, bench, inference, user>>

-------------------------------------------------------------------------------
(* Starts and requests *)

\* A route or ensure_server_ready sees no benchmark, and later reserves the start.
CheckBlocking ==
    /\ starter = "none" /\ server.row \in {"stopped", "error"} /\ ~server.up /\ ~Blocking
    /\ starter' = "checked"
    /\ UNCHANGED <<run, exec, controls, gate, cut, bench, server, lease, user, history>>

ReserveStart ==
    /\ starter = "checked"
    /\ starter' = "waiting" /\ server' = [server EXCEPT !.row = "starting"]
    /\ UNCHANGED <<run, exec, controls, gate, cut, bench, lease, user, history>>

SendStartUngated ==
    /\ starter = "waiting"
    /\ starter' = IF server.row = "starting" THEN "sent" ELSE "none"
    /\ UNCHANGED <<run, exec, controls, gate, cut, bench, server, lease, user, history>>

\* _send_start_with_gate: the gate, shared; then the row again.
SendStart ==
    /\ starter = "waiting" /\ gate = {}
    /\ starter' = IF server.row = "starting" THEN "sent" ELSE "none"
    /\ UNCHANGED <<run, exec, controls, gate, cut, bench, server, lease, user, history>>

StartAnswered ==
    /\ starter = "sent"
    /\ starter' = "none"
    /\ server' = [row |-> IF server.row = "starting" THEN "running" ELSE server.row, up |-> TRUE]
    /\ UNCHANGED <<run, exec, controls, gate, cut, bench, lease, user, history>>

\* The call gives up, so that the gate is free; the agent's handler goes on.
StartGivesUp ==
    /\ starter = "sent" /\ Trouble("latestart")
    /\ starter' = "late" /\ server' = [server EXCEPT !.row = "error"]
    /\ UNCHANGED <<run, exec, controls, gate, cut, bench, lease, user>>

LateStart ==
    /\ starter = "late"
    /\ starter' = "none" /\ server' = [server EXCEPT !.up = TRUE]
    /\ UNCHANGED <<run, exec, controls, gate, cut, bench, lease, user, history>>

\* _claim asks for the gate, shared, for the length of its transaction; the activation
\* does not.
ClaimLease ==
    /\ lease = "none" /\ server.row = "running" /\ gate = {}
    /\ lease' = "reserving"
    /\ UNCHANGED <<run, exec, controls, gate, cut, bench, server, starter, user, history>>

ActivateLease ==
    /\ lease = "reserving"
    /\ lease' = IF server.row = "running" THEN "active" ELSE "none"
    /\ UNCHANGED <<run, exec, controls, gate, cut, bench, server, starter, user, history>>

EndLease ==
    /\ lease = "active"
    /\ lease' = "none"
    /\ UNCHANGED <<run, exec, controls, gate, cut, bench, server, starter, user, history>>

-------------------------------------------------------------------------------
Executor(w, r) ==
    \/ Claim(w, r) \/ TryGate(w, r) \/ Requeue(w, r)
    \/ IdleCheck(w, r) \/ IdleDeadline(w, r) \/ Decide(w, r) \/ NotIdle(w, r)
    \/ Abandon(w, r) \/ MarkStopping(w, r) \/ ReadServers(w, r) \/ StopServers(w, r)
    \/ Post(w, r) \/ Posted(w, r) \/ Monitor(w, r) \/ WriteResult(w, r)
    \/ RecordFailure(w, r) \/ Leave(w, r)

Agent ==
    \/ \E p \in posts : StartJob(p)
    \/ \E r \in Runs : Spawn(r) \/ \E status \in Terminal : EndJob(r, status)

Next ==
    \/ \E w \in Workers, r \in Runs :
          \/ CreateRun(w, r) \/ QueueLoop(w, r) \/ Executor(w, r)
          \/ SourceGone(w, r) \/ PostGivesUp(w, r)
          \/ \E kind \in Decisions : UserCall(w, r, kind)
    \/ \E w \in Workers : CrashWorker(w)
    \/ Agent \/ DeliverEvent \/ LoseEvents
    \/ UserCancels \/ UserStopsJob \/ \E r \in Runs : DeleteRun(r)
    \/ CheckBlocking \/ ReserveStart \/ SendStart \/ StartAnswered \/ StartGivesUp \/ LateStart
    \/ ClaimLease \/ ActivateLease \/ EndLease

Spec == Init /\ [][Next]_vars

\* Tasks and handlers run and are answered, the queue loops turn, a process that was
\* started ends, and the time to wait for idle servers is limited. Nobody has to create,
\* stop or decide anything; a request may last.
Fairness ==
    /\ \A w \in Workers, r \in Runs : WF_vars(Executor(w, r)) /\ WF_vars(QueueLoop(w, r))
    /\ \A w \in Workers, r \in Runs :
          SF_vars(IdleDeadline(w, r) /\ exec'[w][r].at = "decide")
    /\ WF_vars(Agent) /\ WF_vars(DeliverEvent)
    /\ WF_vars(UserCancels \/ UserStopsJob)
    /\ WF_vars(SendStart \/ StartAnswered)

FairSpec == Spec /\ Fairness

-------------------------------------------------------------------------------
(* Properties *)

\* The first job of a run whose executor neither died nor gave up on it, and that nobody
\* cancelled or deleted under it.
Proper(r) == job[r] \in Going /\ r \notin history.loose \union history.again

\* Such a job runs under the gate: its run's executor holds it.
BenchUnderGate ==
    \A r \in Runs : Proper(r) => \E w \in Workers : <<w, r>> \in gate

\* Nothing else uses the machine meanwhile: no inference server is up or coming up, but
\* for one whose start nobody waits for any more.
BenchAlone ==
    \A r \in Runs : Proper(r) =>
        server.row # "running" /\ starter # "sent" /\ (server.up => server.row = "error")

\* No benchmark ends a request that its idle check could have seen.
RequestsAreSpared ==
    [][server.up /\ ~server'.up /\ lease = "active" => history.excused]_vars

\* Whoever gets the gate returns it or waits for the user's decision.
GateIsReturned ==
    \A w \in Workers, r \in Runs :
        <<w, r>> \in gate ~> <<w, r>> \notin gate \/ exec[w][r].at = "decide"

\* A run comes to an end or to that question.
RunsEnd ==
    \A r \in Runs : run[r] = "queued" ~>
        \/ run[r] \in Terminal \union {"cancelled", "deleted"}
        \/ \E w \in Workers : exec[w][r].at = "decide"
===============================================================================
