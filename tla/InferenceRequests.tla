-------------------------- MODULE InferenceRequests --------------------------
(***************************************************************************)
(* One inference request inside the backend: the route that acquires a     *)
(* lease and calls the agent, or hands over to a generator that streams;   *)
(* the tasks it runs beside it (the holder of the upstream response, the   *)
(* reader of its lines, releases in the background, the disconnect         *)
(* monitor); the samples, frames and records it leaves behind.             *)
(* Sources: backend/app/api/routes/v1 (chat completions, completions,      *)
(* embeddings, responses and their WebSocket), services/inference_stream,  *)
(* npu_dispatch, token_stats, and the handle of inference_scheduler.       *)
(***************************************************************************)
EXTENDS Naturals, Sequences

CONSTANTS
    Requests,   \* the kinds of request of this instance, see Kinds
    MaxLines,   \* bound on data lines of a stream
    MaxBeats    \* bound on keep-alive comments

\* "socket" is a turn of the WebSocket; "npu" stands for rerank, decisions and moderations.
Buffered == {"chat", "completions", "responses", "embeddings", "npu", "compact"}
Streamed == {"chat", "completions", "responses", "socket"}
Kinds == [route : Buffered, stream : {FALSE}, store : BOOLEAN]
            \union [route : Streamed, stream : {TRUE}, store : BOOLEAN]

ASSUME RequestsAssumption ==
    /\ Requests \subseteq Kinds
    /\ MaxLines \in Nat /\ MaxBeats \in Nat

VARIABLES
    req,        \* the request, of Requests
    client,     \* FALSE: it disconnected
    at,         \* where its handler is, see Stages
    lease,      \* the row; "none" before it is active
    handle,     \* the InferenceLeaseHandle: held (to be released by the handler), lost, watch
    outcome,    \* what the handler releases it with; while a stream unwinds, why
    releasing,  \* outcomes of the _release tasks that run
    worker,     \* the task that holds the upstream response open
    reading,    \* the task that reads its lines runs
    buffer,     \* lines and errors it has read and the handler has not taken
    stream,     \* of the stream: lines read, taken, keep-alives sent, marker seen
    samples,    \* telemetry recorded
    events,     \* terminal frames the client was sent
    stored,     \* status of the ResponseRecord: "none", or as it was inserted
    excuse      \* why a request may end without a sample, see Excuses

rvars == <<req, client, at, lease, handle, outcome, releasing, worker, reading, buffer,
           stream, samples, events, stored, excuse>>
upstream == <<worker, reading, buffer, stream>>
visible == <<samples, events, stored>>

Outcomes == {"completed", "failed", "cancelled"}

\* resolve, acquire, policy: the route; call, build: without a stream, the call to the agent
\* and what is made of its answer; response: the generator is not started yet; created:
\* the first frames; ready, open, body: readiness, headers, lines; close: the holder is told
\* to close, and waited for; settle: a release that is awaited before the last frames;
\* final: the last frames; store; release: the agent is told, if the outcome is not
\* "completed"; releasing: the row is written; done: the marker that ends the stream.
Unwinding == {"close", "release", "releasing"}
Stages == {"resolve", "acquire", "policy", "call", "build", "response", "created", "ready",
           "open", "body", "settle", "final", "store", "done", "over"} \union Unwinding

\* It was refused, the generator was never started, or the handler was cancelled, or failed,
\* while it cleaned up.
Excuses == {"none", "refused", "unstarted", "cut"}

Endings == {"marker", "eof", "error", "gone"}
Items == ({"line"} \X (1 .. MaxLines)) \union (Endings \X {0})
Kind(item) == item[1]

RequestsTypeOK ==
    /\ req \in Requests
    /\ client \in BOOLEAN /\ at \in Stages
    /\ lease \in {"none", "active", "ended"} \union Outcomes
    /\ handle \in [held : BOOLEAN, lost : BOOLEAN, watch : BOOLEAN]
    /\ outcome \in {"none"} \union Outcomes
    /\ releasing \subseteq Outcomes
    /\ worker \in {"none", "opening", "open", "refused", "closing", "closed"}
    /\ reading \in BOOLEAN
    /\ buffer \in Seq(Items) /\ Len(buffer) <= 2
    /\ stream \in [read : 0 .. MaxLines, taken : Seq(1 .. MaxLines), beats : 0 .. MaxBeats,
                   marker : BOOLEAN]
    /\ samples \in Seq({"success", "error", "cancelled"})
    /\ events \in Seq(Outcomes \union {"error", "done"})
    /\ stored \in {"none"} \union Outcomes
    /\ excuse \in Excuses

RequestsInit ==
    /\ req \in Requests
    /\ client = TRUE /\ at = "resolve"
    /\ lease = "none" /\ handle = [held |-> FALSE, lost |-> FALSE, watch |-> FALSE]
    /\ outcome = "none" /\ releasing = {}
    /\ worker = "none" /\ reading = FALSE /\ buffer = <<>>
    /\ stream = [read |-> 0, taken |-> <<>>, beats |-> 0, marker |-> FALSE]
    /\ samples = <<>> /\ events = <<>> /\ stored = "none"
    /\ excuse = "none"

-------------------------------------------------------------------------------
(* Helpers *)

Plain == req.stream /\ req.route \in {"chat", "completions"}
Responses == req.stream /\ req.route = "responses"
Socket == req.route = "socket"
Generator == Plain \/ Responses

Told == samples # <<>>

\* record_request_telemetry
Sample(status) == samples' = Append(samples, status)
SampleUnlessTold(status) == IF Told THEN UNCHANGED samples ELSE Sample(status)

\* The end of the handler: the finally block releases the lease, if it still has it.
ReleaseWith(o) ==
    /\ outcome' = o
    /\ at' = IF handle.held THEN "release" ELSE "over"

Depth == IF Responses THEN 2 ELSE 1

\* The holder is told to close, a header not yet there is not waited for.
StopUpstream ==
    /\ worker' = IF worker \in {"opening", "open"} THEN "closing" ELSE worker
    /\ reading' = FALSE /\ buffer' = <<>>

-------------------------------------------------------------------------------
(* The route *)

\* resolve_inference_target, _get_or_create_server, capabilities, the request's own checks.
Resolve ==
    /\ at = "resolve" /\ at' = "acquire"
    /\ UNCHANGED <<req, client, lease, handle, outcome, releasing, upstream, visible, excuse>>

\* A turn of the socket records what fails there, and sends a failure.
ResolveFails ==
    /\ at = "resolve" /\ at' = "over"
    /\ IF Socket THEN Sample("error") /\ events' = Append(events, "error")
       ELSE UNCHANGED <<samples, events>>
    /\ UNCHANGED <<req, client, lease, handle, outcome, releasing, upstream, stored, excuse>>

\* Where the routes call acquire inside a try that records its failures.
Guarded == req.route \in {"embeddings", "npu", "socket"}

\* Admission: a lease, a timeout or another error, or the client is gone.
Acquire ==
    /\ at = "acquire"
    /\ \/ /\ lease' = "active"
          /\ handle' = [held |-> TRUE, lost |-> FALSE, watch |-> TRUE]
          /\ at' = IF req.route \in {"chat", "responses"} THEN "policy"
                   ELSE IF Generator THEN "response"
                   ELSE IF Socket THEN "created" ELSE "call"
          /\ UNCHANGED <<samples, events>>
       \/ /\ at' = "over"
          /\ IF Guarded THEN Sample("error") ELSE UNCHANGED samples
          /\ events' = IF Socket THEN Append(events, "failed") ELSE events
          /\ UNCHANGED <<lease, handle>>
       \/ /\ ~client
          /\ at' = "over"
          /\ IF Guarded THEN Sample("cancelled") ELSE UNCHANGED samples
          /\ UNCHANGED <<lease, handle, events>>
    /\ UNCHANGED <<req, client, outcome, releasing, upstream, stored, excuse>>

\* resolve_reasoning_effort for the instance the lease is on.
Policy ==
    /\ at = "policy"
    /\ \/ /\ at' = IF req.stream THEN "response" ELSE "call"
          /\ UNCHANGED <<outcome, excuse>>
       \/ ReleaseWith("failed") /\ excuse' = "refused"
    /\ UNCHANGED <<req, client, lease, handle, releasing, upstream, visible>>

\* The answer of the agent is there, or the call failed: the guard raises the loss of the
\* lease as an error like another.
Called == at = "call" /\ req.route # "compact"

Call ==
    /\ Called /\ at' = "build"
    /\ UNCHANGED <<req, client, lease, handle, outcome, releasing, upstream, visible, excuse>>

CallFails ==
    /\ Called /\ Sample("error") /\ ReleaseWith("failed")
    /\ UNCHANGED <<req, client, lease, handle, releasing, upstream, events, stored, excuse>>

\* The result is built, then the sample is recorded: what fails to be built is an error.
Build ==
    /\ at = "build" /\ Sample("success") /\ ReleaseWith("completed")
    /\ UNCHANGED <<req, client, lease, handle, releasing, upstream, events, stored, excuse>>

BuildFailsLate ==
    /\ at = "build" /\ samples' = samples \o <<"success", "error">> /\ ReleaseWith("failed")
    /\ UNCHANGED <<req, client, lease, handle, releasing, upstream, events, stored, excuse>>

BuildFails ==
    /\ at = "build" /\ Sample("error") /\ ReleaseWith("failed")
    /\ UNCHANGED <<req, client, lease, handle, releasing, upstream, events, stored, excuse>>

\* compact_response: "failed" until there is a summary; it records no telemetry.
Compact ==
    /\ at = "call" /\ req.route = "compact"
    /\ \E o \in {"completed", "failed"} : ReleaseWith(o)
    /\ UNCHANGED <<req, client, lease, handle, releasing, upstream, visible, excuse>>

-------------------------------------------------------------------------------
(* The streams *)

\* The server starts to iterate the body.
StartBody ==
    /\ at = "response"
    /\ at' = IF Responses THEN "created" ELSE "ready"
    /\ UNCHANGED <<req, client, lease, handle, outcome, releasing, upstream, visible, excuse>>

\* The frames response.created and response.in_progress. A turn of the socket resolves its
\* agent and history first, and the reasoning effort after: a refusal is answered by an error
\* event, and leaves the outcome at "completed".
Created ==
    /\ at = "created"
    /\ \/ /\ Responses /\ at' = "ready"
          /\ UNCHANGED <<worker, samples, events, outcome, excuse>>
       \/ /\ Socket /\ at' = "open" /\ worker' = "opening"
          /\ UNCHANGED <<samples, events, outcome, excuse>>
       \/ /\ Socket /\ ReleaseWith("failed") /\ Sample("error")
          /\ \E told \in {"error", "failed"} : events' = Append(events, told)
          /\ UNCHANGED <<worker, excuse>>
       \/ /\ Socket /\ ReleaseWith("completed") /\ excuse' = "refused"
          /\ events' = Append(events, "error")
          /\ UNCHANGED <<worker, samples>>
    /\ UNCHANGED <<req, client, lease, handle, releasing, reading, buffer, stream, stored>>

\* ensure_server_ready and the agent; then the call is opened by a task of its own.
Ready ==
    /\ at = "ready"
    /\ \/ at' = "open" /\ worker' = "opening" /\ UNCHANGED <<outcome, samples>>
       \/ at' = "close" /\ outcome' = "failed" /\ UNCHANGED <<worker, samples>>
    /\ UNCHANGED <<req, client, lease, handle, releasing, reading, buffer, stream,
                   events, stored, excuse>>

\* hold_open and upstream_context: headers, no connection, the lease is lost, or closed.
Headers ==
    /\ worker = "opening"
    /\ worker' \in {"open", "refused"}
    /\ UNCHANGED <<req, client, at, lease, handle, outcome, releasing, reading, buffer, stream,
                   visible, excuse>>

WorkerLost ==
    /\ worker \in {"opening", "open"} /\ handle.lost /\ ~Socket
    /\ worker' = "closing"
    /\ UNCHANGED <<req, client, at, lease, handle, outcome, releasing, reading, buffer, stream,
                   visible, excuse>>

WorkerCloses ==
    /\ worker = "closing"
    /\ worker' = "closed"
    /\ UNCHANGED <<req, client, at, lease, handle, outcome, releasing, reading, buffer, stream,
                   visible, excuse>>

\* An exception leaves the part of the stream that owns the upstream.
Unwind(why) ==
    /\ at' = "close" /\ outcome' = why
    /\ StopUpstream
    /\ IF Plain /\ why = "cancelled" THEN SampleUnlessTold("cancelled") ELSE UNCHANGED samples

\* The status is looked at; nobody waits for headers longer than the first-frame deadline,
\* which /responses and the socket do not have.
Open ==
    /\ at = "open"
    /\ \/ /\ worker = "open"
          /\ at' = "body" /\ reading' = TRUE
          /\ UNCHANGED <<worker, buffer, outcome, samples>>
       \/ worker = "open" /\ Unwind("failed")
       \/ worker \in {"refused", "closed"} /\ Unwind("failed")
       \/ Plain /\ worker = "opening" /\ Unwind("failed")
    /\ UNCHANGED <<req, client, lease, handle, releasing, stream, events, stored, excuse>>

ReadLineUnbounded ==
    /\ reading /\ ~handle.lost
    /\ \/ /\ stream.read < MaxLines
          /\ stream' = [stream EXCEPT !.read = @ + 1]
          /\ buffer' = Append(buffer, <<"line", stream'.read>>) /\ UNCHANGED reading
       \/ \E ending \in {"marker", "eof", "error"} :
             buffer' = Append(buffer, <<ending, 0>>) /\ reading' = FALSE /\ UNCHANGED stream
    /\ UNCHANGED <<req, client, at, lease, handle, outcome, releasing, worker, visible, excuse>>

ReadLineForgetsEnd ==
    /\ reading /\ Len(buffer) < Depth /\ ~handle.lost
    /\ \/ /\ stream.read < MaxLines
          /\ stream' = [stream EXCEPT !.read = @ + 1]
          /\ buffer' = Append(buffer, <<"line", stream'.read>>) /\ UNCHANGED reading
       \/ reading' = FALSE /\ UNCHANGED <<buffer, stream>>
    /\ UNCHANGED <<req, client, at, lease, handle, outcome, releasing, worker, visible, excuse>>

\* The reader gets the next line, an end without a marker, a broken connection or an error
\* chunk, or sees that the lease is lost.
ReadLine ==
    /\ reading /\ Len(buffer) < Depth /\ ~handle.lost
    /\ \/ /\ stream.read < MaxLines
          /\ stream' = [stream EXCEPT !.read = @ + 1]
          /\ buffer' = Append(buffer, <<"line", stream'.read>>) /\ UNCHANGED reading
       \/ \E ending \in {"marker", "eof", "error"} :
             buffer' = Append(buffer, <<ending, 0>>) /\ reading' = FALSE /\ UNCHANGED stream
    /\ UNCHANGED <<req, client, at, lease, handle, outcome, releasing, worker, visible, excuse>>

\* The guard of the read: an error if the lease is lost, in a turn of the socket a
\* cancellation if only the client is.
ReadLost ==
    /\ reading /\ Len(buffer) < Depth
    /\ \/ handle.lost /\ buffer' = Append(buffer, <<"error", 0>>)
       \/ ~handle.lost /\ Socket /\ ~client /\ buffer' = Append(buffer, <<"gone", 0>>)
    /\ reading' = FALSE
    /\ UNCHANGED <<req, client, at, lease, handle, outcome, releasing, worker, stream, visible, excuse>>

\* Taking a data line, its frames go to the client; the socket notices if it is gone.
TakeLine ==
    /\ at = "body" /\ buffer # <<>> /\ Kind(Head(buffer)) = "line"
    /\ stream' = [stream EXCEPT !.taken = Append(@, Head(buffer)[2])]
    /\ \/ /\ buffer' = Tail(buffer)
          /\ UNCHANGED <<at, outcome, worker, reading, samples>>
       \/ Socket /\ ~client /\ Unwind("failed")
    /\ UNCHANGED <<req, client, lease, handle, releasing, events, stored, excuse>>

TakeEndAnyEnd ==
    /\ at = "body" /\ buffer # <<>> /\ Kind(Head(buffer)) \in Endings
    /\ LET why == CASE Kind(Head(buffer)) \in {"marker", "eof"} -> "completed"
                    [] Kind(Head(buffer)) = "error"  -> "failed"
                    [] Kind(Head(buffer)) = "gone"   -> "cancelled"
       IN  Unwind(why) /\ stream' = [stream EXCEPT !.marker = Kind(Head(buffer)) = "marker"]
    /\ UNCHANGED <<req, client, lease, handle, releasing, events, stored, excuse>>

\* The end of the lines: only the marker makes it a success.
TakeEnd ==
    /\ at = "body" /\ buffer # <<>> /\ Kind(Head(buffer)) \in Endings
    /\ LET why == CASE Kind(Head(buffer)) = "marker" -> "completed"
                    [] Kind(Head(buffer)) \in {"eof", "error"} -> "failed"
                    [] Kind(Head(buffer)) = "gone"   -> "cancelled"
       IN  Unwind(why) /\ stream' = [stream EXCEPT !.marker = Kind(Head(buffer)) = "marker"]
    /\ UNCHANGED <<req, client, lease, handle, releasing, events, stored, excuse>>

\* Nothing to take for a while: a comment is sent, and the read goes on.
KeepAlive ==
    /\ at = "body" /\ ~Socket /\ stream.beats < MaxBeats
    /\ stream' = [stream EXCEPT !.beats = @ + 1]
    /\ UNCHANGED <<req, client, at, lease, handle, outcome, releasing, worker, reading, buffer,
                   visible, excuse>>

\* lines_with_keepalive: no data line by the deadline.
FirstFrameDeadline ==
    /\ at = "body" /\ Plain /\ stream.taken = <<>> /\ buffer = <<>>
    /\ Unwind("failed")
    /\ UNCHANGED <<req, client, lease, handle, releasing, stream, events, stored, excuse>>

ClosedOKEarly ==
    /\ at = "close" /\ outcome = "completed"
    /\ Sample("success")
    /\ releasing' = releasing \union {"completed"}
    /\ handle' = [handle EXCEPT !.held = FALSE, !.watch = FALSE]
    /\ at' = "final"
    /\ UNCHANGED <<req, client, lease, outcome, upstream, events, stored, excuse>>

\* The holder has ended.
ClosedOK ==
    /\ at = "close" /\ outcome = "completed" /\ worker \in {"closed", "refused"}
    /\ Sample("success")
    /\ IF req.route \in {"chat", "responses"}
       THEN /\ releasing' = releasing \union {"completed"}
            /\ handle' = [handle EXCEPT !.held = FALSE, !.watch = FALSE]
            /\ at' = "final"
       ELSE /\ at' = "settle"
            /\ releasing' = releasing \union {"completed"}
            /\ handle' = [handle EXCEPT !.watch = FALSE]
    /\ UNCHANGED <<req, client, lease, outcome, upstream, events, stored, excuse>>

FailKeepsOutcome ==
    /\ SampleUnlessTold("error")
    /\ events' = Append(events, IF Plain THEN "error" ELSE "failed")
    /\ ReleaseWith("completed")

\* The except clauses. Plain streams send an error, /responses a response.failed which it
\* also stores, as the socket does without storing.
Fail ==
    /\ SampleUnlessTold("error")
    /\ events' = Append(events, IF Plain THEN "error" ELSE "failed")
    /\ IF Responses /\ req.store THEN at' = "store" /\ outcome' = "failed"
       ELSE IF Responses /\ ~handle.held THEN at' = "done" /\ outcome' = "failed"
       ELSE ReleaseWith("failed")

\* The holder of /responses raises that the lease was lost, after the last line.
ClosedLost ==
    /\ at = "close" /\ outcome = "completed" /\ worker = "closed"
    /\ Responses /\ handle.lost
    /\ Fail
    /\ UNCHANGED <<req, client, lease, handle, releasing, upstream, stored, excuse>>

ClosedFailed ==
    /\ at = "close" /\ outcome = "failed" /\ worker \notin {"opening", "open", "closing"}
    /\ Fail
    /\ UNCHANGED <<req, client, lease, handle, releasing, upstream, stored, excuse>>

ClosedCancelled ==
    /\ at = "close" /\ outcome = "cancelled" /\ worker \notin {"opening", "open", "closing"}
    /\ SampleUnlessTold("cancelled") /\ ReleaseWith("cancelled")
    /\ UNCHANGED <<req, client, lease, handle, releasing, upstream, events, stored, excuse>>

\* completions and the socket wait for the row.
Settle ==
    /\ at = "settle" /\ "completed" \notin releasing
    /\ handle' = [handle EXCEPT !.held = FALSE]
    /\ at' = "final"
    /\ UNCHANGED <<req, client, lease, outcome, releasing, upstream, visible, excuse>>

\* What remains of the items, and the terminal frame; building it may fail.
Final ==
    /\ at = "final"
    /\ \/ /\ Plain /\ events' = Append(events, "done") /\ at' = "over"
          /\ UNCHANGED <<outcome, samples>>
       \/ /\ ~Plain /\ events' = Append(events, "completed")
          /\ at' = IF req.store THEN "store" ELSE IF Socket THEN "over" ELSE "done"
          /\ UNCHANGED <<outcome, samples>>
       \/ Fail
    /\ UNCHANGED <<req, client, lease, handle, releasing, upstream, stored, excuse>>

StoreAlwaysCompleted ==
    /\ at = "store" /\ (req.stream => "completed" \notin releasing)
    /\ stored' = "completed"
    /\ IF handle.held THEN ReleaseWith(outcome)
       ELSE at' = (IF Responses THEN "done" ELSE "over") /\ UNCHANGED outcome
    /\ UNCHANGED <<req, client, lease, handle, releasing, upstream, samples, events, excuse>>

\* _persist_response: after the lease is released, if there was a success. A failure to
\* store that is a failure of the response; a failure to store a failure leaves the handler.
Store ==
    /\ at = "store" /\ (req.stream => "completed" \notin releasing)
    /\ \/ /\ stored' = outcome
          /\ IF handle.held THEN ReleaseWith(outcome)
             ELSE at' = (IF Responses THEN "done" ELSE "over") /\ UNCHANGED outcome
          /\ UNCHANGED <<samples, events, excuse>>
       \/ /\ req.stream /\ outcome = "completed"
          /\ Fail /\ UNCHANGED <<stored, excuse>>
       \/ /\ ~req.stream \/ outcome = "failed"
          /\ ReleaseWith(outcome) /\ excuse' = "cut"
          /\ UNCHANGED <<samples, events, stored>>
    /\ UNCHANGED <<req, client, lease, handle, releasing, upstream>>

\* The marker of /responses.
Done ==
    /\ at = "done"
    /\ events' = Append(events, "done") /\ at' = "over"
    /\ UNCHANGED <<req, client, lease, handle, outcome, releasing, upstream, samples, stored, excuse>>

-------------------------------------------------------------------------------
(* Releases, disconnects and cancellations *)

\* release(): what did not complete is cancelled at the agent first, which is not modelled;
\* then the renewal and the disconnect monitor are stopped and the row is written, by a task.
Release ==
    /\ at = "release"
    /\ at' = "releasing" /\ releasing' = releasing \union {outcome}
    /\ handle' = [handle EXCEPT !.watch = FALSE]
    /\ UNCHANGED <<req, client, lease, outcome, upstream, visible, excuse>>

WriteRow(o) ==
    /\ o \in releasing
    /\ releasing' = releasing \ {o}
    /\ lease' = IF lease = "active" THEN o ELSE lease
    /\ UNCHANGED <<req, client, at, handle, outcome, upstream, visible, excuse>>

\* After it: a response without a stream is stored, one that failed ends its stream.
Released ==
    /\ at = "releasing" /\ outcome \notin releasing
    /\ handle' = [handle EXCEPT !.held = FALSE]
    /\ at' = IF Responses /\ outcome = "failed" /\ excuse = "none" THEN "done"
             ELSE IF ~req.stream /\ req.route = "responses" /\ req.store /\ outcome = "completed"
             THEN "store" ELSE "over"
    /\ UNCHANGED <<req, client, lease, outcome, releasing, upstream, visible, excuse>>

Disconnect ==
    /\ client /\ at # "over"
    /\ client' = FALSE
    /\ UNCHANGED <<req, at, lease, handle, outcome, releasing, upstream, visible, excuse>>

\* _disconnect_loop
Monitor ==
    /\ handle.watch /\ ~client
    /\ handle' = [handle EXCEPT !.lost = TRUE, !.watch = FALSE]
    /\ lease' = IF lease = "active" THEN "cancelled" ELSE lease
    /\ UNCHANGED <<req, client, at, outcome, releasing, upstream, visible, excuse>>

\* The renewal finds the row ended, or cannot renew it in time.
LoseLease ==
    /\ handle.watch /\ ~handle.lost /\ lease = "active"
    /\ handle' = [handle EXCEPT !.lost = TRUE]
    /\ lease' \in {"active", "ended"}
    /\ UNCHANGED <<req, client, at, outcome, releasing, upstream, visible, excuse>>

\* A client that is gone has the generator cancelled at whatever it waits for, or closed at
\* whatever it yields, and again while it cleans up: a wait for the holder or for the row is
\* left, and both go on by themselves.
Cancel ==
    /\ Generator /\ ~client
    /\ \/ /\ at = "response" /\ at' = "over" /\ excuse' = "unstarted"
          /\ UNCHANGED <<outcome, worker, reading, buffer, samples>>
       \/ /\ at = "created"
          /\ Sample("cancelled") /\ ReleaseWith("cancelled")
          /\ UNCHANGED <<worker, reading, buffer, excuse>>
       \/ /\ at \in {"ready", "open", "body"}
          /\ Unwind("cancelled") /\ UNCHANGED excuse
       \/ /\ at \in {"final", "done"} /\ at' = "over"
          /\ UNCHANGED <<outcome, worker, reading, buffer, samples, excuse>>
    /\ UNCHANGED <<req, client, lease, handle, releasing, stream, events, stored>>

CancelAgain ==
    /\ Generator /\ ~client
    /\ excuse' = "cut"
    /\ \/ /\ at = "close"
          /\ IF Plain /\ outcome = "cancelled"
             THEN at' = "over" /\ UNCHANGED <<outcome, samples>>
             ELSE IF Plain /\ outcome = "failed"
             THEN ReleaseWith("failed") /\ UNCHANGED samples
             ELSE SampleUnlessTold("cancelled") /\ ReleaseWith("cancelled")
          /\ UNCHANGED stored
       \/ /\ at = "settle"
          /\ ReleaseWith("cancelled") /\ UNCHANGED <<samples, stored>>
       \/ /\ at = "store"
          /\ stored' = IF "completed" \in releasing THEN stored ELSE outcome
          /\ ReleaseWith(outcome) /\ UNCHANGED samples
       \/ /\ at = "store"
          /\ ReleaseWith(outcome) /\ UNCHANGED <<samples, stored>>
       \/ /\ at = "releasing" \/ (at = "release" /\ outcome # "completed")
          /\ at' = "over" /\ UNCHANGED <<outcome, samples, stored>>
    /\ UNCHANGED <<req, client, lease, handle, releasing, upstream, events>>

-------------------------------------------------------------------------------
Handler ==
    \/ Resolve \/ ResolveFails \/ Acquire \/ Policy
    \/ Call \/ CallFails \/ Build \/ BuildFails \/ Compact
    \/ StartBody \/ Created \/ Ready \/ Open
    \/ TakeLine \/ TakeEnd \/ FirstFrameDeadline
    \/ ClosedOK \/ ClosedLost \/ ClosedFailed \/ ClosedCancelled
    \/ Settle \/ Final \/ Store \/ Done \/ Release \/ Released

Upstream == Headers \/ WorkerLost \/ WorkerCloses \/ ReadLine \/ ReadLost

RequestsNext ==
    \/ Handler \/ KeepAlive \/ Cancel \/ CancelAgain
    \/ Upstream
    \/ \E o \in Outcomes : WriteRow(o)
    \/ Monitor \/ LoseLease \/ Disconnect

RequestsSpec == RequestsInit /\ [][RequestsNext]_rvars

\* Waits are bounded: admission and calls by their timeouts, a read by the client's 300 s;
\* tasks run. A generator that nobody starts or resumes any more is one of a client that is
\* gone, which is cancelled.
RequestsFairness ==
    /\ WF_rvars(Handler) /\ WF_rvars(Cancel)
    /\ WF_rvars(Headers \/ WorkerLost) /\ WF_rvars(WorkerCloses) /\ WF_rvars(ReadLine \/ ReadLost)
    /\ WF_rvars(\E o \in Outcomes : WriteRow(o)) /\ WF_rvars(Monitor)

-------------------------------------------------------------------------------
(* Properties *)

\* A request that got its lease leaves exactly one sample, however it ends; only refusals,
\* streams nobody started and interrupted clean-ups leave none.
SampledOnce ==
    /\ Len(samples) <= 1
    /\ at = "over" /\ lease # "none" /\ excuse = "none" /\ req.route # "compact"
          => Len(samples) = 1

\* The row says completed only of what was recorded as a success, and failed of nothing that
\* was. (A turn of the socket that is refused its reasoning effort is released as completed.)
OutcomeMatchesSample ==
    /\ lease = "completed" => \/ samples = <<"success">> \/ req.route = "compact"
                              \/ Socket /\ excuse = "refused"
    /\ lease = "failed" => samples # <<"success">>

\* No lease is released while its upstream response is still open, unless the handler was
\* cancelled while it closed it; none at all as completed.
ReleasedAfterUpstream ==
    /\ releasing # {} /\ excuse # "cut" => worker \notin {"opening", "open", "closing"}
    /\ "completed" \in releasing => worker \notin {"opening", "open", "closing"}

\* The lines arrive in order and, when the stream is a success, all of them up to the marker.
LinesArrive ==
    /\ stream.taken = [i \in 1 .. Len(stream.taken) |-> i]
    /\ req.stream /\ samples = <<"success">> => stream.marker /\ Len(stream.taken) = stream.read

\* The last outcome among the frames a client was told; error events and markers are none.
LastOutcome(told, o) ==
    \E i \in DOMAIN told :
        told[i] = o /\ \A j \in DOMAIN told : j > i => told[j] \notin Outcomes

\* The record agrees with the last thing the client was told.
StoredIsLastWord == req.stream /\ stored # "none" => LastOutcome(events, stored)

\* Every row that became active ends, and so does every handler that resolved its target.
RowEnds == lease = "active" ~> lease # "active"
HandlerEnds == at \notin {"resolve", "over"} ~> at = "over"
===============================================================================
