----------------------- MODULE InferenceRequests_proofs -----------------------
(***************************************************************************)
(* Theorems of InferenceRequests, for any kinds of request and any bounds  *)
(* on the lines of a stream: its types; that a request leaves one sample;  *)
(* that its row, its record and its upstream response agree with it; and   *)
(* that the lines of a stream arrive.  The inductive invariant is FullInv. *)
(***************************************************************************)
EXTENDS InferenceRequests, TLAPS

-------------------------------------------------------------------------------
(* The inductive invariant *)

\* What a sample says.
Statuses == {"success", "error", "cancelled"}

\* InferenceLeaseHandle, and what is kept of a stream.
Handles == [held : BOOLEAN, lost : BOOLEAN, watch : BOOLEAN]
Streams == [read : 0 .. MaxLines, taken : Seq(1 .. MaxLines), beats : 0 .. MaxBeats,
            marker : BOOLEAN]

\* The types, in three parts: the handler and its lease; the reader of the upstream; what is
\* told. A history of samples is at most one long.
ControlTypes ==
    /\ req \in Requests
    /\ client \in BOOLEAN /\ at \in Stages
    /\ lease \in {"none", "active", "ended"} \union Outcomes
    /\ handle \in Handles
    /\ outcome \in {"none"} \union Outcomes
    /\ releasing \subseteq Outcomes
    /\ worker \in {"none", "opening", "open", "refused", "closing", "closed"}
    /\ excuse \in Excuses
    /\ stored \in {"none"} \union Outcomes

ReaderTypes ==
    /\ reading \in BOOLEAN
    /\ buffer \in Seq(Items) /\ Len(buffer) <= 2
    /\ stream \in Streams

ToldTypes ==
    /\ samples = <<>> \/ \E s \in Statuses : samples = <<s>>
    /\ events \in Seq(Outcomes \union {"error", "done"})

\* The stages before the upstream is called, and those before anything is recorded.
Unopened == {"resolve", "acquire", "policy", "call", "build", "response", "created", "ready"}
Untold == Unopened \union {"open", "body"}
AtEnd == {"release", "releasing", "over"}

\* Nothing is released, stored or excused yet.
Pristine ==
    /\ releasing = {} /\ lease \notin {"completed", "failed"}
    /\ stored = "none" /\ excuse = "none"

\* The upstream response is not open.
Settled == worker \in {"none", "refused", "closed"}

\* What "completed" may be said of.
Succeeded ==
    samples = <<"success">> \/ req.route = "compact" \/ (Socket /\ excuse = "refused")

\* Which requests come to a stage.
RouteInv ==
    /\ Socket => req.stream
    /\ at = "policy" => req.route \in {"chat", "responses"}
    /\ at \in {"call", "build"} => ~req.stream
    /\ at \in {"response", "ready"} => Generator
    /\ at = "created" => Responses \/ Socket
    /\ at \in {"open", "body", "close", "settle", "final", "done"} => req.stream
    /\ at = "store" /\ req.stream => Responses \/ Socket
    /\ at = "build" => req.route # "compact"

\* Nothing is recorded before the upstream is closed, but for a plain stream that is cancelled.
EarlyInv ==
    /\ at \in {"resolve", "acquire"} => lease = "none" /\ ~handle.held /\ ~handle.watch
    /\ at \in Untold \union {"close"} => Pristine
    /\ at \in Untold => samples = <<>>
    /\ at = "close" => IF Plain /\ outcome = "cancelled" THEN samples = <<"cancelled">>
                       ELSE samples = <<>> /\ outcome # "none"

\* What is recorded while the last frames are sent, and the response is stored.
MiddleInv ==
    /\ at \in {"settle", "final"} =>
          /\ outcome = "completed" /\ samples = <<"success">>
          /\ stored = "none" /\ excuse = "none"
    /\ at = "final" => ~handle.held
    /\ at = "store" =>
          /\ stored = "none" /\ excuse = "none" /\ samples # <<>>
          /\ IF outcome = "completed" THEN samples = <<"success">> /\ ~handle.held
             ELSE outcome = "failed" /\ req.stream /\ (handle.held => samples # <<"success">>)

\* What is recorded when the lease is released, and after.
LateInv ==
    /\ at \in {"release", "releasing"} =>
          /\ outcome # "none"
          /\ outcome = "completed" => Succeeded
          /\ outcome = "failed" => samples # <<"success">>
          /\ ~req.stream => stored = "none" /\ (excuse = "none" \/ outcome = "failed")
    /\ at = "done" => samples # <<>> /\ excuse = "none"
    /\ (at \in AtEnd /\ (at = "over" => lease # "none") /\ excuse = "none" /\ req.route # "compact")
          => samples # <<>>

\* What is being released, or was, agrees with what was recorded.
RowInv ==
    /\ lease = "completed" \/ "completed" \in releasing => Succeeded
    /\ lease = "failed" \/ "failed" \in releasing => samples # <<"success">>

\* Where the upstream response is.
WorkInv ==
    /\ at \in Unopened => worker = "none"
    /\ at \in {"settle", "final", "store", "done"} => Settled
    /\ at \in AtEnd /\ excuse # "cut" => Settled
    /\ (at \in {"release", "releasing"} /\ outcome = "completed") => Settled
    /\ "completed" \in releasing => Settled

\* The queue q follows n lines taken, of those read: lines in order, then the end, if it was
\* read.
Follows(q, n, read) ==
    \A i \in 1 .. Len(q) :
        \/ q[i] = <<"line", n + i>>
        \/ Kind(q[i]) \in Endings /\ i = Len(q) /\ n + i = read + 1

\* The queue q has no end in it.
OnlyLines(q) == \A i \in 1 .. Len(q) : Kind(q[i]) = "line"

\* The lines read and not taken follow those taken, and the end of the stream follows them.
LineInv ==
    /\ stream.taken = [i \in 1 .. Len(stream.taken) |-> i]
    /\ at \in Unopened \union {"open"} =>
          ~reading /\ buffer = <<>> /\ stream.read = 0 /\ stream.taken = <<>>
    /\ reading => at = "body" /\ OnlyLines(buffer) /\ Len(stream.taken) + Len(buffer) = stream.read
    /\ Follows(buffer, Len(stream.taken), stream.read)

\* A success has taken all that was read, up to the marker.
MarkerInv ==
    ((at = "close" /\ outcome = "completed") \/ (req.stream /\ samples = <<"success">>))
        => stream.marker /\ Len(stream.taken) = stream.read

\* The record, and what a handler is about to record, is what the client heard last.
WordInv ==
    /\ (req.stream /\ at = "store") => LastOutcome(events, outcome)
    /\ (req.stream /\ stored # "none") =>
          LastOutcome(events, stored) /\ at \in {"done"} \union AtEnd

\* The inductive invariant.
FullInv ==
    /\ ControlTypes /\ ReaderTypes /\ ToldTypes
    /\ RouteInv /\ EarlyInv /\ MiddleInv /\ LateInv /\ RowInv /\ WorkInv /\ LineInv /\ MarkerInv
    /\ WordInv

\* The parts of the types say at least what RequestsTypeOK says.
LEMMA TypeParts == ControlTypes /\ ReaderTypes /\ ToldTypes => RequestsTypeOK
<1>1. ToldTypes => samples \in Seq({"success", "error", "cancelled"})
  <2>1. SUFFICES ASSUME samples = <<>> \/ \E s \in Statuses : samples = <<s>>
                 PROVE  samples \in Seq(Statuses)
    BY DEF ToldTypes, Statuses
  <2>2. CASE samples = <<>>
    BY <2>2
  <2>3. ASSUME NEW s \in Statuses, samples = <<s>> PROVE samples \in Seq(Statuses)
    BY <2>3
  <2> QED
    BY <2>1, <2>2, <2>3
<1> QED
  BY <1>1 DEF ControlTypes, ReaderTypes, ToldTypes, RequestsTypeOK, Handles, Streams

-------------------------------------------------------------------------------
(* What the steps have in common *)

\* The first sample of a request is its history.
LEMMA FirstSample ==
    ASSUME NEW s, samples = <<>>, Sample(s)
    PROVE  samples' = <<s>>
BY DEF Sample

\* A sample is recorded only if there was none.
LEMMA NewSampleUnlessTold ==
    ASSUME NEW s, SampleUnlessTold(s)
    PROVE  IF samples = <<>> THEN samples' = <<s>> ELSE samples' = samples
BY FirstSample DEF SampleUnlessTold, Told

\* Whatever fails is told, and goes to the store, the last marker or the release.
LEMMA FailIsTold ==
    ASSUME Fail
    PROVE  /\ IF samples = <<>> THEN samples' = <<"error">> ELSE samples' = samples
           /\ samples' # <<>>
           /\ outcome' = "failed"
           /\ at' \in {"store", "done", "release", "over"}
           /\ at' \in {"store", "done"} => Responses
           /\ at' = "release" => handle.held
<1>1. SampleUnlessTold("error")
  BY DEF Fail
<1>2. IF samples = <<>> THEN samples' = <<"error">> ELSE samples' = samples
  BY <1>1, NewSampleUnlessTold
<1>3. samples' # <<>>
  BY <1>2
<1> QED
  BY <1>2, <1>3 DEF Fail, ReleaseWith

\* An exception that unwinds a stream is told at once only of a plain stream that is cancelled.
LEMMA UnwindIsTold ==
    ASSUME NEW why, Unwind(why), samples = <<>>
    PROVE  IF Plain /\ why = "cancelled" THEN samples' = <<"cancelled">> ELSE samples' = <<>>
BY NewSampleUnlessTold DEF Unwind

\* A sample is final, and the first one is a success only of a stream that closed well, or of
\* an answer that was built.
LEMMA SampleStep ==
    ASSUME EarlyInv, RequestsNext
    PROVE  \/ samples' = samples
           \/ samples = <<>> /\ \E s \in {"error", "cancelled"} : samples' = <<s>>
           \/ samples = <<>> /\ (ClosedOK \/ Build) /\ samples' = <<"success">>
<1> DEFINE Recorded == \/ samples' = samples
                       \/ samples = <<>> /\ \E s \in {"error", "cancelled"} : samples' = <<s>>
                       \/ samples = <<>> /\ (ClosedOK \/ Build) /\ samples' = <<"success">>
<1>1. CASE ResolveFails \/ Acquire \/ CallFails \/ BuildFails \/ Created
  <2>1. samples = <<>>
    BY <1>1 DEF EarlyInv, Untold, Unopened, ResolveFails, Acquire, CallFails, Called, BuildFails,
                Created
  <2>2. samples' = samples \/ Sample("error") \/ Sample("cancelled")
    BY <1>1 DEF ResolveFails, Acquire, CallFails, BuildFails, Created, visible
  <2> QED
    BY <2>1, <2>2, FirstSample
<1>2. CASE ClosedOK \/ Build
  <2>1. samples = <<>> /\ Sample("success")
    BY <1>2 DEF EarlyInv, Untold, Unopened, ClosedOK, Build
  <2> QED
    BY <1>2, <2>1, FirstSample
<1>3. CASE Open \/ TakeLine \/ TakeEnd \/ FirstFrameDeadline \/ Cancel
  <2>1. samples' = samples \/ Sample("cancelled") \/ \E why : Unwind(why)
    BY <1>3 DEF Open, TakeLine, TakeEnd, FirstFrameDeadline, Cancel
  <2>2. at \in Untold \/ samples' = samples
    BY <1>3 DEF Open, TakeLine, TakeEnd, FirstFrameDeadline, Cancel, Untold, Unopened
  <2> QED
    BY <2>1, <2>2, FirstSample, UnwindIsTold DEF EarlyInv
<1>4. CASE ClosedLost \/ ClosedFailed \/ Final \/ Store
  BY <1>4, FailIsTold DEF ClosedLost, ClosedFailed, Final, Store
<1>5. CASE ClosedCancelled \/ CancelAgain
  <2>1. samples' = samples \/ SampleUnlessTold("cancelled")
    BY <1>5 DEF ClosedCancelled, CancelAgain
  <2> QED
    BY <2>1, NewSampleUnlessTold
<1>6. CASE \/ Resolve \/ Policy \/ Call \/ Compact \/ StartBody \/ Ready \/ Settle \/ Done
           \/ Release \/ Released
  BY <1>6 DEF Resolve, Policy, Call, Compact, StartBody, Ready, Settle, Done, Release, Released,
              visible
<1>7. CASE KeepAlive \/ Upstream \/ (\E o \in Outcomes : WriteRow(o)) \/ Monitor \/ LoseLease
           \/ Disconnect
  BY <1>7 DEF KeepAlive, Upstream, Headers, WorkerLost, WorkerCloses, ReadLine, ReadLost,
              WriteRow, Monitor, LoseLease, Disconnect, visible
<1> QED
  BY <1>1, <1>2, <1>3, <1>4, <1>5, <1>6, <1>7 DEF RequestsNext, Handler

\* What the reader's variables are left with by a step: the reader, the handler that takes
\* from it, and whatever ends the stream; nothing else, and nothing else leaves the body.
LEMMA ReaderStep ==
    ASSUME RequestsNext
    PROVE  \/ Open \/ TakeLine \/ TakeEnd \/ FirstFrameDeadline \/ Cancel
           \/ KeepAlive \/ ReadLine \/ ReadLost
           \/ /\ UNCHANGED <<reading, buffer, stream>>
              /\ at = "body" => at' = "body"
              /\ at' = "body" => at = "body"
              /\ at' \in Unopened \union {"open"} => at \in Unopened \union {"open"}
<1> USE DEF upstream, visible, Unopened
<1>1. CASE \/ Resolve \/ ResolveFails \/ Acquire \/ Policy \/ Call \/ CallFails \/ Build
           \/ BuildFails \/ Compact \/ StartBody \/ Created \/ Ready
  BY <1>1 DEF Resolve, ResolveFails, Acquire, Policy, Call, CallFails, Called, Build, BuildFails,
              Compact, StartBody, Created, Ready, ReleaseWith
<1>2. CASE ClosedOK \/ ClosedLost \/ ClosedFailed \/ ClosedCancelled \/ Final \/ Store
  BY <1>2, FailIsTold DEF ClosedOK, ClosedLost, ClosedFailed, ClosedCancelled, Final, Store,
                          ReleaseWith
<1>3. CASE Settle \/ Done \/ Release \/ Released \/ CancelAgain
  BY <1>3 DEF Settle, Done, Release, Released, CancelAgain, ReleaseWith
<1>4. CASE Headers \/ WorkerLost \/ WorkerCloses
  BY <1>4 DEF Headers, WorkerLost, WorkerCloses
<1>5. CASE (\E o \in Outcomes : WriteRow(o)) \/ Monitor \/ LoseLease \/ Disconnect
  BY <1>5 DEF WriteRow, Monitor, LoseLease, Disconnect
<1> QED
  BY <1>1, <1>2, <1>3, <1>4, <1>5 DEF RequestsNext, Handler, Upstream

-------------------------------------------------------------------------------
(* What is recorded, action by action *)

\* Which requests come to a stage is kept.
LEMMA RouteInvStep == ASSUME FullInv, [RequestsNext]_rvars PROVE RouteInv'
<1> USE DEF FullInv, RouteInv, ControlTypes, Handles, Plain, Responses, Socket, Generator,
           upstream, visible
<1>1. CASE Resolve
  BY <1>1 DEF Resolve
<1>2. CASE ResolveFails
  BY <1>2 DEF ResolveFails
<1>3. CASE Acquire
  BY <1>3, RequestsAssumption DEF Acquire, Kinds, Buffered, Streamed
<1>4. CASE Policy
  BY <1>4 DEF Policy, ReleaseWith
<1>5. CASE Call
  BY <1>5 DEF Call, Called
<1>6. CASE CallFails
  BY <1>6 DEF CallFails, Called, ReleaseWith
<1>7. CASE Build
  BY <1>7 DEF Build, ReleaseWith
<1>8. CASE BuildFails
  BY <1>8 DEF BuildFails, ReleaseWith
<1>9. CASE Compact
  BY <1>9 DEF Compact, ReleaseWith
<1>10. CASE StartBody
  BY <1>10 DEF StartBody
<1>11. CASE Created
  BY <1>11, RequestsAssumption DEF Created, ReleaseWith, Kinds, Buffered, Streamed
<1>12. CASE Ready
  BY <1>12 DEF Ready
<1>13. CASE Open
  BY <1>13, UnwindIsTold DEF Open, Unwind, StopUpstream
<1>14. CASE TakeLine
  BY <1>14, UnwindIsTold DEF TakeLine, Unwind, StopUpstream
<1>15. CASE TakeEnd
  BY <1>15, UnwindIsTold DEF TakeEnd, Unwind, StopUpstream, Endings
<1>16. CASE FirstFrameDeadline
  BY <1>16, UnwindIsTold DEF FirstFrameDeadline, Unwind, StopUpstream
<1>17. CASE ClosedOK
  BY <1>17 DEF ClosedOK
<1>18. CASE ClosedLost
  BY <1>18, FailIsTold DEF ClosedLost
<1>19. CASE ClosedFailed
  BY <1>19, FailIsTold DEF ClosedFailed
<1>20. CASE ClosedCancelled
  BY <1>20 DEF ClosedCancelled, ReleaseWith
<1>21. CASE Settle
  BY <1>21 DEF Settle
<1>22. CASE Final
  <2>1. CASE Fail
    BY <1>22, <2>1, FailIsTold DEF Final
  <2>2. CASE ~Fail
    BY <1>22, <2>2, RequestsAssumption DEF Final, Kinds, Buffered, Streamed
  <2> QED
    BY <2>1, <2>2
<1>23. CASE Store
  BY <1>23, FailIsTold DEF Store, ReleaseWith
<1>24. CASE Done
  BY <1>24 DEF Done
<1>25. CASE Release
  BY <1>25 DEF Release
<1>26. CASE Released
  BY <1>26 DEF Released
<1>27. CASE KeepAlive
  BY <1>27 DEF KeepAlive
<1>28. CASE Cancel
  BY <1>28, UnwindIsTold DEF Cancel, Unwind, StopUpstream, ReleaseWith
<1>29. CASE CancelAgain
  BY <1>29 DEF CancelAgain, ReleaseWith
<1>30. CASE Headers
  BY <1>30 DEF Headers
<1>31. CASE WorkerLost
  BY <1>31 DEF WorkerLost
<1>32. CASE WorkerCloses
  BY <1>32 DEF WorkerCloses
<1>33. CASE ReadLine
  BY <1>33 DEF ReadLine
<1>34. CASE ReadLost
  BY <1>34 DEF ReadLost
<1>35. CASE Monitor
  BY <1>35 DEF Monitor
<1>36. CASE LoseLease
  BY <1>36 DEF LoseLease
<1>37. CASE Disconnect
  BY <1>37 DEF Disconnect
<1>38. ASSUME NEW o \in Outcomes, WriteRow(o) PROVE RouteInv'
  BY <1>38 DEF WriteRow
<1>39. CASE UNCHANGED rvars
  BY <1>39 DEF rvars
<1> QED
  BY <1>1, <1>2, <1>3, <1>4, <1>5, <1>6, <1>7, <1>8, <1>9, <1>10, <1>11, <1>12, <1>13, <1>14,
     <1>15, <1>16, <1>17, <1>18, <1>19, <1>20, <1>21, <1>22, <1>23, <1>24, <1>25, <1>26, <1>27,
     <1>28, <1>29, <1>30, <1>31, <1>32, <1>33, <1>34, <1>35, <1>36, <1>37, <1>38, <1>39 DEF
     RequestsNext, Handler, Upstream

\* Nothing is recorded early.
LEMMA EarlyInvStep == ASSUME FullInv, [RequestsNext]_rvars PROVE EarlyInv'
<1> USE DEF FullInv, EarlyInv, ControlTypes, Handles, Pristine, Untold, Unopened, Plain, Responses,
           Socket, Generator, upstream, visible
<1>1. CASE Resolve
  BY <1>1 DEF Resolve
<1>2. CASE ResolveFails
  BY <1>2 DEF ResolveFails
<1>3. CASE Acquire
  BY <1>3 DEF Acquire
<1>4. CASE Policy
  BY <1>4 DEF Policy, ReleaseWith
<1>5. CASE Call
  BY <1>5 DEF Call, Called
<1>6. CASE CallFails
  BY <1>6 DEF CallFails, Called, ReleaseWith
<1>7. CASE Build
  BY <1>7 DEF Build, ReleaseWith
<1>8. CASE BuildFails
  BY <1>8 DEF BuildFails, ReleaseWith
<1>9. CASE Compact
  BY <1>9 DEF Compact, ReleaseWith
<1>10. CASE StartBody
  BY <1>10 DEF StartBody
<1>11. CASE Created
  BY <1>11 DEF Created, ReleaseWith
<1>12. CASE Ready
  BY <1>12 DEF Ready
<1>13. CASE Open
  BY <1>13, UnwindIsTold DEF Open, Unwind, StopUpstream
<1>14. CASE TakeLine
  BY <1>14, UnwindIsTold DEF TakeLine, Unwind, StopUpstream
<1>15. CASE TakeEnd
  <2>1. PICK why \in Outcomes : Unwind(why)
    BY <1>15 DEF TakeEnd, Outcomes, Endings
  <2> QED
    BY <1>15, <2>1, UnwindIsTold DEF TakeEnd, Unwind, Outcomes
<1>16. CASE FirstFrameDeadline
  BY <1>16, UnwindIsTold DEF FirstFrameDeadline, Unwind, StopUpstream
<1>17. CASE ClosedOK
  BY <1>17 DEF ClosedOK
<1>18. CASE ClosedLost
  BY <1>18, FailIsTold DEF ClosedLost
<1>19. CASE ClosedFailed
  BY <1>19, FailIsTold DEF ClosedFailed
<1>20. CASE ClosedCancelled
  BY <1>20 DEF ClosedCancelled, ReleaseWith
<1>21. CASE Settle
  BY <1>21 DEF Settle
<1>22. CASE Final
  BY <1>22, FailIsTold DEF Final
<1>23. CASE Store
  BY <1>23, FailIsTold DEF Store, ReleaseWith
<1>24. CASE Done
  BY <1>24 DEF Done
<1>25. CASE Release
  BY <1>25 DEF Release
<1>26. CASE Released
  BY <1>26 DEF Released
<1>27. CASE KeepAlive
  BY <1>27 DEF KeepAlive
<1>28. CASE Cancel
  <2>1. CASE Unwind("cancelled")
    BY <1>28, <2>1, UnwindIsTold DEF Cancel, Unwind
  <2>2. CASE ~Unwind("cancelled")
    BY <1>28, <2>2 DEF Cancel, ReleaseWith
  <2> QED
    BY <2>1, <2>2
<1>29. CASE CancelAgain
  BY <1>29 DEF CancelAgain, ReleaseWith
<1>30. CASE Headers
  BY <1>30 DEF Headers
<1>31. CASE WorkerLost
  BY <1>31 DEF WorkerLost
<1>32. CASE WorkerCloses
  BY <1>32 DEF WorkerCloses
<1>33. CASE ReadLine
  BY <1>33 DEF ReadLine
<1>34. CASE ReadLost
  BY <1>34 DEF ReadLost
<1>35. CASE Monitor
  BY <1>35 DEF Monitor
<1>36. CASE LoseLease
  BY <1>36 DEF LoseLease
<1>37. CASE Disconnect
  BY <1>37 DEF Disconnect
<1>38. ASSUME NEW o \in Outcomes, WriteRow(o) PROVE EarlyInv'
  BY <1>38 DEF WriteRow
<1>39. CASE UNCHANGED rvars
  BY <1>39 DEF rvars
<1> QED
  BY <1>1, <1>2, <1>3, <1>4, <1>5, <1>6, <1>7, <1>8, <1>9, <1>10, <1>11, <1>12, <1>13, <1>14,
     <1>15, <1>16, <1>17, <1>18, <1>19, <1>20, <1>21, <1>22, <1>23, <1>24, <1>25, <1>26, <1>27,
     <1>28, <1>29, <1>30, <1>31, <1>32, <1>33, <1>34, <1>35, <1>36, <1>37, <1>38, <1>39 DEF
     RequestsNext, Handler, Upstream

\* What is recorded stays, while the last frames are sent.
LEMMA MiddleInvStep == ASSUME FullInv, [RequestsNext]_rvars PROVE MiddleInv'
<1> USE DEF FullInv, MiddleInv, EarlyInv, RouteInv, ControlTypes, Handles, Pristine, Untold,
           Unopened, Plain, Responses, Socket, Generator, upstream, visible
<1>1. CASE Resolve
  BY <1>1 DEF Resolve
<1>2. CASE ResolveFails
  BY <1>2 DEF ResolveFails
<1>3. CASE Acquire
  BY <1>3 DEF Acquire
<1>4. CASE Policy
  BY <1>4 DEF Policy, ReleaseWith
<1>5. CASE Call
  BY <1>5 DEF Call, Called
<1>6. CASE CallFails
  BY <1>6 DEF CallFails, Called, ReleaseWith
<1>7. CASE Build
  BY <1>7 DEF Build, ReleaseWith
<1>8. CASE BuildFails
  BY <1>8 DEF BuildFails, ReleaseWith
<1>9. CASE Compact
  BY <1>9 DEF Compact, ReleaseWith
<1>10. CASE StartBody
  BY <1>10 DEF StartBody
<1>11. CASE Created
  BY <1>11 DEF Created, ReleaseWith
<1>12. CASE Ready
  BY <1>12 DEF Ready
<1>13. CASE Open
  BY <1>13, UnwindIsTold DEF Open, Unwind, StopUpstream
<1>14. CASE TakeLine
  BY <1>14, UnwindIsTold DEF TakeLine, Unwind, StopUpstream
<1>15. CASE TakeEnd
  BY <1>15, UnwindIsTold DEF TakeEnd, Unwind, StopUpstream, Endings
<1>16. CASE FirstFrameDeadline
  BY <1>16, UnwindIsTold DEF FirstFrameDeadline, Unwind, StopUpstream
<1>17. CASE ClosedOK
  <2>1. samples' = <<"success">>
    BY <1>17, FirstSample DEF ClosedOK
  <2>2. at' = "settle" \/ (at' = "final" /\ ~handle'.held)
    BY <1>17 DEF ClosedOK
  <2> QED
    BY <1>17, <2>1, <2>2 DEF ClosedOK
<1>18. CASE ClosedLost
  BY <1>18, FailIsTold DEF ClosedLost
<1>19. CASE ClosedFailed
  BY <1>19, FailIsTold DEF ClosedFailed
<1>20. CASE ClosedCancelled
  BY <1>20 DEF ClosedCancelled, ReleaseWith
<1>21. CASE Settle
  BY <1>21 DEF Settle
<1>22. CASE Final
  <2>1. CASE Fail
    BY <1>22, <2>1, FailIsTold DEF Final
  <2>2. CASE UNCHANGED <<outcome, samples>>
    BY <1>22, <2>2 DEF Final
  <2> QED
    BY <1>22, <2>1, <2>2 DEF Final
<1>23. CASE Store
  BY <1>23, FailIsTold DEF Store, ReleaseWith
<1>24. CASE Done
  BY <1>24 DEF Done
<1>25. CASE Release
  BY <1>25 DEF Release
<1>26. CASE Released
  BY <1>26 DEF Released, LateInv, AtEnd, Succeeded
<1>27. CASE KeepAlive
  BY <1>27 DEF KeepAlive
<1>28. CASE Cancel
  BY <1>28, UnwindIsTold DEF Cancel, Unwind, StopUpstream, ReleaseWith
<1>29. CASE CancelAgain
  BY <1>29 DEF CancelAgain, ReleaseWith
<1>30. CASE Headers
  BY <1>30 DEF Headers
<1>31. CASE WorkerLost
  BY <1>31 DEF WorkerLost
<1>32. CASE WorkerCloses
  BY <1>32 DEF WorkerCloses
<1>33. CASE ReadLine
  BY <1>33 DEF ReadLine
<1>34. CASE ReadLost
  BY <1>34 DEF ReadLost
<1>35. CASE Monitor
  BY <1>35 DEF Monitor
<1>36. CASE LoseLease
  BY <1>36 DEF LoseLease
<1>37. CASE Disconnect
  BY <1>37 DEF Disconnect
<1>38. ASSUME NEW o \in Outcomes, WriteRow(o) PROVE MiddleInv'
  BY <1>38 DEF WriteRow
<1>39. CASE UNCHANGED rvars
  BY <1>39 DEF rvars
<1> QED
  BY <1>1, <1>2, <1>3, <1>4, <1>5, <1>6, <1>7, <1>8, <1>9, <1>10, <1>11, <1>12, <1>13, <1>14,
     <1>15, <1>16, <1>17, <1>18, <1>19, <1>20, <1>21, <1>22, <1>23, <1>24, <1>25, <1>26, <1>27,
     <1>28, <1>29, <1>30, <1>31, <1>32, <1>33, <1>34, <1>35, <1>36, <1>37, <1>38, <1>39 DEF
     RequestsNext, Handler, Upstream

\* What is recorded stays, when the lease is released and after.
LEMMA LateInvStep == ASSUME FullInv, [RequestsNext]_rvars PROVE LateInv'
<1> USE DEF FullInv, LateInv, MiddleInv, EarlyInv, RouteInv, ControlTypes, Handles, Pristine,
           Untold, Unopened, AtEnd, Succeeded, Plain, Responses, Socket, Generator, upstream,
           visible
<1>1. CASE Resolve
  BY <1>1 DEF Resolve
<1>2. CASE ResolveFails
  BY <1>2 DEF ResolveFails
<1>3. CASE Acquire
  BY <1>3 DEF Acquire
<1>4. CASE Policy
  BY <1>4 DEF Policy, ReleaseWith
<1>5. CASE Call
  BY <1>5 DEF Call, Called
<1>6. CASE CallFails
  <2>1. samples' = <<"error">>
    BY <1>6, FirstSample DEF CallFails, Called
  <2> QED
    BY <1>6, <2>1 DEF CallFails, Called, ReleaseWith
<1>7. CASE Build
  <2>1. samples' = <<"success">>
    BY <1>7, FirstSample DEF Build
  <2> QED
    BY <1>7, <2>1 DEF Build, ReleaseWith
<1>8. CASE BuildFails
  <2>1. samples' = <<"error">>
    BY <1>8, FirstSample DEF BuildFails
  <2> QED
    BY <1>8, <2>1 DEF BuildFails, ReleaseWith
<1>9. CASE Compact
  BY <1>9 DEF Compact, ReleaseWith
<1>10. CASE StartBody
  BY <1>10 DEF StartBody
<1>11. CASE Created
  <2>1. CASE Sample("error")
    <3>1. samples' = <<"error">>
      BY <1>11, <2>1, FirstSample DEF Created
    <3> QED
      BY <1>11, <2>1, <3>1 DEF Created, ReleaseWith
  <2>2. CASE at' \in {"ready", "open"}
    BY <1>11, <2>2 DEF Created
  <2>3. CASE ReleaseWith("completed") /\ excuse' = "refused" /\ Socket
    BY <1>11, <2>3 DEF Created, ReleaseWith
  <2> QED
    BY <1>11, <2>1, <2>2, <2>3 DEF Created
<1>12. CASE Ready
  BY <1>12 DEF Ready
<1>13. CASE Open
  BY <1>13, UnwindIsTold DEF Open, Unwind, StopUpstream
<1>14. CASE TakeLine
  BY <1>14, UnwindIsTold DEF TakeLine, Unwind, StopUpstream
<1>15. CASE TakeEnd
  BY <1>15, UnwindIsTold DEF TakeEnd, Unwind, StopUpstream, Endings
<1>16. CASE FirstFrameDeadline
  BY <1>16, UnwindIsTold DEF FirstFrameDeadline, Unwind, StopUpstream
<1>17. CASE ClosedOK
  BY <1>17 DEF ClosedOK
<1>18. CASE ClosedLost
  <2>1. samples' = <<"error">> /\ outcome' = "failed"
    BY <1>18, FailIsTold DEF ClosedLost
  <2> QED
    BY <1>18, <2>1, FailIsTold DEF ClosedLost
<1>19. CASE ClosedFailed
  <2>1. samples' = <<"error">> /\ outcome' = "failed"
    BY <1>19, FailIsTold DEF ClosedFailed
  <2> QED
    BY <1>19, <2>1, FailIsTold DEF ClosedFailed
<1>20. CASE ClosedCancelled
  <2>1. samples' # <<>> /\ samples' # <<"success">>
    BY <1>20, NewSampleUnlessTold DEF ClosedCancelled
  <2>2. outcome' = "cancelled" /\ at' \in {"release", "over"}
    BY <1>20 DEF ClosedCancelled, ReleaseWith
  <2> QED
    BY <1>20, <2>1, <2>2 DEF ClosedCancelled
<1>21. CASE Settle
  BY <1>21 DEF Settle
<1>22. CASE Final
  <2>1. CASE Fail
    BY <1>22, <2>1, FailIsTold DEF Final
  <2>2. CASE ~Fail
    BY <1>22, <2>2 DEF Final
  <2> QED
    BY <2>1, <2>2
<1>23. CASE Store
  BY <1>23, FailIsTold DEF Store, ReleaseWith
<1>24. CASE Done
  BY <1>24 DEF Done
<1>25. CASE Release
  BY <1>25 DEF Release
<1>26. CASE Released
  BY <1>26 DEF Released
<1>27. CASE KeepAlive
  BY <1>27 DEF KeepAlive
<1>28. CASE Cancel
  <2>1. CASE at = "created"
    <3>1. samples' = <<"cancelled">>
      BY <1>28, <2>1, FirstSample DEF Cancel
    <3> QED
      BY <1>28, <2>1, <3>1 DEF Cancel, ReleaseWith
  <2>2. CASE at # "created"
    BY <1>28, <2>2 DEF Cancel, Unwind
  <2> QED
    BY <2>1, <2>2
<1>29. CASE CancelAgain
  <2>1. CASE at = "close"
    <3>1. samples' = samples \/ SampleUnlessTold("cancelled")
      BY <1>29 DEF CancelAgain
    <3>2. samples' # <<"success">>
      BY <2>1, <3>1, NewSampleUnlessTold
    <3> QED
      BY <1>29, <2>1, <3>2 DEF CancelAgain, ReleaseWith
  <2>2. CASE at # "close"
    BY <1>29, <2>2 DEF CancelAgain, ReleaseWith
  <2> QED
    BY <2>1, <2>2
<1>30. CASE Headers
  BY <1>30 DEF Headers
<1>31. CASE WorkerLost
  BY <1>31 DEF WorkerLost
<1>32. CASE WorkerCloses
  BY <1>32 DEF WorkerCloses
<1>33. CASE ReadLine
  BY <1>33 DEF ReadLine
<1>34. CASE ReadLost
  BY <1>34 DEF ReadLost
<1>35. CASE Monitor
  BY <1>35 DEF Monitor
<1>36. CASE LoseLease
  BY <1>36 DEF LoseLease
<1>37. CASE Disconnect
  BY <1>37 DEF Disconnect
<1>38. ASSUME NEW o \in Outcomes, WriteRow(o) PROVE LateInv'
  BY <1>38 DEF WriteRow
<1>39. CASE UNCHANGED rvars
  BY <1>39 DEF rvars
<1> QED
  BY <1>1, <1>2, <1>3, <1>4, <1>5, <1>6, <1>7, <1>8, <1>9, <1>10, <1>11, <1>12, <1>13, <1>14,
     <1>15, <1>16, <1>17, <1>18, <1>19, <1>20, <1>21, <1>22, <1>23, <1>24, <1>25, <1>26, <1>27,
     <1>28, <1>29, <1>30, <1>31, <1>32, <1>33, <1>34, <1>35, <1>36, <1>37, <1>38, <1>39 DEF
     RequestsNext, Handler, Upstream

\* What is released agrees with what is recorded.
LEMMA RowInvStep == ASSUME FullInv, [RequestsNext]_rvars PROVE RowInv'
<1> USE DEF FullInv, RowInv, LateInv, MiddleInv, EarlyInv, Pristine, Untold, Unopened,
           ControlTypes, Handles, Succeeded, Plain, Responses, Socket, Generator, upstream,
           visible
<1>1. CASE Resolve
  BY <1>1 DEF Resolve
<1>2. CASE ResolveFails
  BY <1>2 DEF ResolveFails
<1>3. CASE Acquire
  BY <1>3 DEF Acquire
<1>4. CASE Policy
  BY <1>4 DEF Policy, ReleaseWith
<1>5. CASE Call
  BY <1>5 DEF Call, Called
<1>6. CASE CallFails
  BY <1>6 DEF CallFails, Called, ReleaseWith
<1>7. CASE Build
  BY <1>7 DEF Build, ReleaseWith
<1>8. CASE BuildFails
  BY <1>8 DEF BuildFails, ReleaseWith
<1>9. CASE Compact
  BY <1>9 DEF Compact, ReleaseWith
<1>10. CASE StartBody
  BY <1>10 DEF StartBody
<1>11. CASE Created
  BY <1>11 DEF Created, ReleaseWith
<1>12. CASE Ready
  BY <1>12 DEF Ready
<1>13. CASE Open
  BY <1>13, UnwindIsTold DEF Open, Unwind, StopUpstream
<1>14. CASE TakeLine
  BY <1>14, UnwindIsTold DEF TakeLine, Unwind, StopUpstream
<1>15. CASE TakeEnd
  BY <1>15, UnwindIsTold DEF TakeEnd, Unwind, StopUpstream, Endings
<1>16. CASE FirstFrameDeadline
  BY <1>16, UnwindIsTold DEF FirstFrameDeadline, Unwind, StopUpstream
<1>17. CASE ClosedOK
  <2>1. samples' = <<"success">>
    BY <1>17, FirstSample DEF ClosedOK
  <2> QED
    BY <1>17, <2>1 DEF ClosedOK
<1>18. CASE ClosedLost
  BY <1>18, FailIsTold DEF ClosedLost
<1>19. CASE ClosedFailed
  BY <1>19, FailIsTold DEF ClosedFailed
<1>20. CASE ClosedCancelled
  BY <1>20 DEF ClosedCancelled, ReleaseWith
<1>21. CASE Settle
  BY <1>21 DEF Settle
<1>22. CASE Final
  BY <1>22, FailIsTold DEF Final
<1>23. CASE Store
  BY <1>23, FailIsTold DEF Store, ReleaseWith
<1>24. CASE Done
  BY <1>24 DEF Done
<1>25. CASE Release
  BY <1>25 DEF Release
<1>26. CASE Released
  BY <1>26 DEF Released
<1>27. CASE KeepAlive
  BY <1>27 DEF KeepAlive
<1>28. CASE Cancel
  BY <1>28, UnwindIsTold DEF Cancel, Unwind, StopUpstream, ReleaseWith
<1>29. CASE CancelAgain
  BY <1>29 DEF CancelAgain, ReleaseWith
<1>30. CASE Headers
  BY <1>30 DEF Headers
<1>31. CASE WorkerLost
  BY <1>31 DEF WorkerLost
<1>32. CASE WorkerCloses
  BY <1>32 DEF WorkerCloses
<1>33. CASE ReadLine
  BY <1>33 DEF ReadLine
<1>34. CASE ReadLost
  BY <1>34 DEF ReadLost
<1>35. CASE Monitor
  BY <1>35 DEF Monitor
<1>36. CASE LoseLease
  BY <1>36 DEF LoseLease
<1>37. CASE Disconnect
  BY <1>37 DEF Disconnect
<1>38. ASSUME NEW o \in Outcomes, WriteRow(o) PROVE RowInv'
  BY <1>38 DEF WriteRow
<1>39. CASE UNCHANGED rvars
  BY <1>39 DEF rvars
<1> QED
  BY <1>1, <1>2, <1>3, <1>4, <1>5, <1>6, <1>7, <1>8, <1>9, <1>10, <1>11, <1>12, <1>13, <1>14,
     <1>15, <1>16, <1>17, <1>18, <1>19, <1>20, <1>21, <1>22, <1>23, <1>24, <1>25, <1>26, <1>27,
     <1>28, <1>29, <1>30, <1>31, <1>32, <1>33, <1>34, <1>35, <1>36, <1>37, <1>38, <1>39 DEF
     RequestsNext, Handler, Upstream

\* The upstream response is closed in time.
LEMMA WorkInvStep == ASSUME FullInv, [RequestsNext]_rvars PROVE WorkInv'
<1> USE DEF FullInv, WorkInv, RowInv, LateInv, MiddleInv, EarlyInv, Pristine, Untold, Unopened,
           AtEnd, Settled, ControlTypes, Handles, Succeeded, Plain, Responses, Socket,
           Generator, upstream, visible
<1>1. CASE Resolve
  BY <1>1 DEF Resolve
<1>2. CASE ResolveFails
  BY <1>2 DEF ResolveFails
<1>3. CASE Acquire
  BY <1>3 DEF Acquire
<1>4. CASE Policy
  BY <1>4 DEF Policy, ReleaseWith
<1>5. CASE Call
  BY <1>5 DEF Call, Called
<1>6. CASE CallFails
  BY <1>6 DEF CallFails, Called, ReleaseWith
<1>7. CASE Build
  BY <1>7 DEF Build, ReleaseWith
<1>8. CASE BuildFails
  BY <1>8 DEF BuildFails, ReleaseWith
<1>9. CASE Compact
  BY <1>9 DEF Compact, ReleaseWith
<1>10. CASE StartBody
  BY <1>10 DEF StartBody
<1>11. CASE Created
  BY <1>11 DEF Created, ReleaseWith
<1>12. CASE Ready
  BY <1>12 DEF Ready
<1>13. CASE Open
  BY <1>13, UnwindIsTold DEF Open, Unwind, StopUpstream
<1>14. CASE TakeLine
  BY <1>14, UnwindIsTold DEF TakeLine, Unwind, StopUpstream
<1>15. CASE TakeEnd
  BY <1>15, UnwindIsTold DEF TakeEnd, Unwind, StopUpstream, Endings
<1>16. CASE FirstFrameDeadline
  BY <1>16, UnwindIsTold DEF FirstFrameDeadline, Unwind, StopUpstream
<1>17. CASE ClosedOK
  BY <1>17 DEF ClosedOK
<1>18. CASE ClosedLost
  BY <1>18, FailIsTold DEF ClosedLost
<1>19. CASE ClosedFailed
  BY <1>19, FailIsTold DEF ClosedFailed
<1>20. CASE ClosedCancelled
  BY <1>20 DEF ClosedCancelled, ReleaseWith
<1>21. CASE Settle
  BY <1>21 DEF Settle
<1>22. CASE Final
  BY <1>22, FailIsTold DEF Final
<1>23. CASE Store
  BY <1>23, FailIsTold DEF Store, ReleaseWith
<1>24. CASE Done
  BY <1>24 DEF Done
<1>25. CASE Release
  BY <1>25 DEF Release
<1>26. CASE Released
  BY <1>26 DEF Released
<1>27. CASE KeepAlive
  BY <1>27 DEF KeepAlive
<1>28. CASE Cancel
  BY <1>28, UnwindIsTold DEF Cancel, Unwind, StopUpstream, ReleaseWith
<1>29. CASE CancelAgain
  BY <1>29 DEF CancelAgain, ReleaseWith
<1>30. CASE Headers
  BY <1>30 DEF Headers
<1>31. CASE WorkerLost
  BY <1>31 DEF WorkerLost
<1>32. CASE WorkerCloses
  BY <1>32 DEF WorkerCloses
<1>33. CASE ReadLine
  BY <1>33 DEF ReadLine
<1>34. CASE ReadLost
  BY <1>34 DEF ReadLost
<1>35. CASE Monitor
  BY <1>35 DEF Monitor
<1>36. CASE LoseLease
  BY <1>36 DEF LoseLease
<1>37. CASE Disconnect
  BY <1>37 DEF Disconnect
<1>38. ASSUME NEW o \in Outcomes, WriteRow(o) PROVE WorkInv'
  BY <1>38 DEF WriteRow
<1>39. CASE UNCHANGED rvars
  BY <1>39 DEF rvars
<1> QED
  BY <1>1, <1>2, <1>3, <1>4, <1>5, <1>6, <1>7, <1>8, <1>9, <1>10, <1>11, <1>12, <1>13, <1>14,
     <1>15, <1>16, <1>17, <1>18, <1>19, <1>20, <1>21, <1>22, <1>23, <1>24, <1>25, <1>26, <1>27,
     <1>28, <1>29, <1>30, <1>31, <1>32, <1>33, <1>34, <1>35, <1>36, <1>37, <1>38, <1>39 DEF
     RequestsNext, Handler, Upstream

-------------------------------------------------------------------------------
(* The handler and its lease *)

\* What a step makes of the handle is a handle.
LEMMA HandleUpdates ==
    ASSUME NEW h \in Handles
    PROVE  /\ [h EXCEPT !.held = FALSE] \in Handles
           /\ [h EXCEPT !.watch = FALSE] \in Handles
           /\ [h EXCEPT !.lost = TRUE] \in Handles
           /\ [h EXCEPT !.held = FALSE, !.watch = FALSE] \in Handles
           /\ [h EXCEPT !.lost = TRUE, !.watch = FALSE] \in Handles
           /\ [held |-> TRUE, lost |-> FALSE, watch |-> TRUE] \in Handles
BY DEF Handles

\* The types of the handler and its lease.
LEMMA ControlTypesStep == ASSUME FullInv, [RequestsNext]_rvars PROVE ControlTypes'
<1> USE DEF FullInv, ControlTypes, upstream, visible
<1>1. CASE Resolve
  BY <1>1 DEF Resolve, Stages, Unwinding, Outcomes, Excuses
<1>2. CASE ResolveFails
  BY <1>2 DEF ResolveFails, Stages, Unwinding, Outcomes, Excuses
<1>3. CASE Acquire
  BY <1>3, HandleUpdates DEF Acquire, Stages
<1>4. CASE Policy
  BY <1>4 DEF Policy, ReleaseWith, Stages, Unwinding, Outcomes, Excuses
<1>5. CASE Call
  BY <1>5 DEF Call, Called, Stages, Unwinding, Outcomes, Excuses
<1>6. CASE CallFails
  BY <1>6 DEF CallFails, Called, ReleaseWith, Stages, Unwinding, Outcomes, Excuses
<1>7. CASE Build
  BY <1>7 DEF Build, ReleaseWith, Stages, Unwinding, Outcomes, Excuses
<1>8. CASE BuildFails
  BY <1>8 DEF BuildFails, ReleaseWith, Stages, Unwinding, Outcomes, Excuses
<1>9. CASE Compact
  BY <1>9 DEF Compact, ReleaseWith, Stages, Unwinding, Outcomes, Excuses
<1>10. CASE StartBody
  BY <1>10 DEF StartBody, Stages, Unwinding, Outcomes, Excuses
<1>11. CASE Created
  BY <1>11 DEF Created, ReleaseWith, Stages, Unwinding, Outcomes, Excuses
<1>12. CASE Ready
  BY <1>12 DEF Ready, Stages, Unwinding, Outcomes, Excuses
<1>13. CASE Open
  BY <1>13, UnwindIsTold DEF Open, Unwind, StopUpstream, Stages, Unwinding, Outcomes, Excuses
<1>14. CASE TakeLine
  BY <1>14, UnwindIsTold DEF TakeLine, Unwind, StopUpstream, Stages, Unwinding, Outcomes,
     Excuses
<1>15. CASE TakeEnd
  BY <1>15, UnwindIsTold DEF TakeEnd, Unwind, StopUpstream, Endings, Stages, Unwinding,
     Outcomes, Excuses
<1>16. CASE FirstFrameDeadline
  BY <1>16, UnwindIsTold DEF FirstFrameDeadline, Unwind, StopUpstream, Stages, Unwinding,
     Outcomes, Excuses
<1>17. CASE ClosedOK
  BY <1>17, HandleUpdates DEF ClosedOK, Stages, Outcomes
<1>18. CASE ClosedLost
  BY <1>18, FailIsTold DEF ClosedLost, Stages, Unwinding, Outcomes, Excuses
<1>19. CASE ClosedFailed
  BY <1>19, FailIsTold DEF ClosedFailed, Stages, Unwinding, Outcomes, Excuses
<1>20. CASE ClosedCancelled
  BY <1>20 DEF ClosedCancelled, ReleaseWith, Stages, Unwinding, Outcomes, Excuses
<1>21. CASE Settle
  BY <1>21, HandleUpdates DEF Settle, Stages
<1>22. CASE Final
  BY <1>22, FailIsTold DEF Final, Stages, Unwinding, Outcomes, Excuses
<1>23. CASE Store
  BY <1>23, FailIsTold DEF Store, MiddleInv, ReleaseWith, Stages, Unwinding, Outcomes, Excuses
<1>24. CASE Done
  BY <1>24 DEF Done, Stages, Unwinding, Outcomes, Excuses
<1>25. CASE Release
  <2>1. outcome \in Outcomes
    BY <1>25 DEF Release, LateInv, Outcomes
  <2>2. handle' \in Handles
    BY <1>25, HandleUpdates DEF Release
  <2> QED
    BY <1>25, <2>1, <2>2 DEF Release, Stages, Unwinding
<1>26. CASE Released
  <2>1. handle' \in Handles
    BY <1>26, HandleUpdates DEF Released
  <2> QED
    BY <1>26, <2>1 DEF Released, Stages
<1>27. CASE KeepAlive
  BY <1>27 DEF KeepAlive
<1>28. CASE Cancel
  BY <1>28 DEF Cancel, Unwind, StopUpstream, ReleaseWith, Stages, Unwinding, Outcomes, Excuses
<1>29. CASE CancelAgain
  BY <1>29 DEF CancelAgain, EarlyInv, MiddleInv, LateInv, ReleaseWith, Stages, Unwinding, Outcomes,
              Excuses
<1>30. CASE Headers
  BY <1>30 DEF Headers
<1>31. CASE WorkerLost
  BY <1>31 DEF WorkerLost
<1>32. CASE WorkerCloses
  BY <1>32 DEF WorkerCloses
<1>33. CASE ReadLine
  BY <1>33 DEF ReadLine
<1>34. CASE ReadLost
  BY <1>34 DEF ReadLost
<1>35. CASE Monitor
  <2>1. handle' \in Handles
    BY <1>35, HandleUpdates DEF Monitor
  <2> QED
    BY <1>35, <2>1 DEF Monitor, Outcomes
<1>36. CASE LoseLease
  <2>1. handle' \in Handles
    BY <1>36, HandleUpdates DEF LoseLease
  <2> QED
    BY <1>36, <2>1 DEF LoseLease
<1>37. CASE Disconnect
  BY <1>37 DEF Disconnect
<1>38. ASSUME NEW o \in Outcomes, WriteRow(o) PROVE ControlTypes'
  BY <1>38 DEF WriteRow
<1>39. CASE UNCHANGED rvars
  BY <1>39 DEF rvars
<1> QED
  BY <1>1, <1>2, <1>3, <1>4, <1>5, <1>6, <1>7, <1>8, <1>9, <1>10, <1>11, <1>12, <1>13, <1>14,
     <1>15, <1>16, <1>17, <1>18, <1>19, <1>20, <1>21, <1>22, <1>23, <1>24, <1>25, <1>26, <1>27,
     <1>28, <1>29, <1>30, <1>31, <1>32, <1>33, <1>34, <1>35, <1>36, <1>37, <1>38, <1>39 DEF
     RequestsNext, Handler, Upstream

-------------------------------------------------------------------------------
(* The lines *)

\* What the queue of the reader holds, before and after it changes.
LEMMA Queue ==
    ASSUME NEW q \in Seq(Items)
    PROVE  /\ q # <<>> => /\ Head(q) \in Items /\ Head(q) = q[1] /\ Len(q) >= 1
                          /\ Tail(q) \in Seq(Items) /\ Len(Tail(q)) = Len(q) - 1
                          /\ \A i \in 1 .. Len(q) - 1 : Tail(q)[i] = q[i + 1]
           /\ \A item \in Items : /\ Append(q, item) \in Seq(Items)
                                  /\ Len(Append(q, item)) = Len(q) + 1
                                  /\ Append(q, item)[Len(q) + 1] = item
                                  /\ \A i \in 1 .. Len(q) : Append(q, item)[i] = q[i]
OBVIOUS

\* An empty queue is a queue.
LEMMA EmptyQueue == <<>> \in Seq(Items) /\ Len(<<>>) = 0
OBVIOUS

\* What an item is.
LEMMA ItemKinds ==
    /\ \A n \in 1 .. MaxLines : <<"line", n>> \in Items /\ Kind(<<"line", n>>) = "line"
    /\ \A e \in Endings : <<e, 0>> \in Items /\ Kind(<<e, 0>>) = e
    /\ \A i \in Items : /\ Kind(i) \in Endings \union {"line"}
                       /\ Kind(i) = "line" => i[2] \in 1 .. MaxLines
    /\ "line" \notin Endings
BY DEF Items, Kind, Endings

\* What a step makes of the stream is a stream.
LEMMA StreamUpdates ==
    ASSUME NEW s \in Streams
    PROVE  /\ \A n \in 0 .. MaxLines : [s EXCEPT !.read = n] \in Streams
           /\ \A n \in 1 .. MaxLines : [s EXCEPT !.taken = Append(s.taken, n)] \in Streams
           /\ \A n \in 0 .. MaxBeats : [s EXCEPT !.beats = n] \in Streams
           /\ [s EXCEPT !.marker = TRUE] \in Streams
           /\ [s EXCEPT !.marker = FALSE] \in Streams
<1>1. \A n \in 0 .. MaxLines : [s EXCEPT !.read = n] \in Streams
  BY DEF Streams
<1>2. ASSUME NEW n \in 1 .. MaxLines PROVE [s EXCEPT !.taken = Append(s.taken, n)] \in Streams
  <2>1. Append(s.taken, n) \in Seq(1 .. MaxLines)
    BY DEF Streams
  <2> QED
    BY <2>1 DEF Streams
<1>3. \A n \in 0 .. MaxBeats : [s EXCEPT !.beats = n] \in Streams
  BY DEF Streams
<1>4. [s EXCEPT !.marker = TRUE] \in Streams /\ [s EXCEPT !.marker = FALSE] \in Streams
  BY DEF Streams
<1> QED
  BY <1>1, <1>2, <1>3, <1>4

\* What a stream holds.
LEMMA StreamParts ==
    ASSUME NEW s \in Streams
    PROVE  /\ s.read \in Nat /\ s.read <= MaxLines /\ s.beats \in Nat /\ s.beats <= MaxBeats
           /\ s.taken \in Seq(1 .. MaxLines) /\ Len(s.taken) \in Nat
<1>1. s.read \in 0 .. MaxLines /\ s.beats \in 0 .. MaxBeats /\ s.taken \in Seq(1 .. MaxLines)
  BY DEF Streams
<1> QED
  BY <1>1, RequestsAssumption

\* What the reader adds to its queue.
LEMMA ReadLineAdds ==
    ASSUME ReadLine, stream \in Streams, buffer \in Seq(Items)
    PROVE  \/ /\ stream.read < MaxLines /\ stream' = [stream EXCEPT !.read = stream.read + 1]
              /\ buffer' = Append(buffer, <<"line", stream.read + 1>>)
              /\ UNCHANGED reading
           \/ /\ \E ending \in Endings : buffer' = Append(buffer, <<ending, 0>>)
              /\ reading' = FALSE /\ UNCHANGED stream
<1>1. CASE stream' = [stream EXCEPT !.read = @ + 1]
  BY <1>1 DEF ReadLine, Streams, Endings
<1>2. CASE (\E ending \in {"marker", "eof", "error"} : buffer' = Append(buffer, <<ending, 0>>))
           /\ reading' = FALSE /\ UNCHANGED stream
  BY <1>2 DEF Endings
<1> QED
  BY <1>1, <1>2 DEF ReadLine

\* What the end of a stream leaves: only the marker is remembered, and is a success.
LEMMA TakeEndLeaves ==
    ASSUME TakeEnd
    PROVE  /\ buffer' = <<>> /\ reading' = FALSE /\ at' = "close"
           /\ \/ /\ Kind(Head(buffer)) = "marker" /\ outcome' = "completed"
                 /\ stream' = [stream EXCEPT !.marker = TRUE]
              \/ /\ Kind(Head(buffer)) # "marker" /\ outcome' \in {"failed", "cancelled"}
                 /\ stream' = [stream EXCEPT !.marker = FALSE]
<1>1. buffer' = <<>> /\ reading' = FALSE /\ at' = "close"
  BY DEF TakeEnd, Unwind, StopUpstream
<1>2. CASE Kind(Head(buffer)) = "marker"
  <2>1. outcome' = "completed"
    BY <1>2 DEF TakeEnd, Unwind
  <2>2. stream' = [stream EXCEPT !.marker = TRUE]
    BY <1>2, Zenon DEF TakeEnd
  <2> QED
    BY <1>1, <1>2, <2>1, <2>2
<1>3. CASE Kind(Head(buffer)) # "marker"
  <2>1. outcome' \in {"failed", "cancelled"}
    BY <1>3 DEF TakeEnd, Unwind, Endings
  <2>2. stream' = [stream EXCEPT !.marker = FALSE]
    BY <1>3, Zenon DEF TakeEnd
  <2> QED
    BY <1>1, <1>3, <2>1, <2>2
<1> QED
  BY <1>2, <1>3

\* What a data line leaves, once it is taken.
LEMMA TakeLineLeaves ==
    ASSUME TakeLine, stream \in Streams, buffer \in Seq(Items)
    PROVE  /\ Kind(buffer[1]) = "line" /\ Len(buffer) >= 1 /\ buffer[1][2] \in 1 .. MaxLines
           /\ stream' = [stream EXCEPT !.taken = Append(stream.taken, buffer[1][2])]
           /\ \/ buffer' = Tail(buffer) /\ UNCHANGED <<at, reading>>
              \/ buffer' = <<>> /\ reading' = FALSE /\ at' = "close" /\ outcome' = "failed"
<1>1. /\ Head(buffer) = buffer[1] /\ Len(buffer) >= 1
      /\ Kind(buffer[1]) = "line" /\ buffer[1] \in Items
  BY Queue DEF TakeLine
<1>2. stream' = [stream EXCEPT !.taken = Append(stream.taken, buffer[1][2])]
  BY <1>1 DEF TakeLine, Streams
<1> QED
  BY <1>1, <1>2, ItemKinds DEF TakeLine, Unwind, StopUpstream

\* The types of the reader of the upstream.
LEMMA ReaderTypesStep == ASSUME FullInv, [RequestsNext]_rvars PROVE ReaderTypes'
<1> SUFFICES /\ reading' \in BOOLEAN
             /\ buffer' \in Seq(Items) /\ Len(buffer') <= 2
             /\ stream' \in Streams
  BY DEF ReaderTypes
<1>0. /\ reading \in BOOLEAN
      /\ buffer \in Seq(Items) /\ Len(buffer) <= 2 /\ Len(buffer) \in Nat
      /\ stream \in Streams
  BY DEF FullInv, ReaderTypes
<1>1. CASE Open \/ FirstFrameDeadline \/ Cancel
  <2>1. /\ UNCHANGED stream
        /\ \/ UNCHANGED <<buffer, reading>>
           \/ UNCHANGED buffer /\ reading' = TRUE
           \/ buffer' = <<>> /\ reading' = FALSE
    BY <1>1 DEF Open, FirstFrameDeadline, Cancel, Unwind, StopUpstream
  <2>2. reading' \in BOOLEAN
    BY <1>0, <2>1
  <2>3. CASE buffer' = <<>>
    BY <1>0, <2>1, <2>2, <2>3, EmptyQueue
  <2>4. CASE UNCHANGED buffer
    BY <1>0, <2>1, <2>2, <2>4
  <2> QED
    BY <2>1, <2>3, <2>4
<1>2. CASE TakeLine
  <2>1. stream' \in Streams
    BY <1>0, <1>2, TakeLineLeaves, StreamUpdates
  <2>2. CASE buffer' = Tail(buffer) /\ UNCHANGED reading
    BY <1>0, <1>2, <2>1, <2>2, TakeLineLeaves, Queue
  <2>3. CASE buffer' = <<>> /\ reading' = FALSE
    <3>1. buffer' \in Seq(Items) /\ Len(buffer') <= 2
      BY <2>3, EmptyQueue
    <3> QED
      BY <2>1, <2>3, <3>1
  <2> QED
    BY <1>0, <1>2, <2>2, <2>3, TakeLineLeaves
<1>3. CASE TakeEnd
  <2>1. stream' \in Streams
    BY <1>0, <1>3, TakeEndLeaves, StreamUpdates
  <2>2. buffer' = <<>> /\ reading' = FALSE
    BY <1>3, TakeEndLeaves
  <2>3. buffer' \in Seq(Items) /\ Len(buffer') <= 2
    BY <2>2, EmptyQueue
  <2> QED
    BY <2>1, <2>2, <2>3
<1>4. CASE KeepAlive
  <2>1. stream.beats + 1 \in 0 .. MaxBeats
    BY <1>0, <1>4, StreamParts, RequestsAssumption DEF KeepAlive
  <2>2. stream' = [stream EXCEPT !.beats = stream.beats + 1] /\ UNCHANGED <<buffer, reading>>
    BY <1>4 DEF KeepAlive
  <2> QED
    BY <1>0, <2>1, <2>2, StreamUpdates
<1>5. CASE ReadLine
  <2>1. Len(buffer) < 2
    BY <1>0, <1>5 DEF ReadLine, Depth
  <2>2. CASE (\E ending \in Endings : buffer' = Append(buffer, <<ending, 0>>))
             /\ reading' = FALSE /\ UNCHANGED stream
    <3>1. PICK ending \in Endings : buffer' = Append(buffer, <<ending, 0>>)
      BY <2>2
    <3>2. buffer' \in Seq(Items) /\ Len(buffer') <= 2
      BY <1>0, <2>1, <3>1, Queue, ItemKinds
    <3> QED
      BY <1>0, <2>2, <3>2
  <2>3. CASE /\ stream.read < MaxLines /\ stream' = [stream EXCEPT !.read = stream.read + 1]
             /\ buffer' = Append(buffer, <<"line", stream.read + 1>>) /\ UNCHANGED reading
    <3>1. stream.read + 1 \in 1 .. MaxLines /\ stream.read + 1 \in 0 .. MaxLines
      BY <1>0, <2>3, StreamParts, RequestsAssumption
    <3>2. stream' \in Streams
      BY <1>0, <2>3, <3>1, StreamUpdates
    <3> QED
      BY <1>0, <2>1, <2>3, <3>1, <3>2, Queue, ItemKinds
  <2> QED
    BY <1>0, <1>5, <2>2, <2>3, ReadLineAdds
<1>6. CASE ReadLost
  <2>1. Len(buffer) < 2 /\ UNCHANGED stream /\ reading' = FALSE
    BY <1>0, <1>6 DEF ReadLost, Depth
  <2>2. \E e \in Endings : buffer' = Append(buffer, <<e, 0>>)
    BY <1>6 DEF ReadLost, Endings
  <2>3. PICK ending \in Endings : buffer' = Append(buffer, <<ending, 0>>)
    BY <2>2
  <2>4. buffer' \in Seq(Items) /\ Len(buffer') <= 2
    BY <1>0, <2>1, <2>3, Queue, ItemKinds
  <2> QED
    BY <1>0, <2>1, <2>4
<1>7. CASE UNCHANGED rvars
  BY <1>0, <1>7 DEF rvars
<1>8. CASE UNCHANGED <<reading, buffer, stream>>
  BY <1>0, <1>8
<1> QED
  BY <1>1, <1>2, <1>3, <1>4, <1>5, <1>6, <1>7, <1>8, ReaderStep

\* Taking a line, the rest follows one line more.
LEMMA FollowsTail ==
    ASSUME NEW q \in Seq(Items), NEW n \in Nat, NEW r \in Nat,
           q # <<>>, Kind(q[1]) = "line", Follows(q, n, r)
    PROVE  /\ q[1] = <<"line", n + 1>>
           /\ Follows(Tail(q), n + 1, r)
           /\ OnlyLines(q) => OnlyLines(Tail(q))
<1>1. /\ Len(q) \in Nat /\ 1 \in 1 .. Len(q) /\ Len(Tail(q)) = Len(q) - 1
      /\ \A i \in 1 .. Len(Tail(q)) : i + 1 \in 1 .. Len(q) /\ Tail(q)[i] = q[i + 1]
  BY Queue
<1>2. q[1] = <<"line", n + 1>>
  BY <1>1, ItemKinds DEF Follows
<1>3. ASSUME NEW i \in 1 .. Len(Tail(q))
      PROVE  \/ Tail(q)[i] = <<"line", (n + 1) + i>>
             \/ Kind(Tail(q)[i]) \in Endings /\ i = Len(Tail(q)) /\ (n + 1) + i = r + 1
  <2>1. \/ q[i + 1] = <<"line", n + (i + 1)>>
        \/ Kind(q[i + 1]) \in Endings /\ i + 1 = Len(q) /\ n + (i + 1) = r + 1
    BY <1>1 DEF Follows
  <2>2. n + (i + 1) = (n + 1) + i /\ Tail(q)[i] = q[i + 1]
    BY <1>1
  <2>3. i \in Nat
    OBVIOUS
  <2>4. i + 1 = Len(q) => i = Len(q) - 1
    BY <2>3
  <2> QED
    BY <1>1, <2>1, <2>2, <2>4
<1>4. OnlyLines(q) => OnlyLines(Tail(q))
  BY <1>1 DEF OnlyLines
<1> QED
  BY <1>2, <1>3, <1>4 DEF Follows

\* A line that is read follows those before it.
LEMMA FollowsLine ==
    ASSUME NEW q \in Seq(Items), NEW n \in Nat, NEW r \in Nat, r + 1 \in 1 .. MaxLines,
           OnlyLines(q), n + Len(q) = r, Follows(q, n, r)
    PROVE  LET after == Append(q, <<"line", r + 1>>) IN
           Follows(after, n, r + 1) /\ OnlyLines(after) /\ n + Len(after) = r + 1
<1> DEFINE after == Append(q, <<"line", r + 1>>)
<1>1. /\ Len(q) \in Nat /\ Len(after) = Len(q) + 1 /\ after[Len(q) + 1] = <<"line", r + 1>>
      /\ \A i \in 1 .. Len(q) : after[i] = q[i]
  BY Queue, ItemKinds
<1>2. \A i \in 1 .. Len(after) : i \in 1 .. Len(q) \/ i = Len(q) + 1
  BY <1>1
<1>3. \A i \in 1 .. Len(q) : q[i] = <<"line", n + i>>
  BY ItemKinds DEF Follows, OnlyLines
<1>4. n + (Len(q) + 1) = r + 1
  BY <1>1
<1>5. \A i \in 1 .. Len(after) : after[i] = <<"line", n + i>>
  BY <1>1, <1>2, <1>3, <1>4
<1> HIDE DEF after
<1>6. Follows(after, n, r + 1) /\ OnlyLines(after)
  BY <1>5 DEF Follows, OnlyLines, Kind
<1>7. n + Len(after) = r + 1
  BY <1>1, <1>4
<1> QED
  BY <1>6, <1>7 DEF after

\* The end that is read follows all lines.
LEMMA FollowsEnd ==
    ASSUME NEW q \in Seq(Items), NEW n \in Nat, NEW r \in Nat, NEW e \in Endings,
           OnlyLines(q), n + Len(q) = r, Follows(q, n, r)
    PROVE  Follows(Append(q, <<e, 0>>), n, r)
<1> DEFINE after == Append(q, <<e, 0>>)
<1>1. /\ Len(q) \in Nat /\ Len(after) = Len(q) + 1 /\ after[Len(q) + 1] = <<e, 0>>
      /\ \A i \in 1 .. Len(q) : after[i] = q[i]
  BY Queue, ItemKinds
<1>2. \A i \in 1 .. Len(after) : i \in 1 .. Len(q) \/ i = Len(q) + 1
  BY <1>1
<1>3. \A i \in 1 .. Len(q) : after[i] = <<"line", n + i>>
  BY <1>1, ItemKinds DEF Follows, OnlyLines
<1>4. Kind(after[Len(q) + 1]) \in Endings /\ n + (Len(q) + 1) = r + 1
  BY <1>1, ItemKinds
<1> HIDE DEF after
<1>5. Follows(after, n, r)
  BY <1>1, <1>2, <1>3, <1>4 DEF Follows
<1> QED
  BY <1>5 DEF after

\* Lines are taken in the order they were read.
LEMMA LineInvStep == ASSUME FullInv, [RequestsNext]_rvars PROVE LineInv'
<1> DEFINE n == Len(stream.taken)
<1>0. /\ buffer \in Seq(Items) /\ Len(buffer) \in Nat /\ stream \in Streams
      /\ stream.read \in Nat /\ n \in Nat /\ stream.taken \in Seq(1 .. MaxLines)
  BY StreamParts DEF FullInv, ReaderTypes
<1>a. /\ stream.taken = [i \in 1 .. n |-> i]
      /\ at \in Unopened \union {"open"} =>
            ~reading /\ buffer = <<>> /\ stream.read = 0 /\ stream.taken = <<>>
      /\ reading => at = "body" /\ OnlyLines(buffer) /\ n + Len(buffer) = stream.read
      /\ Follows(buffer, n, stream.read)
  BY DEF FullInv, LineInv
<1>b. ASSUME stream'.taken = [i \in 1 .. Len(stream'.taken) |-> i], buffer' = <<>>,
             reading' = FALSE, at' \notin Unopened \union {"open"}
      PROVE  LineInv'
  <2>1. Follows(buffer, Len(stream.taken), stream.read)'
    BY <1>b, EmptyQueue DEF Follows
  <2> QED
    BY <1>b, <2>1 DEF LineInv
<1>1. CASE Open \/ FirstFrameDeadline \/ Cancel
  <2>1. UNCHANGED stream
    BY <1>1 DEF Open, FirstFrameDeadline, Cancel
  <2>2. \/ UNCHANGED <<buffer, reading>> /\ at # "body" /\ at' \notin Unopened \union {"open"}
        \/ buffer = buffer' /\ reading' = TRUE /\ at = "open" /\ at' = "body"
        \/ buffer' = <<>> /\ reading' = FALSE /\ at' = "close"
    BY <1>1 DEF Open, FirstFrameDeadline, Cancel, Unwind, StopUpstream, ReleaseWith, Unopened
  <2>3. CASE buffer' = <<>> /\ reading' = FALSE /\ at' = "close"
    BY <1>a, <1>b, <2>1, <2>3 DEF Unopened
  <2>4. CASE UNCHANGED <<buffer, reading>> /\ at # "body" /\ at' \notin Unopened \union {"open"}
    BY <1>a, <2>1, <2>4 DEF LineInv
  <2>5. CASE buffer = buffer' /\ reading' = TRUE /\ at = "open" /\ at' = "body"
    <3>1. stream.taken = <<>> /\ buffer = <<>> /\ stream.read = 0
      BY <1>a, <2>5
    <3>2. OnlyLines(buffer') /\ Len(stream'.taken) + Len(buffer') = stream'.read
      BY <2>1, <2>5, <3>1, EmptyQueue DEF OnlyLines
    <3> QED
      BY <1>a, <2>1, <2>5, <3>2 DEF LineInv, Unopened
  <2> QED
    BY <2>2, <2>3, <2>4, <2>5 DEF Unopened
<1>2. CASE TakeLine
  <2>1. buffer # <<>> /\ Kind(buffer[1]) = "line" /\ at = "body"
    BY <1>0, <1>2, TakeLineLeaves DEF TakeLine
  <2>2. /\ buffer[1] = <<"line", n + 1>>
        /\ Follows(Tail(buffer), n + 1, stream.read)
        /\ OnlyLines(buffer) => OnlyLines(Tail(buffer))
    BY <1>0, <1>a, <2>1, FollowsTail
  <2>3. stream'.taken = Append(stream.taken, n + 1) /\ stream'.read = stream.read
    BY <1>0, <1>2, <2>2, TakeLineLeaves DEF Streams
  <2>4. Len(stream'.taken) = n + 1 /\ stream'.taken = [i \in 1 .. n + 1 |-> i]
    BY <1>0, <1>a, <2>3
  <2>5. CASE buffer' = Tail(buffer) /\ UNCHANGED <<at, reading>>
    <3>1. reading' => /\ at' = "body" /\ OnlyLines(buffer')
                      /\ (n + 1) + Len(buffer') = stream'.read
      BY <1>0, <1>a, <2>1, <2>2, <2>3, <2>5, Queue
    <3> QED
      BY <2>1, <2>2, <2>3, <2>4, <2>5, <3>1 DEF LineInv, Unopened
  <2>6. CASE buffer' = <<>> /\ reading' = FALSE /\ at' = "close"
    BY <1>b, <2>4, <2>6 DEF Unopened
  <2> QED
    BY <1>0, <1>2, <2>5, <2>6, TakeLineLeaves
<1>3. CASE TakeEnd
  <2>1. stream'.taken = stream.taken
    BY <1>0, <1>3, TakeEndLeaves DEF Streams
  <2> QED
    BY <1>3, <1>a, <1>b, <2>1, TakeEndLeaves DEF Unopened
<1>4. CASE KeepAlive
  <2>1. stream'.taken = stream.taken /\ stream'.read = stream.read
    BY <1>0, <1>4 DEF KeepAlive, Streams
  <2> QED
    BY <1>4, <1>a, <2>1 DEF KeepAlive, LineInv
<1>5. CASE ReadLine \/ ReadLost
  <2>1. reading /\ at = "body" /\ at' = "body"
    BY <1>5, <1>a DEF ReadLine, ReadLost
  <2>2. CASE /\ stream.read < MaxLines /\ stream' = [stream EXCEPT !.read = stream.read + 1]
             /\ buffer' = Append(buffer, <<"line", stream.read + 1>>) /\ UNCHANGED reading
    <3>1. stream.read + 1 \in 1 .. MaxLines
      BY <1>0, <2>2, RequestsAssumption
    <3>2. stream'.taken = stream.taken /\ stream'.read = stream.read + 1
      BY <1>0, <2>2 DEF Streams
    <3>3. /\ Follows(buffer', n, stream.read + 1) /\ OnlyLines(buffer')
          /\ n + Len(buffer') = stream.read + 1
      BY <1>0, <1>a, <2>1, <2>2, <3>1, FollowsLine
    <3> QED
      BY <1>a, <2>1, <3>2, <3>3 DEF LineInv, Unopened
  <2>3. CASE (\E ending \in Endings : buffer' = Append(buffer, <<ending, 0>>))
             /\ reading' = FALSE /\ UNCHANGED stream
    <3>1. PICK ending \in Endings : buffer' = Append(buffer, <<ending, 0>>)
      BY <2>3
    <3>2. Follows(buffer', n, stream.read)
      BY <1>0, <1>a, <2>1, <3>1, FollowsEnd
    <3> QED
      BY <1>a, <2>1, <2>3, <3>2 DEF LineInv, Unopened
  <2>4. ReadLost => (\E ending \in Endings : buffer' = Append(buffer, <<ending, 0>>))
                    /\ reading' = FALSE /\ UNCHANGED stream
    BY DEF ReadLost, Endings
  <2> QED
    BY <1>0, <1>5, <2>2, <2>3, <2>4, ReadLineAdds
<1>6. CASE UNCHANGED rvars
  BY <1>6, <1>a DEF rvars, LineInv
<1>7. CASE /\ UNCHANGED <<reading, buffer, stream>>
           /\ at = "body" => at' = "body"
           /\ at' \in Unopened \union {"open"} => at \in Unopened \union {"open"}
  BY <1>7, <1>a DEF LineInv
<1> QED
  BY <1>1, <1>2, <1>3, <1>4, <1>5, <1>6, <1>7, ReaderStep

\* Only the marker brings a handler to close a success.
LEMMA CloseStep ==
    ASSUME RequestsNext, at' = "close", outcome' = "completed"
    PROVE  TakeEnd \/ (at = "close" /\ outcome = "completed")
<1> USE DEF upstream, visible
<1>1. CASE \/ Resolve \/ ResolveFails \/ Acquire \/ Policy \/ Call \/ CallFails \/ Build
           \/ BuildFails \/ Compact \/ StartBody \/ Created \/ Ready
  BY <1>1 DEF Resolve, ResolveFails, Acquire, Policy, Call, CallFails, Called, Build, BuildFails,
              Compact, StartBody, Created, Ready, ReleaseWith
<1>2. CASE ClosedOK \/ ClosedLost \/ ClosedFailed \/ ClosedCancelled \/ Final \/ Store
  BY <1>2, FailIsTold DEF ClosedOK, ClosedLost, ClosedFailed, ClosedCancelled, Final, Store,
                          ReleaseWith
<1>3. CASE Settle \/ Done \/ Release \/ Released \/ CancelAgain
  BY <1>3 DEF Settle, Done, Release, Released, CancelAgain, ReleaseWith
<1>4. CASE Upstream \/ KeepAlive
  BY <1>4 DEF Upstream, Headers, WorkerLost, WorkerCloses, ReadLine, ReadLost, KeepAlive
<1>5. CASE (\E o \in Outcomes : WriteRow(o)) \/ Monitor \/ LoseLease \/ Disconnect
  BY <1>5 DEF WriteRow, Monitor, LoseLease, Disconnect
<1>6. CASE Open \/ TakeLine \/ FirstFrameDeadline \/ Cancel
  BY <1>6 DEF Open, TakeLine, FirstFrameDeadline, Cancel, Unwind, ReleaseWith
<1> QED
  BY <1>1, <1>2, <1>3, <1>4, <1>5, <1>6 DEF RequestsNext, Handler

\* No step changes which request it is.
LEMMA ReqStays == ASSUME RequestsNext PROVE req' = req
<1>1. CASE Handler
  BY <1>1 DEF Handler, Resolve, ResolveFails, Acquire, Policy, Call, CallFails, Build, BuildFails,
              Compact, StartBody, Created, Ready, Open, TakeLine, TakeEnd, FirstFrameDeadline,
              ClosedOK, ClosedLost, ClosedFailed, ClosedCancelled, Settle, Final, Store, Done,
              Release, Released
<1>2. CASE ~Handler
  BY <1>2 DEF RequestsNext, Upstream, Headers, WorkerLost, WorkerCloses, ReadLine, ReadLost,
              KeepAlive, Cancel, CancelAgain, WriteRow, Monitor, LoseLease, Disconnect
<1> QED
  BY <1>1, <1>2

\* A handler about to close a success has seen the marker, and has taken all lines before it.
LEMMA MarkerInvStep == ASSUME FullInv, [RequestsNext]_rvars PROVE MarkerInv'
<1> USE DEF FullInv, MarkerInv
<1> DEFINE Complete == stream.marker /\ Len(stream.taken) = stream.read
           Closing == at = "close" /\ outcome = "completed"
           Success == req.stream /\ samples = <<"success">>
<1>1. CASE UNCHANGED rvars
  BY <1>1 DEF rvars
<1>2. CASE TakeEnd
  <2>1. CASE Kind(Head(buffer)) = "marker"
    <3>0. /\ buffer \in Seq(Items) /\ buffer # <<>>
          /\ Kind(buffer[1]) = "marker" /\ 1 \in 1 .. Len(buffer)
      BY <1>2, <2>1, Queue DEF TakeEnd, ReaderTypes
    <3>1. Len(buffer) = 1 /\ Len(stream.taken) = stream.read
      <4>1. Len(buffer) \in Nat /\ stream.read \in Nat /\ Len(stream.taken) \in Nat
        BY <3>0, StreamParts DEF ReaderTypes
      <4>2. buffer[1] # <<"line", Len(stream.taken) + 1>>
        BY <3>0 DEF Kind
      <4>3. Len(buffer) = 1 /\ Len(stream.taken) + 1 = stream.read + 1
        BY <3>0, <4>2 DEF LineInv, Follows
      <4> QED
        BY <4>1, <4>3
    <3>2. Complete'
      BY <1>2, <2>1, <3>1, TakeEndLeaves DEF ReaderTypes, Streams
    <3> QED
      BY <3>2
  <2>2. CASE Kind(Head(buffer)) # "marker"
    <3>1. ~Closing'
      BY <1>2, <2>2, TakeEndLeaves
    <3>2. samples = <<>> /\ RequestsNext /\ ~ClosedOK /\ ~Build
      BY <1>2 DEF TakeEnd, EarlyInv, Untold, ClosedOK, Build, RequestsNext, Handler
    <3>3. samples' # <<"success">>
      BY <3>2, SampleStep
    <3> QED
      BY <3>1, <3>3
  <2> QED
    BY <2>1, <2>2
<1>3. CASE RequestsNext /\ ~TakeEnd
  <2>1. req' = req
    BY <1>3, ReqStays
  <2>2. Closing' => Closing
    BY <1>3, CloseStep
  <2>3. Success' => Success \/ Closing
    BY <1>3, <2>1, SampleStep DEF ClosedOK, Build, RouteInv
  <2>4. ASSUME Closing \/ Success PROVE UNCHANGED stream
    <3>1. at # "body" /\ ~reading
      BY <2>4 DEF EarlyInv, Untold, LineInv
    <3> QED
      BY <1>3, <3>1, ReaderStep DEF Open, TakeLine, FirstFrameDeadline, Cancel, KeepAlive, ReadLine,
                                    ReadLost
  <2> QED
    BY <2>2, <2>3, <2>4
<1> QED
  BY <1>1, <1>2, <1>3
-------------------------------------------------------------------------------
(* What is told, and what is recorded of it *)

\* A frame is appended to those a client was told.
LEMMA ToldOneMore ==
    ASSUME NEW S, NEW told \in Seq(S), NEW e \in S
    PROVE  /\ Append(told, e) \in Seq(S)
           /\ e \in Outcomes => LastOutcome(Append(told, e), e)
           /\ \A o : e \notin Outcomes /\ LastOutcome(told, o) => LastOutcome(Append(told, e), o)
<1> DEFINE after == Append(told, e)
<1>1. /\ after \in Seq(S) /\ Len(told) \in Nat /\ Len(after) = Len(told) + 1
      /\ DOMAIN after = 1 .. Len(told) + 1 /\ DOMAIN told = 1 .. Len(told)
      /\ after[Len(told) + 1] = e /\ \A i \in 1 .. Len(told) : after[i] = told[i]
  OBVIOUS
<1> HIDE DEF after
<1>2. LastOutcome(after, e)
  BY <1>1 DEF LastOutcome
<1>3. ASSUME NEW o, e \notin Outcomes, LastOutcome(told, o)
      PROVE  LastOutcome(after, o)
  <2>1. PICK i \in DOMAIN told :
           told[i] = o /\ \A j \in DOMAIN told : j > i => told[j] \notin Outcomes
    BY <1>3 DEF LastOutcome
  <2>2. i \in DOMAIN after /\ after[i] = o
    BY <1>1, <2>1
  <2>3. ASSUME NEW j \in DOMAIN after, j > i PROVE after[j] \notin Outcomes
    BY <1>1, <1>3, <2>1, <2>3
  <2> QED
    BY <2>2, <2>3 DEF LastOutcome
<1> QED
  BY <1>1, <1>2, <1>3 DEF after

\* What a step tells the client, and where that leaves the handler.
LEMMA EventStep ==
    ASSUME FullInv, RequestsNext
    PROVE  \/ UNCHANGED events
           \/ /\ stored' = "none"
              /\ \E e \in {"completed", "failed"} :
                    events' = Append(events, e) /\ (at' = "store" => outcome' = e)
           \/ /\ \E e \in {"error", "done"} : events' = Append(events, e)
              /\ at' # "store" /\ UNCHANGED stored
<1> DEFINE Other == /\ \E e \in {"error", "done"} : events' = Append(events, e)
                    /\ at' # "store" /\ UNCHANGED stored
           Outcome == /\ stored' = "none"
                      /\ \E e \in {"completed", "failed"} :
                            events' = Append(events, e) /\ (at' = "store" => outcome' = e)
<1> USE DEF FullInv, upstream, visible
<1>1. CASE ResolveFails \/ Acquire \/ Created
  <2>1. stored' = "none" /\ at' # "store"
    BY <1>1 DEF ResolveFails, Acquire, Created, ReleaseWith, EarlyInv, Pristine, Untold, Unopened
  <2>2. UNCHANGED events \/ \E e \in {"error", "failed"} : events' = Append(events, e)
    BY <1>1 DEF ResolveFails, Acquire, Created
  <2>3. UNCHANGED stored
    BY <1>1 DEF ResolveFails, Acquire, Created
  <2> QED
    BY <2>1, <2>2, <2>3
<1>2. ASSUME Fail, UNCHANGED stored, stored = "none" PROVE Other \/ Outcome
  <2>1. outcome' = "failed" /\ (at' = "store" => Responses)
    BY <1>2, FailIsTold
  <2>2. events' = Append(events, IF Plain THEN "error" ELSE "failed")
    BY <1>2 DEF Fail
  <2>3. CASE Plain
    BY <1>2, <2>1, <2>2, <2>3 DEF Plain, Responses
  <2>4. CASE ~Plain
    BY <1>2, <2>1, <2>2, <2>4
  <2> QED
    BY <2>3, <2>4
<1>3. CASE ClosedLost \/ ClosedFailed
  BY <1>2, <1>3 DEF ClosedLost, ClosedFailed, EarlyInv, Pristine
<1>4. CASE Final
  <2>1. stored = "none" /\ UNCHANGED stored /\ outcome = "completed"
    BY <1>4 DEF Final, MiddleInv
  <2>2. CASE Fail
    BY <1>2, <2>1, <2>2
  <2>3. CASE Plain /\ events' = Append(events, "done") /\ at' = "over"
    BY <2>1, <2>3
  <2>4. CASE events' = Append(events, "completed") /\ UNCHANGED <<outcome, samples>>
    BY <2>1, <2>4
  <2> QED
    BY <1>4, <2>2, <2>3, <2>4 DEF Final
<1>5. CASE Store
  <2>1. stored = "none"
    BY <1>5 DEF Store, MiddleInv
  <2> QED
    BY <1>2, <1>5, <2>1 DEF Store
<1>6. CASE Done
  BY <1>6 DEF Done
<1>7. CASE \/ Resolve \/ Policy \/ Call \/ CallFails \/ Build \/ BuildFails \/ Compact \/ StartBody
           \/ Ready \/ Open \/ TakeLine \/ TakeEnd \/ FirstFrameDeadline \/ ClosedOK
           \/ ClosedCancelled \/ Settle \/ Release \/ Released
  BY <1>7 DEF Resolve, Policy, Call, CallFails, Build, BuildFails, Compact, StartBody, Ready, Open,
              TakeLine, TakeEnd, FirstFrameDeadline, ClosedOK, ClosedCancelled, Settle, Release,
              Released
<1>8. CASE KeepAlive \/ Cancel \/ CancelAgain \/ Upstream \/ (\E o \in Outcomes : WriteRow(o))
           \/ Monitor \/ LoseLease \/ Disconnect
  BY <1>8 DEF KeepAlive, Cancel, CancelAgain, Upstream, Headers, WorkerLost, WorkerCloses, ReadLine,
              ReadLost, WriteRow, Monitor, LoseLease, Disconnect
<1> QED
  BY <1>1, <1>3, <1>4, <1>5, <1>6, <1>7, <1>8 DEF RequestsNext, Handler

\* The types of what is told.
LEMMA ToldTypesStep == ASSUME FullInv, [RequestsNext]_rvars PROVE ToldTypes'
<1>1. CASE UNCHANGED rvars
  BY <1>1 DEF rvars, FullInv, ToldTypes
<1>2. CASE RequestsNext
  <2>1. samples' = <<>> \/ \E s \in Statuses : samples' = <<s>>
    BY <1>2, SampleStep DEF FullInv, ToldTypes, Statuses
  <2>2. UNCHANGED events \/ \E e \in Outcomes \union {"error", "done"} : events' = Append(events, e)
    BY <1>2, EventStep DEF Outcomes
  <2>3. events' \in Seq(Outcomes \union {"error", "done"})
    BY <2>2, ToldOneMore DEF FullInv, ToldTypes
  <2> QED
    BY <2>1, <2>3 DEF ToldTypes
<1> QED
  BY <1>1, <1>2

\* A handler comes to the store with the outcome the client was told last.
LEMMA StoreStep ==
    ASSUME FullInv, RequestsNext, req.stream, at' = "store"
    PROVE  \/ at = "store" /\ UNCHANGED <<outcome, events>>
           \/ \E e \in {"completed", "failed"} : events' = Append(events, e) /\ outcome' = e
<1> USE DEF upstream, visible
<1>1. ASSUME Fail
      PROVE  \E e \in {"completed", "failed"} : events' = Append(events, e) /\ outcome' = e
  <2>1. outcome' = "failed" /\ Responses
    BY <1>1, FailIsTold
  <2>2. events' = Append(events, "failed")
    BY <1>1, <2>1 DEF Fail, Plain, Responses
  <2> QED
    BY <2>1, <2>2
<1>2. CASE ClosedLost \/ ClosedFailed
  BY <1>1, <1>2 DEF ClosedLost, ClosedFailed
<1>3. CASE Final
  <2>1. CASE events' = Append(events, "completed") /\ UNCHANGED <<outcome, samples>>
    BY <1>3, <2>1 DEF Final, FullInv, MiddleInv
  <2> QED
    BY <1>1, <1>3, <2>1 DEF Final
<1>4. CASE Store
  BY <1>1, <1>4 DEF Store, ReleaseWith
<1>5. CASE \/ Resolve \/ ResolveFails \/ Acquire \/ Policy \/ Call \/ CallFails \/ Build
           \/ BuildFails \/ Compact \/ StartBody \/ Created \/ Ready
  BY <1>5 DEF Resolve, ResolveFails, Acquire, Policy, Call, CallFails, Called, Build, BuildFails,
              Compact, StartBody, Created, Ready, ReleaseWith
<1>6. CASE Open \/ TakeLine \/ TakeEnd \/ FirstFrameDeadline \/ Cancel
  BY <1>6 DEF Open, TakeLine, TakeEnd, FirstFrameDeadline, Cancel, Unwind, ReleaseWith
<1>7. CASE ClosedOK \/ ClosedCancelled \/ Settle \/ Done \/ Release \/ Released \/ CancelAgain
  BY <1>7 DEF ClosedOK, ClosedCancelled, Settle, Done, Release, Released, CancelAgain, ReleaseWith
<1>8. CASE KeepAlive \/ Upstream \/ (\E o \in Outcomes : WriteRow(o)) \/ Monitor \/ LoseLease
           \/ Disconnect
  BY <1>8 DEF KeepAlive, Upstream, Headers, WorkerLost, WorkerCloses, ReadLine, ReadLost, WriteRow,
              Monitor, LoseLease, Disconnect
<1> QED
  BY <1>2, <1>3, <1>4, <1>5, <1>6, <1>7, <1>8 DEF RequestsNext, Handler

\* A record is written with the outcome the handler came with; whoever wrote it only ends.
LEMMA RecordStep ==
    ASSUME FullInv, RequestsNext, req.stream, stored' # "none"
    PROVE  /\ at' \in {"done"} \union AtEnd
           /\ \/ UNCHANGED stored
              \/ at = "store" /\ stored' = outcome /\ UNCHANGED events
<1> USE DEF AtEnd, upstream, visible
<1>1. CASE Store
  <2>1. stored = "none" /\ outcome # "none"
    BY <1>1 DEF Store, FullInv, MiddleInv
  <2>2. stored' = outcome /\ UNCHANGED events /\ at' \in {"done"} \union AtEnd
    BY <1>1, <2>1 DEF Store, ReleaseWith
  <2> QED
    BY <1>1, <2>2 DEF Store
<1>2. CASE CancelAgain
  <2>1. at' \in AtEnd
    BY <1>2 DEF CancelAgain, ReleaseWith
  <2>2. UNCHANGED events /\ (UNCHANGED stored \/ (at = "store" /\ stored' = outcome))
    BY <1>2 DEF CancelAgain
  <2> QED
    BY <2>1, <2>2
<1>3. ASSUME UNCHANGED stored PROVE at \in {"done"} \union AtEnd
  BY <1>3 DEF FullInv, WordInv
<1>4. CASE \/ Resolve \/ ResolveFails \/ Acquire \/ Policy \/ Call \/ CallFails \/ Build
           \/ BuildFails \/ Compact \/ StartBody \/ Created \/ Ready
  BY <1>3, <1>4 DEF Resolve, ResolveFails, Acquire, Policy, Call, CallFails, Called, Build,
              BuildFails, Compact, StartBody, Created, Ready
<1>5. CASE Open \/ TakeLine \/ TakeEnd \/ FirstFrameDeadline \/ Cancel
  BY <1>3, <1>5 DEF Open, TakeLine, TakeEnd, FirstFrameDeadline, Cancel
<1>6. CASE ClosedOK \/ ClosedCancelled \/ ClosedLost \/ ClosedFailed \/ Settle \/ Final
  BY <1>3, <1>6 DEF ClosedOK, ClosedCancelled, ClosedLost, ClosedFailed, Settle, Final
<1>7. CASE Done \/ Release \/ Released
  BY <1>3, <1>7 DEF Done, Release, Released
<1>8. CASE KeepAlive \/ Upstream \/ (\E o \in Outcomes : WriteRow(o)) \/ Monitor \/ LoseLease
           \/ Disconnect
  BY <1>3, <1>8 DEF KeepAlive, Upstream, Headers, WorkerLost, WorkerCloses, ReadLine, ReadLost,
              WriteRow, Monitor, LoseLease, Disconnect
<1> QED
  BY <1>1, <1>2, <1>4, <1>5, <1>6, <1>7, <1>8 DEF RequestsNext, Handler

\* The record is of the last thing the client was told.
LEMMA WordInvStep == ASSUME FullInv, [RequestsNext]_rvars PROVE WordInv'
<1>1. CASE UNCHANGED rvars
  BY <1>1 DEF rvars, FullInv, WordInv
<1>2. CASE RequestsNext
  <2>1. req' = req /\ events \in Seq(Outcomes \union {"error", "done"})
    BY <1>2, ReqStays DEF FullInv, ToldTypes
  <2>2. ASSUME req.stream, at' = "store" PROVE LastOutcome(events', outcome')
    <3>1. CASE at = "store" /\ UNCHANGED <<outcome, events>>
      BY <2>2, <3>1 DEF FullInv, WordInv
    <3>2. CASE \E e \in {"completed", "failed"} : events' = Append(events, e) /\ outcome' = e
      BY <2>1, <3>2, ToldOneMore DEF Outcomes
    <3> QED
      BY <1>2, <2>2, <3>1, <3>2, StoreStep
  <2>3. ASSUME req.stream, stored' # "none" PROVE LastOutcome(events', stored')
    <3>1. CASE at = "store" /\ stored' = outcome /\ UNCHANGED events
      BY <2>3, <3>1 DEF FullInv, WordInv
    <3>2. CASE UNCHANGED <<stored, events>>
      BY <2>3, <3>2 DEF FullInv, WordInv
    <3>3. CASE UNCHANGED stored /\ \E e \in {"error", "done"} : events' = Append(events, e)
      <4>1. LastOutcome(events, stored)
        BY <2>3, <3>3 DEF FullInv, WordInv
      <4> QED
        BY <2>1, <3>3, <4>1, ToldOneMore DEF Outcomes
    <3> QED
      BY <1>2, <2>3, <3>1, <3>2, <3>3, RecordStep, EventStep
  <2>4. req.stream /\ stored' # "none" => at' \in {"done"} \union AtEnd
    BY <1>2, RecordStep
  <2> QED
    BY <2>1, <2>2, <2>3, <2>4 DEF WordInv
<1> QED
  BY <1>1, <1>2

-------------------------------------------------------------------------------
(* Theorems *)

\* Requests begin in the invariant.
LEMMA FullInvInit == RequestsInit => FullInv
<1> SUFFICES ASSUME RequestsInit PROVE FullInv
  OBVIOUS
<1> USE DEF RequestsInit
<1>1. ControlTypes
  BY DEF ControlTypes, Stages, Handles, Excuses
<1>2. ReaderTypes
  <2>1. stream \in Streams
    BY RequestsAssumption DEF Streams
  <2>2. reading \in BOOLEAN
    OBVIOUS
  <2>3. buffer \in Seq(Items) /\ Len(buffer) <= 2
    BY EmptyQueue
  <2> QED
    BY <2>1, <2>2, <2>3 DEF ReaderTypes
<1>3. ToldTypes
  BY DEF ToldTypes
<1>4. RouteInv
  BY RequestsAssumption DEF RouteInv, Kinds, Buffered, Streamed, Socket
<1>5. EarlyInv /\ MiddleInv /\ LateInv /\ RowInv /\ WorkInv
  BY DEF EarlyInv, MiddleInv, LateInv, RowInv, WorkInv, Pristine, Untold, Unopened, AtEnd, Settled,
         Outcomes
<1>6. LineInv
  BY EmptyQueue DEF LineInv, Follows
<1>7. MarkerInv /\ WordInv
  BY DEF MarkerInv, WordInv
<1> QED
  BY <1>1, <1>2, <1>3, <1>4, <1>5, <1>6, <1>7 DEF FullInv

\* Every step keeps the invariant.
LEMMA FullInvStep == FullInv /\ [RequestsNext]_rvars => FullInv'
<1> SUFFICES ASSUME FullInv, [RequestsNext]_rvars PROVE FullInv'
  OBVIOUS
<1>1. ControlTypes' /\ ReaderTypes' /\ ToldTypes'
  BY ControlTypesStep, ReaderTypesStep, ToldTypesStep
<1>2. RouteInv' /\ EarlyInv' /\ MiddleInv' /\ LateInv' /\ RowInv' /\ WorkInv'
  BY RouteInvStep, EarlyInvStep, MiddleInvStep, LateInvStep, RowInvStep, WorkInvStep
<1>3. LineInv' /\ MarkerInv' /\ WordInv'
  BY LineInvStep, MarkerInvStep, WordInvStep
<1> QED
  BY <1>1, <1>2, <1>3 DEF FullInv

\* The invariant always holds.
LEMMA FullInvariant == RequestsSpec => []FullInv
BY FullInvInit, FullInvStep, PTL DEF RequestsSpec

\* Every variable of a request keeps its type.
THEOREM RequestsTypeCorrect == RequestsSpec => []RequestsTypeOK
<1>1. FullInv => RequestsTypeOK
  BY TypeParts DEF FullInv
<1> QED
  BY <1>1, FullInvariant, PTL

\* A request leaves one sample, however it ends, whatever is cancelled, lost or disconnected.
THEOREM OneSample == RequestsSpec => []SampledOnce
<1>1. FullInv => SampledOnce
  <2> SUFFICES ASSUME FullInv PROVE SampledOnce
    OBVIOUS
  <2>1. Len(samples) <= 1 /\ (samples # <<>> => Len(samples) = 1)
    <3>1. CASE samples = <<>>
      BY <3>1
    <3>2. ASSUME NEW s \in Statuses, samples = <<s>> PROVE Len(samples) = 1
      BY <3>2
    <3>3. samples = <<>> \/ \E s \in Statuses : samples = <<s>>
      BY DEF FullInv, ToldTypes
    <3>4. ASSUME Len(samples) = 1 PROVE Len(samples) <= 1
      BY <3>4
    <3> QED
      BY <3>1, <3>2, <3>3, <3>4, Zenon
  <2>2. at = "over" /\ lease # "none" /\ excuse = "none" /\ req.route # "compact" => samples # <<>>
    BY DEF FullInv, LateInv, AtEnd
  <2> QED
    BY <2>1, <2>2 DEF SampledOnce
<1> QED
  BY <1>1, FullInvariant, PTL

\* A sample, once recorded, is never replaced and never followed by another.
THEOREM SampleIsFinal == RequestsSpec => [][samples # <<>> => UNCHANGED samples]_rvars
<1>1. FullInv /\ [RequestsNext]_rvars => [samples # <<>> => UNCHANGED samples]_rvars
  BY SampleStep DEF FullInv, rvars
<1> QED
  BY <1>1, FullInvariant, PTL DEF RequestsSpec

\* The row says of a request what its sample says.
THEOREM RowMatchesSample == RequestsSpec => []OutcomeMatchesSample
<1>1. FullInv => OutcomeMatchesSample
  BY DEF FullInv, RowInv, Succeeded, OutcomeMatchesSample
<1> QED
  BY <1>1, FullInvariant, PTL

\* No lease is released while its upstream response is open, but by a handler that was
\* cancelled while it closed it, and none as completed.
THEOREM UpstreamFirst == RequestsSpec => []ReleasedAfterUpstream
<1>1. FullInv => ReleasedAfterUpstream
  <2> SUFFICES ASSUME FullInv PROVE ReleasedAfterUpstream
    OBVIOUS
  <2>1. ASSUME releasing # {}, excuse # "cut" PROVE Settled
    <3>1. at \notin Untold \union {"close"}
      BY <2>1 DEF FullInv, EarlyInv, Pristine
    <3>2. at \in {"settle", "final", "store", "done"} \union AtEnd
      BY <3>1 DEF FullInv, ControlTypes, Stages, Unwinding, Untold, Unopened, AtEnd
    <3> QED
      BY <2>1, <3>2 DEF FullInv, WorkInv
  <2>2. "completed" \in releasing => Settled
    BY DEF FullInv, WorkInv
  <2> QED
    BY <2>1, <2>2 DEF ReleasedAfterUpstream, Settled
<1> QED
  BY <1>1, FullInvariant, PTL

\* The lines of a stream arrive in order, and all of them when it is a success.
THEOREM AllLinesArrive == RequestsSpec => []LinesArrive
<1>1. FullInv => LinesArrive
  BY DEF FullInv, LineInv, MarkerInv, LinesArrive
<1> QED
  BY <1>1, FullInvariant, PTL

\* The record of a response that was streamed agrees with what its client was told last.
THEOREM RecordIsLastWord == RequestsSpec => []StoredIsLastWord
<1>1. FullInv => StoredIsLastWord
  BY DEF FullInv, WordInv, StoredIsLastWord
<1> QED
  BY <1>1, FullInvariant, PTL
===============================================================================
