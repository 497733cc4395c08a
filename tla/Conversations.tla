---------------------------- MODULE Conversations ----------------------------
(***************************************************************************)
(* How turns of the Responses API continue one another: over HTTP, by the  *)
(* stored records; over a WebSocket, whose reader and loop are modelled    *)
(* with their queue, by the records or by the cache of the connection.     *)
(* What a turn does with its lease is InferenceRequests, and its items are *)
(* ResponseItems. Sources: responses/router.py, responses/ws.py, models.py.*)
(* A turn is its number; what it said and was answered is that number in a *)
(* history.                                                                *)
(***************************************************************************)
EXTENDS Naturals, Sequences

CONSTANTS
    Sockets,    \* connections
    MaxTurns,   \* bound on the turns of all clients
    QueueSize   \* maxsize of the queue of messages

ASSUME ConversationsAssumption ==
    MaxTurns \in Nat /\ QueueSize \in Nat \ {0} /\ "http" \notin Sockets

VARIABLES
    turns,    \* by, store, previous (0: none), stage, asked, history, and (not in the code)
              \* whole, the conversation it continues
    records,  \* the turns that have a ResponseRecord
    conn,     \* of each socket: the client is there; disconnected, the event; the queue, where 0
              \* stands for None; the reader; the loop, and the turn it runs; past its limit
    cache     \* of each socket: for each turn the history that continues it, or None

cvars == <<turns, records, conn, cache>>

Numbers == 1 .. MaxTurns
None == <<0>>

Ended == {"completed", "failed", "refused", "dropped"}
TurnStages == {"sent", "resolving", "answering"} \union Ended

ConversationsTypeOK ==
    /\ turns \in Seq([by : Sockets \union {"http"}, store : BOOLEAN, previous : 0 .. MaxTurns,
                      stage : TurnStages, asked : BOOLEAN, history : Seq(Numbers),
                      whole : Seq(Numbers)])
    /\ Len(turns) <= MaxTurns
    /\ records \subseteq DOMAIN turns
    /\ conn \in [Sockets -> [there : BOOLEAN, disconnected : BOOLEAN, queue : Seq(0 .. MaxTurns),
                             reader : {"reads", "ended", "broken"},
                             loop : {"head", "waiting", "turn", "over"}, late : BOOLEAN]]
    /\ \A s \in Sockets : Len(conn[s].queue) <= QueueSize
    /\ cache \in [Sockets -> [Numbers -> {None} \union Seq(Numbers)]]

ConversationsInit ==
    /\ turns = <<>> /\ records = {}
    /\ conn = [s \in Sockets |-> [there |-> TRUE, disconnected |-> FALSE, queue |-> <<>>,
                                  reader |-> "reads", loop |-> "head", late |-> FALSE]]
    /\ cache = [s \in Sockets |-> [n \in Numbers |-> None]]

-------------------------------------------------------------------------------
(* Records *)

NewTurn(by, store, previous, stage) ==
    [by |-> by, store |-> store, previous |-> previous, stage |-> stage, asked |-> FALSE,
     history |-> <<>>,
     whole |-> IF previous = 0 THEN <<>> ELSE Append(turns[previous].whole, previous)]

\* _load_previous, for a request that has one.
Found(previous) == previous \in {0} \union records

ChainOfOne(previous) == IF previous = 0 THEN <<>> ELSE <<previous>>

\* _build_chain_history: the links are walked back from the record, as far as there are
\* records, and read from the root.
ChainHistory(previous) ==
    LET walked[n \in 0 .. MaxTurns] ==
            IF n = 0 \/ n \notin records THEN <<>>
            ELSE Append(walked[turns[n].previous], n)
    IN  walked[previous]

\* _persist_response
Persist(n) == records' = IF turns[n].store THEN records \union {n} ELSE records

-------------------------------------------------------------------------------
(* Over HTTP *)

\* create_response: previous and history are read together, before the request waits.
AskHttp(store, previous) ==
    /\ Len(turns) < MaxTurns
    /\ LET turn == NewTurn("http", store, previous, "answering")
       IN  turns' = Append(turns,
               IF Found(previous)
               THEN [turn EXCEPT !.asked = TRUE, !.history = ChainHistory(previous)]
               ELSE [turn EXCEPT !.stage = "refused"])
    /\ UNCHANGED <<records, conn, cache>>

\* A stream that failed is stored too; a record that cannot be written is a failure; a client
\* that is gone ends the request anywhere.
AnswerHttp(n) ==
    /\ turns[n].by = "http" /\ turns[n].stage = "answering"
    /\ \E end \in {"completed", "failed", "dropped"} :
          /\ turns' = [turns EXCEPT ![n].stage = end]
          /\ \/ end # "dropped" /\ Persist(n)
             \/ (end = "completed" => ~turns[n].store) /\ UNCHANGED records
    /\ UNCHANGED <<conn, cache>>

-------------------------------------------------------------------------------
(* The reader of a socket *)

\* What a connection still had to do is dropped with it.
Close(s, others) ==
    /\ conn' = [conn EXCEPT ![s].loop = "over", ![s].reader = "ended", ![s].queue = <<>>]
    /\ turns' = [n \in DOMAIN others |->
                   IF others[n].by = s /\ others[n].stage \notin Ended
                   THEN [others[n] EXCEPT !.stage = "dropped"] ELSE others[n]]

\* A message arrives: for the queue, or too much for it.
Say(s, store, previous) ==
    /\ Len(turns) < MaxTurns
    /\ conn[s].there /\ conn[s].reader = "reads"
    /\ IF Len(conn[s].queue) < QueueSize
       THEN /\ turns' = Append(turns, NewTurn(s, store, previous, "sent"))
            /\ conn' = [conn EXCEPT ![s].queue = Append(@, Len(turns) + 1)]
       ELSE /\ turns' = Append(turns, NewTurn(s, store, previous, "dropped"))
            /\ conn' = [conn EXCEPT ![s].disconnected = TRUE, ![s].reader = "ended"]
    /\ UNCHANGED <<records, cache>>

HangUp(s) ==
    /\ conn[s].there /\ conn[s].loop # "over"
    /\ conn' = [conn EXCEPT ![s].there = FALSE]
    /\ UNCHANGED <<turns, records, cache>>

SeeGoneQuietly(s) ==
    /\ ~conn[s].there /\ conn[s].reader = "reads"
    /\ conn' = [conn EXCEPT ![s].disconnected = TRUE, ![s].reader = "ended"]
    /\ UNCHANGED <<turns, records, cache>>

\* WebSocketDisconnect: the event for a turn that runs, None for a loop that waits.
SeeGone(s) ==
    /\ ~conn[s].there /\ conn[s].reader = "reads"
    /\ conn' = [conn EXCEPT ![s].disconnected = TRUE, ![s].reader = "ended",
                            ![s].queue = IF Len(@) < QueueSize THEN Append(@, 0) ELSE @]
    /\ UNCHANGED <<turns, records, cache>>

\* receive_text fails on it, and nobody looks at the task.
BinaryFrame(s) ==
    /\ conn[s].there /\ conn[s].reader = "reads"
    /\ conn' = [conn EXCEPT ![s].reader = "broken"]
    /\ UNCHANGED <<turns, records, cache>>

HourPasses(s) ==
    /\ ~conn[s].late /\ conn[s].loop # "over"
    /\ conn' = [conn EXCEPT ![s].late = TRUE]
    /\ UNCHANGED <<turns, records, cache>>

-------------------------------------------------------------------------------
(* The loop of a socket *)

\* The event and the limit are looked at between turns.
LoopHead(s) ==
    /\ conn[s].loop = "head"
    /\ IF conn[s].disconnected \/ conn[s].late THEN Close(s, turns)
       ELSE conn' = [conn EXCEPT ![s].loop = "waiting"] /\ UNCHANGED turns
    /\ UNCHANGED <<records, cache>>

\* previous is looked up in the records for a turn to be stored, in the cache for another.
Continues(s, n) ==
    turns[n].previous \in
        {0} \union IF turns[n].store THEN records ELSE {p \in Numbers : cache[s][p] # None}

\* One message: None; or it is no request, or continues what is not there, and an error is
\* sent; or its turn begins.
TakeMessage(s) ==
    /\ conn[s].loop = "waiting" /\ conn[s].queue # <<>>
    /\ LET n == Head(conn[s].queue)
           taken == [conn EXCEPT ![s].queue = Tail(@), ![s].loop = "turn"]
       IN  IF n = 0 THEN Close(s, turns)
           ELSE \/ /\ turns' = [turns EXCEPT ![n].stage = "refused"]
                   /\ conn' = [taken EXCEPT ![s].loop = "head"]
                \/ /\ Continues(s, n)
                   /\ turns' = [turns EXCEPT ![n].stage = "resolving"]
                   /\ conn' = taken
    /\ UNCHANGED <<records, cache>>

TurnOf(s) == CHOOSE n \in DOMAIN turns : turns[n].by = s /\ turns[n].stage \in {"resolving", "answering"}

\* The client is told, and what the turn continued is evicted.
FailTurn(s, n) ==
    /\ turns' = [turns EXCEPT ![n].stage = "failed"]
    /\ conn' = [conn EXCEPT ![s].loop = "head"]
    /\ cache' = IF turns[n].previous = 0 THEN cache
                ELSE [cache EXCEPT ![s][turns[n].previous] = None]

\* _stream_to_ws until the upstream is asked. A stored turn that continues another never gets
\* there: where its history is read, engine is the name of the server's engine, no database.
StartTurn(s) ==
    /\ conn[s].loop = "turn"
    /\ LET n == TurnOf(s)
           hydrated == ~(turns[n].store /\ turns[n].previous # 0)
       IN  /\ turns[n].stage = "resolving"
           /\ \/ /\ hydrated
                 /\ turns' = [turns EXCEPT ![n].stage = "answering", ![n].asked = TRUE,
                               ![n].history = IF turns[n].previous = 0 THEN <<>>
                                              ELSE cache[s][turns[n].previous]]
                 /\ UNCHANGED <<conn, cache>>
              \/ conn[s].there /\ FailTurn(s, n)
              \/ ~conn[s].there /\ Close(s, turns) /\ UNCHANGED cache
    /\ UNCHANGED records

\* The answer: complete, stored and cached; or a failure, of which a failure to store is one;
\* or the client is gone, or the event is set, and the connection with it.
FinishTurn(s) ==
    /\ conn[s].loop = "turn"
    /\ LET n == TurnOf(s) IN
       /\ turns[n].stage = "answering"
       /\ \/ /\ Persist(n)
             /\ turns' = [turns EXCEPT ![n].stage = "completed"]
             /\ conn' = [conn EXCEPT ![s].loop = "head"]
             /\ cache' = [cache EXCEPT ![s][n] = Append(turns[n].history, n)]
          \/ conn[s].there /\ FailTurn(s, n) /\ UNCHANGED records
          \/ /\ conn[s].disconnected \/ ~conn[s].there
             /\ Close(s, turns) /\ UNCHANGED <<records, cache>>

-------------------------------------------------------------------------------
Clients ==
    \/ \E store \in BOOLEAN, previous \in 0 .. Len(turns) :
          AskHttp(store, previous) \/ \E s \in Sockets : Say(s, store, previous)
    \/ \E s \in Sockets : HangUp(s) \/ BinaryFrame(s) \/ HourPasses(s)

Loop(s) == LoopHead(s) \/ TakeMessage(s) \/ StartTurn(s) \/ FinishTurn(s)

ConversationsNext ==
    \/ Clients
    \/ \E n \in DOMAIN turns : AnswerHttp(n)
    \/ \E s \in Sockets : SeeGone(s) \/ Loop(s)

ConversationsSpec == ConversationsInit /\ [][ConversationsNext]_cvars

\* A request ends, by its timeouts if nothing else; tasks run; a client leaves some day.
ConversationsFairness ==
    \A s \in Sockets : WF_cvars(SeeGone(s)) /\ WF_cvars(Loop(s))

-------------------------------------------------------------------------------
(* Properties *)

\* The upstream is given the conversation a turn continues: all of it, in order, and nothing
\* else, whatever mixture of connections and records it went through.
HistoryIsTheConversation ==
    \A n \in DOMAIN turns : turns[n].asked => turns[n].history = turns[n].whole

\* The server lets go of a client that is gone, if its reader did not break before: then an
\* idle loop waits for ever.
ConnectionEnds ==
    \A s \in Sockets : ~conn[s].there ~> (conn[s].loop = "over" \/ conn[s].reader = "broken")

===============================================================================
