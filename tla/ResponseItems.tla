---------------------------- MODULE ResponseItems ----------------------------
(***************************************************************************)
(* The items of one response of the Responses API: what the deltas of the  *)
(* upstream become as items, as numbered events on the wire and as output. *)
(* Sources: responses/translator.py (StreamState, and the decoder of the   *)
(* native engines), responses/events.py (SSEmitter), and their use in      *)
(* responses/router.py and responses/ws.py. A text is the sequence of the  *)
(* numbers of the deltas in it; a status, a usage and an id are left out.  *)
(***************************************************************************)
EXTENDS Naturals, Sequences, FiniteSets, SequencesExt

CONSTANTS
    Calls,      \* the indexes (native engines: the ids) the upstream gives its tool calls
    MaxDeltas,  \* bound on the deltas of the upstream
    MaxChunk    \* bound on the deltas in one chunk

ASSUME ItemsAssumption == Calls \subseteq Nat /\ MaxDeltas \in Nat /\ MaxChunk \in Nat

\* transport: "http", a stream; "socket"; "buffered", no stream. native: the engine speaks the
\* Responses API itself. limited: the request has allowed_tools, allowed are the calls whose
\* name is among them; a native engine refuses it, and the socket does not look at it.
Turns ==
    [transport : {"http", "buffered"}, native : {FALSE}, limited : {TRUE}, allowed : SUBSET Calls]
    \union [transport : {"http", "buffered", "socket"}, native : {FALSE}, limited : {FALSE},
            allowed : {{}}]
    \union [transport : {"http", "socket"}, native : {TRUE}, limited : {FALSE}, allowed : {{}}]

VARIABLES
    turn,   \* of Turns
    state,  \* the StreamState and its SSEmitter, see Fresh
    sent,   \* the events the client was sent
    step    \* "reading", "closed" (every item is), "told" (the terminal event), "ended"

ivars == <<turn, state, sent, step>>

Event(kind, item, index, text, number) ==
    [kind |-> kind, item |-> item, index |-> index, text |-> text, number |-> number]

\* An item is the number of its creation, 0 is none.
Fresh == [message |-> 0, reasoning |-> 0,   \* the items that are open
          calls |-> <<>>,                   \* in order: index, item, named, announced
          texts |-> <<>>,                   \* of each item, so far
          output |-> <<>>,                  \* output_items: item and text
          index |-> 0,                      \* output_index
          seq |-> 2, pending |-> <<>>,      \* the emitter: last number, events not drained
          native |-> <<>>,                  \* ids of native calls, in order
          given |-> 0]                      \* deltas so far

ItemsInit ==
    /\ turn \in Turns
    /\ state = Fresh
    /\ sent = <<Event("created", 0, 0, <<>>, 1), Event("in_progress", 0, 0, <<>>, 2)>>
    /\ step = "reading"

-------------------------------------------------------------------------------
(* The emitter *)

\* SSEmitter.make
Make(s, kind, item, index, text) ==
    [s EXCEPT !.seq = @ + 1, !.pending = Append(@, Event(kind, item, index, text, s.seq + 1))]

\* The builders of events about an item: with the output index of the moment.
Emit(s, kind, item, text) == Make(s, kind, item, s.index, text)

\* drain_frames and drain_events
Drained(s) == [s EXCEPT !.pending = <<>>]

-------------------------------------------------------------------------------
(* StreamState *)

\* What finishing an item of any kind ends with.
ItemDone(s, item) ==
    LET done == Emit(s, "done", item, s.texts[item])
    IN  [done EXCEPT !.output = Append(@, [item |-> item, text |-> s.texts[item]]),
                     !.index = @ + 1]

FinishReasoningKeepsIndex(s) ==
    IF s.reasoning = 0 THEN s
    ELSE LET done == ItemDone(Emit(s, "text_done", s.reasoning, s.texts[s.reasoning]), s.reasoning)
         IN  [done EXCEPT !.reasoning = 0, !.index = s.index]

FinishReasoningLeavesOpen(s) ==
    IF s.reasoning = 0 THEN s
    ELSE ItemDone(Emit(s, "text_done", s.reasoning, s.texts[s.reasoning]), s.reasoning)

FinishReasoning(s) ==
    IF s.reasoning = 0 THEN s
    ELSE LET done == ItemDone(Emit(s, "text_done", s.reasoning, s.texts[s.reasoning]), s.reasoning)
         IN  [done EXCEPT !.reasoning = 0]

FinishMessage(s) ==
    IF s.message = 0 THEN s
    ELSE LET text == s.texts[s.message]
             value == Emit(Emit(s, "text_done", s.message, text), "part_done", s.message, text)
         IN  [ItemDone(value, s.message) EXCEPT !.message = 0]

\* Calls that were never announced are forgotten.
FinishCall(s, call) ==
    IF call.announced
    THEN ItemDone(Emit(s, "text_done", call.item, s.texts[call.item]), call.item)
    ELSE s

FinishCalls(s) ==
    LET after[n \in 0 .. Len(s.calls)] ==
            IF n = 0 THEN s ELSE FinishCall(after[n - 1], s.calls[n])
    IN  [after[Len(s.calls)] EXCEPT !.calls = <<>>]

NewItem(s) == Len(s.texts) + 1

OpenMessage(s) ==
    LET new == [s EXCEPT !.texts = Append(@, <<>>), !.message = NewItem(s)]
    IN  Emit(Emit(new, "added", new.message, <<>>), "part_added", new.message, <<>>)

\* The next delta belongs to the item.
Delta(s, item) ==
    LET d == s.given + 1
    IN  Emit([s EXCEPT !.given = d, !.texts[item] = Append(@, d)], "delta", item, <<d>>)

\* add_text_delta: a message that opens ends the reasoning, an open one does not.
AddText(s) ==
    LET opened == IF s.message = 0 THEN OpenMessage(FinishReasoning(s)) ELSE s
    IN  Delta(opened, opened.message)

AddReasoningReusesText(s) ==
    LET new == [s EXCEPT !.texts = Append(@, IF @ = <<>> THEN <<>> ELSE Last(@)), !.reasoning = NewItem(s)]
        opened == IF s.reasoning = 0 THEN Emit(new, "added", new.reasoning, <<>>) ELSE s
    IN  Delta(opened, opened.reasoning)

\* add_reasoning_delta
AddReasoning(s) ==
    LET new == [s EXCEPT !.texts = Append(@, <<>>), !.reasoning = NewItem(s)]
        opened == IF s.reasoning = 0 THEN Emit(new, "added", new.reasoning, <<>>) ELSE s
    IN  Delta(opened, opened.reasoning)

\* add_tool_call_delta: the call is announced with its first name or arguments.
AddCall(s, index, parts) ==
    LET before == FinishReasoning(s)
        known == {i \in DOMAIN before.calls : before.calls[i].index = index}
        new == [index |-> index, item |-> NewItem(before), named |-> FALSE, announced |-> FALSE]
        listed == IF known # {} THEN before
                  ELSE [before EXCEPT !.texts = Append(@, <<>>), !.calls = Append(@, new)]
        at == CHOOSE i \in DOMAIN listed.calls : listed.calls[i].index = index
        call == listed.calls[at]
        named == [listed EXCEPT !.calls[at].named = @ \/ "name" \in parts]
        opened == IF parts = {} \/ call.announced THEN named
                  ELSE Emit([named EXCEPT !.calls[at].announced = TRUE], "added", call.item, <<>>)
    IN  IF "arguments" \in parts THEN Delta(opened, call.item) ELSE opened

\* apply_allowed_tools: the calls it drops are finished by nobody, a note takes their place.
\* A call without a name is "unknown", which no request allows.
Allowed(call) == turn.limited => call.named /\ call.index \in turn.allowed
ApplyAllowed(s) ==
    LET kept[n \in 0 .. Len(s.calls)] ==
            IF n = 0 THEN <<>>
            ELSE IF Allowed(s.calls[n]) THEN Append(kept[n - 1], s.calls[n]) ELSE kept[n - 1]
    IN  IF \A i \in DOMAIN s.calls : Allowed(s.calls[i]) THEN s
        ELSE AddText([s EXCEPT !.calls = kept[Len(s.calls)]])

-------------------------------------------------------------------------------
(* What the upstream sends *)

Plainly(op) == [op |-> op, call |-> 0, parts |-> {}]
OfCalls(op, parts) == [op : {op}, call : Calls, parts : parts]

Rank(delta) == CASE delta.op = "reasoning" -> 1 [] delta.op = "end"  -> 2
                 [] delta.op = "text" -> 3      [] delta.op = "call" -> 4

\* A chunk of a chat stream: reasoning, its end (a finish reason the socket does not look
\* for), text, then calls.
ChatDeltas ==
    {Plainly("reasoning"), Plainly("text")} \union OfCalls("call", SUBSET {"name", "arguments"})
    \union (IF turn.transport = "http" THEN {Plainly("end")} ELSE {})
ChatChunks ==
    {c \in SeqOf(ChatDeltas, MaxChunk) :
        \A i, j \in DOMAIN c :
            i < j => Rank(c[i]) < Rank(c[j]) \/ (Rank(c[i]) = 4 /\ Rank(c[j]) = 4)}

\* An event of a native engine.
NativeEvents ==
    {<<e>> : e \in {Plainly("reasoning"), Plainly("text")}
                   \union OfCalls("announce", {{}}) \union OfCalls("arguments", {{}, {"arguments"}})}

\* decode_gufo_stream_event: reasoning is sent twice, as such and as a summary; an announced
\* call is only remembered, its first arguments make it an item.
DecodeNative(s, e) ==
    LET ids == IF e.op \in {"announce", "arguments"} /\ ~Contains(s.native, e.call)
               THEN Append(s.native, e.call) ELSE s.native
        known == [s EXCEPT !.native = ids]
    IN  CASE e.op = "text"      -> AddText(s)
          [] e.op = "reasoning" -> LET r == AddReasoning(s)
                                   IN  Emit(r, "summary", r.reasoning, <<r.given>>)
          [] e.op = "announce"  -> known
          [] e.op = "arguments" ->
                AddCall(known, (CHOOSE i \in DOMAIN ids : ids[i] = e.call) - 1,
                        {"name"} \union e.parts)

DecodeChat(s, delta) ==
    CASE delta.op = "reasoning" -> AddReasoning(s)
      [] delta.op = "end"       -> FinishReasoning(s)
      [] delta.op = "text"      -> AddText(s)
      [] delta.op = "call"      -> AddCall(s, delta.call, delta.parts)

Decoded(s, chunk) ==
    LET after[n \in 0 .. Len(chunk)] ==
            IF n = 0 THEN s ELSE DecodeChat(after[n - 1], chunk[n])
    IN  after[Len(chunk)]

-------------------------------------------------------------------------------
(* The turn *)

Send(s) == state' = Drained(s) /\ sent' = sent \o s.pending

\* One chunk: its deltas are decoded, the events they make are sent.
ReadChunk ==
    /\ step = "reading" /\ turn.transport # "buffered"
    /\ \E chunk \in IF turn.native THEN NativeEvents ELSE ChatChunks :
          /\ chunk # <<>> /\ state.given + Len(chunk) <= MaxDeltas
          /\ Send(IF turn.native THEN DecodeNative(state, chunk[1])
                  ELSE Decoded(state, chunk))
    /\ UNCHANGED <<turn, step>>

\* After the completion marker.
CloseItems ==
    /\ step = "reading" /\ turn.transport # "buffered"
    /\ LET kept == IF turn.transport = "http" THEN ApplyAllowed(state) ELSE state
       IN  Send(FinishMessage(FinishCalls(FinishReasoning(kept))))
    /\ step' = "closed"
    /\ UNCHANGED turn

Complete ==
    /\ step = "closed"
    /\ Send(Make(state, "completed", 0, 0, <<>>))
    /\ step' = "told"
    /\ UNCHANGED turn

\* A stream that breaks, an item that is no valid output, a response that cannot be stored:
\* the client is told, the socket by an emitter of its own.
TellFailure ==
    /\ step \in {"reading", "closed", "told"} /\ turn.transport # "buffered"
    /\ Send(Make(IF turn.transport = "socket" THEN [state EXCEPT !.seq = 0] ELSE state,
                 "failed", 0, 0, <<>>))
    /\ step' = "ended"
    /\ UNCHANGED turn

\* _complete: the parts of one message, and what became of them; no event is sent.
CompleteBuffered ==
    /\ step = "reading" /\ turn.transport = "buffered"
    /\ \E parts \in ChatChunks :
          LET decoded == Decoded(state, parts)
              reasoned == IF \E i \in DOMAIN parts : parts[i].op = "reasoning"
                          THEN FinishReasoning(decoded) ELSE decoded
          IN  state' = Drained(FinishMessage(FinishCalls(ApplyAllowed(reasoned))))
    /\ step' = "told"
    /\ UNCHANGED <<turn, sent>>

ItemsNext == ReadChunk \/ CloseItems \/ Complete \/ TellFailure \/ CompleteBuffered

ItemsSpec == ItemsInit /\ [][ItemsNext]_ivars
-------------------------------------------------------------------------------
(* Properties *)

ItemsMade == 1 .. Len(state.texts)
FramesOf(kind, item) == {i \in DOMAIN sent : sent[i].kind = kind /\ sent[i].item = item}

ItemsTypeOK ==
    /\ turn \in Turns
    /\ step \in {"reading", "closed", "told", "ended"}
    /\ state.message \in {0} \union ItemsMade /\ state.reasoning \in {0} \union ItemsMade
    /\ state.calls \in Seq([index : Nat, item : ItemsMade, named : BOOLEAN, announced : BOOLEAN])
    /\ \A i, j \in DOMAIN state.calls : state.calls[i].index = state.calls[j].index => i = j
    /\ state.texts \in Seq(Seq(1 .. state.given))
    /\ state.index = Len(state.output)
    /\ state.pending = <<>>

\* Between its announcement and its end, each of which is sent once, and nowhere else, the
\* client is told of an item.
EventsAreInsideTheirItem ==
    \A item \in ItemsMade, i \in DOMAIN sent :
        sent[i].item = item =>
            /\ Cardinality(FramesOf("added", item)) = 1
            /\ Cardinality(FramesOf("done", item)) <= 1
            /\ \A a \in FramesOf("added", item) : a <= i
            /\ \A d \in FramesOf("done", item) : i <= d

\* What a client has that adds up the deltas of an item among these events.
AddedUp(events, item) ==
    LET sum[n \in 0 .. Len(events)] ==
            IF n = 0 THEN <<>>
            ELSE IF events[n].kind = "delta" /\ events[n].item = item
                 THEN sum[n - 1] \o events[n].text ELSE sum[n - 1]
    IN  sum[Len(events)]

\* The client that adds up the deltas of an item has the text the item ends with, whatever
\* was interleaved with it, and the response carries the same.
DeltasAddUp ==
    \A item \in ItemsMade : \A d \in FramesOf("done", item) :
        /\ AddedUp(sent, item) = sent[d].text
        /\ \A i \in DOMAIN state.output :
              state.output[i].item = item => state.output[i].text = sent[d].text

\* The output of a response is the items the client saw end, in that order and at the index
\* it was told; and every item it saw begin is there, or a call the request does not allow.
OutputIsWhatEnded ==
    LET ends == {i \in DOMAIN sent : sent[i].kind = "done"}
    IN  (\E i \in DOMAIN sent : sent[i].kind = "completed") =>
            /\ {sent[d].index + 1 : d \in ends} = DOMAIN state.output
            /\ \A d \in ends : state.output[sent[d].index + 1].item = sent[d].item
            /\ \A d, e \in ends : d < e => sent[d].index < sent[e].index
            /\ ~turn.limited =>
                  \A i \in DOMAIN sent : sent[i].item \in {sent[d].item : d \in ends} \union {0}

===============================================================================
