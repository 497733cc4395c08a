SPECIFICATION Spec
INVARIANTS
    TypeOK
    SampledOnce
    OutcomeMatchesSample
    ReleasedAfterUpstream
    LinesArrive
    StoredIsLastWord
    EventsAreInsideTheirItem
    
    OutputIsWhatEnded
    HistoryIsTheConversation
PROPERTIES
    RequestsEnd
    ConnectionEnds
CHECK_DEADLOCK FALSE
CONSTANTS
    Requests <- AllKinds
    MaxLines = 3
    MaxBeats = 1
    Calls = {0, 1}
    MaxDeltas = 3
    MaxChunk = 2
    Sockets = {"s1"}
    MaxTurns = 3
    QueueSize = 1
