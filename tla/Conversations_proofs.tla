------------------------- MODULE Conversations_proofs -------------------------
(***************************************************************************)
(* Theorems of Conversations, for any sockets, any number of turns and any *)
(* size of the queue: its types; and that the upstream is always given the *)
(* conversation a turn continues.  The inductive invariant is ConversationInv.     *)
(***************************************************************************)
EXTENDS Conversations, SequenceTheorems, WellFoundedInduction, TLAPS

-------------------------------------------------------------------------------
(* The inductive invariant *)

\* A turn, and a connection.
TurnRecords == [by : Sockets \union {"http"}, store : BOOLEAN, previous : 0 .. MaxTurns,
                stage : TurnStages, asked : BOOLEAN, history : Seq(Numbers),
                whole : Seq(Numbers)]
Connections == [there : BOOLEAN, disconnected : BOOLEAN, queue : Seq(0 .. MaxTurns),
                reader : {"reads", "ended", "broken"},
                loop : {"head", "waiting", "turn", "over"}, late : BOOLEAN]

\* The types, in four parts.
TurnTypes == turns \in Seq(TurnRecords) /\ Len(turns) <= MaxTurns
RecordTypes == records \subseteq DOMAIN turns
ConnTypes == conn \in [Sockets -> Connections] /\ \A s \in Sockets : Len(conn[s].queue) <= QueueSize
CacheTypes == cache \in [Sockets -> [Numbers -> {None} \union Seq(Numbers)]]

\* The conversation that a turn with this previous one continues.
Continued(previous) == IF previous = 0 THEN <<>> ELSE Append(turns[previous].whole, previous)

\* A turn continues an earlier one; when the upstream is asked it has all of it.
Linked == \A n \in DOMAIN turns :
    turns[n].previous < n /\ turns[n].whole = Continued(turns[n].previous)
Given == \A n \in DOMAIN turns : turns[n].asked => turns[n].history = turns[n].whole
Asked == \A n \in DOMAIN turns : turns[n].stage = "answering" => turns[n].asked

\* A turn that will be stored and is being answered continues one that is stored, and so does
\* every one that is.
Reached(n) == turns[n].previous \in {0} \union records
StoredReach ==
    /\ \A n \in records : Reached(n)
    /\ \A n \in DOMAIN turns : turns[n].stage = "answering" /\ turns[n].store => Reached(n)

\* The turn of a loop: there is one exactly when the loop runs one.
Runs(s, n) == turns[n].by = s /\ turns[n].stage \in {"resolving", "answering"}
OneTurn(s) ==
    /\ conn[s].loop = "turn" => \E n \in DOMAIN turns : Runs(s, n)
    /\ \A n \in DOMAIN turns : Runs(s, n) =>
          conn[s].loop = "turn" /\ \A m \in DOMAIN turns : Runs(s, m) => m = n

\* A cache holds conversations, and a turn that is about to take one finds it.
CacheTrue(s) ==
    \A p \in Numbers : cache[s][p] # None =>
        p \in DOMAIN turns /\ cache[s][p] = Continued(p)
CacheKept(s) ==
    \A n \in DOMAIN turns :
        /\ turns[n].by = s /\ turns[n].stage = "resolving"
        /\ ~turns[n].store /\ turns[n].previous # 0
        => cache[s][turns[n].previous] # None

\* What waits in a queue was sent there, and waits once.
Queued(s) ==
    \A i \in DOMAIN conn[s].queue : conn[s].queue[i] # 0 =>
        /\ conn[s].queue[i] \in DOMAIN turns
        /\ turns[conn[s].queue[i]].by = s /\ turns[conn[s].queue[i]].stage = "sent"
        /\ \A j \in DOMAIN conn[s].queue : conn[s].queue[j] = conn[s].queue[i] => j = i

Types == TurnTypes /\ RecordTypes /\ ConnTypes /\ CacheTypes
SocketInv(s) == OneTurn(s) /\ CacheTrue(s) /\ CacheKept(s) /\ Queued(s)
ConversationInv ==
    /\ Types
    /\ Linked /\ Given /\ Asked /\ StoredReach
    /\ \A s \in Sockets : SocketInv(s)

-------------------------------------------------------------------------------
(* Sequences and records *)

\* A set of numbers that is not empty has a least element.
LEMMA LeastNumber ==
    ASSUME NEW S, S \subseteq Nat, S # {}
    PROVE  \E m \in S : \A k \in S : ~(k < m)
<1> DEFINE Less == OpToRel(<, Nat)
<1>1. IsWellFoundedOn(Less, Nat)
  BY NatLessThanWellFounded
<1> HIDE DEF Less
<1>2. PICK m \in S : \A k \in S : <<k, m>> \notin Less
  BY <1>1, WFMin
<1>3. \A k \in S : k < m => <<k, m>> \in Less
  BY DEF Less, OpToRel
<1> QED
  BY <1>2, <1>3

\* The places of the turns.
LEMMA TurnPlaces ==
    ASSUME TurnTypes
    PROVE  /\ Len(turns) \in Nat /\ DOMAIN turns = 1 .. Len(turns)
           /\ DOMAIN turns \subseteq Numbers
           /\ \A n \in DOMAIN turns : turns[n] \in TurnRecords
<1>1. Len(turns) \in Nat /\ DOMAIN turns = 1 .. Len(turns)
  BY LenProperties DEF TurnTypes
<1>2. \A n \in DOMAIN turns : turns[n] \in TurnRecords
  BY <1>1, ElementOfSeq DEF TurnTypes
<1> QED
  BY <1>1, <1>2, ConversationsAssumption DEF TurnTypes, Numbers

\* A turn keeps all but its stage, and nothing is added.
KeptButStages ==
    /\ DOMAIN turns' = DOMAIN turns
    /\ \A m \in DOMAIN turns :
          /\ turns'[m].by = turns[m].by /\ turns'[m].store = turns[m].store
          /\ turns'[m].previous = turns[m].previous /\ turns'[m].asked = turns[m].asked
          /\ turns'[m].history = turns[m].history /\ turns'[m].whole = turns[m].whole

\* One stage is written.
LEMMA StageWritten ==
    ASSUME TurnTypes, NEW n \in DOMAIN turns, NEW x \in TurnStages,
           turns' = [turns EXCEPT ![n].stage = x]
    PROVE  /\ TurnTypes' /\ KeptButStages
           /\ \A m \in DOMAIN turns : turns'[m].stage = IF m = n THEN x ELSE turns[m].stage
<1>1. [turns[n] EXCEPT !.stage = x] \in TurnRecords
  BY TurnPlaces DEF TurnRecords
<1>2. turns' = [turns EXCEPT ![n] = [turns[n] EXCEPT !.stage = x]]
  OBVIOUS
<1>3. /\ turns' \in Seq(TurnRecords) /\ Len(turns') = Len(turns)
      /\ \A i \in 1 .. Len(turns) : turns'[i] = IF i = n THEN [turns[n] EXCEPT !.stage = x] ELSE turns[i]
  BY <1>1, <1>2, TurnPlaces, ExceptSeq DEF TurnTypes
<1>4. TurnTypes' /\ DOMAIN turns' = DOMAIN turns
  BY <1>3, TurnPlaces, LenProperties DEF TurnTypes
<1>5. \A m \in DOMAIN turns : turns[m] \in TurnRecords
  BY TurnPlaces
<1>6. ASSUME NEW m \in DOMAIN turns, m # n PROVE turns'[m] = turns[m]
  BY <1>3, <1>6, TurnPlaces
<1>7. turns'[n] = [turns[n] EXCEPT !.stage = x]
  BY <1>3, TurnPlaces
<1>8. /\ turns'[n].by = turns[n].by /\ turns'[n].store = turns[n].store
      /\ turns'[n].previous = turns[n].previous /\ turns'[n].asked = turns[n].asked
      /\ turns'[n].history = turns[n].history /\ turns'[n].whole = turns[n].whole
      /\ turns'[n].stage = x
  BY <1>5, <1>7 DEF TurnRecords
<1> QED
  BY <1>4, <1>6, <1>8 DEF KeptButStages

\* A connection that closes drops what it had.
LEMMA StagesDropped ==
    ASSUME Types, NEW s \in Sockets, Close(s, turns)
    PROVE  /\ TurnTypes' /\ KeptButStages
           /\ \A m \in DOMAIN turns :
                turns'[m].stage = IF turns[m].by = s /\ turns[m].stage \notin Ended
                                  THEN "dropped" ELSE turns[m].stage
<1> DEFINE New(m) == IF turns[m].by = s /\ turns[m].stage \notin Ended
                     THEN [turns[m] EXCEPT !.stage = "dropped"] ELSE turns[m]
<1>0. TurnTypes /\ turns' = [m \in DOMAIN turns |-> New(m)]
  BY DEF Types, Close
<1>1. \A m \in DOMAIN turns : turns[m] \in TurnRecords
  BY <1>0, TurnPlaces
<1>2. \A m \in DOMAIN turns : New(m) \in TurnRecords
  BY <1>1 DEF TurnRecords, TurnStages, Ended
<1>3. ASSUME NEW m \in DOMAIN turns
      PROVE  /\ New(m).by = turns[m].by /\ New(m).store = turns[m].store
             /\ New(m).previous = turns[m].previous /\ New(m).asked = turns[m].asked
             /\ New(m).history = turns[m].history /\ New(m).whole = turns[m].whole
             /\ New(m).stage = IF turns[m].by = s /\ turns[m].stage \notin Ended
                               THEN "dropped" ELSE turns[m].stage
  BY <1>1 DEF TurnRecords
<1> HIDE DEF New
<1>4. turns' = [m \in 1 .. Len(turns) |-> New(m)] /\ \A m \in 1 .. Len(turns) : New(m) \in TurnRecords
  BY <1>0, <1>2, TurnPlaces
<1>5. turns' \in Seq(TurnRecords) /\ Len(turns') = Len(turns)
  BY <1>0, <1>4, TurnPlaces, IsASeq
<1>6. TurnTypes' /\ DOMAIN turns' = DOMAIN turns
  BY <1>0, <1>5, TurnPlaces, LenProperties DEF TurnTypes
<1> QED
  BY <1>0, <1>3, <1>6 DEF KeptButStages

\* A turn is added.
LEMMA TurnAdded ==
    ASSUME TurnTypes, Len(turns) < MaxTurns, NEW r \in TurnRecords, turns' = Append(turns, r)
    PROVE  /\ TurnTypes' /\ Len(turns') = Len(turns) + 1
           /\ DOMAIN turns' = DOMAIN turns \union {Len(turns) + 1}
           /\ Len(turns) + 1 \notin DOMAIN turns
           /\ turns'[Len(turns) + 1] = r
           /\ \A m \in DOMAIN turns : turns'[m] = turns[m]
<1>1. /\ turns' \in Seq(TurnRecords) /\ Len(turns') = Len(turns) + 1
      /\ \A i \in 1 .. Len(turns) : turns'[i] = turns[i]
      /\ turns'[Len(turns) + 1] = r
  BY AppendProperties DEF TurnTypes
<1>2. Len(turns) \in Nat /\ DOMAIN turns = 1 .. Len(turns) /\ DOMAIN turns' = 1 .. Len(turns')
  BY <1>1, TurnPlaces, LenProperties
<1> QED
  BY <1>1, <1>2, ConversationsAssumption DEF TurnTypes

-------------------------------------------------------------------------------
(* What a turn continues *)

\* What a stored turn is made from, read back from its record, is the conversation: the walk
\* along the links does not miss one, because no stored turn continues another that is not.
LEMMA HistoryRead ==
    ASSUME Types, Linked, StoredReach, NEW p \in {0} \union records
    PROVE  ChainHistory(p) = Continued(p)
<1> DEFINE Step(w, n) == IF n = 0 \/ n \notin records THEN <<>>
                         ELSE Append(w[turns[n].previous], n)
           Walk(w) == w = [n \in 0 .. MaxTurns |-> Step(w, n)]
           whole == [n \in 0 .. MaxTurns |-> IF n \in records THEN Continued(n) ELSE <<>>]
           walked == CHOOSE w : Walk(w)
           Other == {n \in 0 .. MaxTurns : walked[n] # whole[n]}
<1>1. ChainHistory(p) = walked[p]
  BY DEF ChainHistory
<1>2. ASSUME NEW n \in records
      PROVE  /\ n \in 1 .. MaxTurns /\ turns[n].previous \in 0 .. MaxTurns
             /\ turns[n].previous < n /\ turns[n].previous \in {0} \union records
             /\ turns[n].whole = Continued(turns[n].previous)
  <2>1. n \in DOMAIN turns /\ n \in Numbers /\ turns[n] \in TurnRecords
    BY TurnPlaces DEF Types, RecordTypes
  <2>2. turns[n].previous \in 0 .. MaxTurns
    BY <2>1 DEF TurnRecords
  <2> QED
    BY <2>1, <2>2 DEF Linked, StoredReach, Reached, Numbers
<1>3. 0 \notin records /\ Continued(0) = <<>>
  <2>1. 0 \notin 1 .. MaxTurns
    BY ConversationsAssumption
  <2> QED
    BY <1>2, <2>1 DEF Continued
<1>4. ASSUME NEW n \in 0 .. MaxTurns PROVE whole[n] = Step(whole, n)
  <2>1. CASE n \notin records
    BY <2>1
  <2>2. CASE n \in records
    <3>1. whole[n] = Append(turns[n].whole, n) /\ n # 0
      BY <2>2, <1>2, <1>3 DEF Continued
    <3>2. whole[turns[n].previous] = turns[n].whole
      BY <2>2, <1>2, <1>3
    <3> QED
      BY <2>2, <3>1, <3>2
  <2> QED
    BY <2>1, <2>2
<1>5. whole = [n \in 0 .. MaxTurns |-> Step(whole, n)]
  <2> HIDE DEF Step
  <2>1. whole = [n \in 0 .. MaxTurns |-> whole[n]]
    OBVIOUS
  <2> QED
    BY <1>4, <2>1
<1>6. Walk(walked)
  <2>1. Walk(whole)
    BY <1>5
  <2> HIDE DEF Walk, whole
  <2> QED
    BY <2>1
<1>7. \A n \in 0 .. MaxTurns : walked[n] = Step(walked, n)
  <2> HIDE DEF walked, Step
  <2> QED
    BY <1>6
<1>8. Other = {}
  <2> HIDE DEF walked, whole
  <2>1. SUFFICES ASSUME Other # {} PROVE FALSE
    OBVIOUS
  <2>2. Other \subseteq Nat
    BY ConversationsAssumption
  <2> HIDE DEF Other
  <2>3. PICK m \in Other : \A k \in Other : ~(k < m)
    BY <2>1, <2>2, LeastNumber
  <2> USE DEF Other
  <2>4. m \in 0 .. MaxTurns /\ walked[m] # whole[m]
    BY <2>3
  <2>5. m \in records
    BY <1>4, <1>7, <2>4
  <2>6. turns[m].previous \in 0 .. MaxTurns /\ turns[m].previous \notin Other
    BY <2>3, <2>5, <1>2
  <2>7. walked[turns[m].previous] = whole[turns[m].previous]
    BY <2>6
  <2> QED
    BY <1>4, <1>7, <2>4, <2>7
<1>9. p \in 0 .. MaxTurns
  BY <1>2, ConversationsAssumption
<1>10. walked[p] = whole[p]
  <2> HIDE DEF walked, whole
  <2> QED
    BY <1>8, <1>9
<1>11. whole[p] = Continued(p)
  BY <1>3, <1>9
<1> QED
  BY <1>1, <1>10, <1>11

\* Where only stages change, every turn continues what it did.
LEMMA StagesKeepLinks ==
    ASSUME Types, Linked, Given, KeptButStages
    PROVE  /\ Linked' /\ Given'
           /\ \A p \in {0} \union DOMAIN turns : Continued(p)' = Continued(p)
<1>1. \A p \in {0} \union DOMAIN turns : Continued(p)' = Continued(p)
  BY DEF KeptButStages, Continued
<1>2. \A n \in DOMAIN turns : turns[n].previous \in {0} \union DOMAIN turns
  <2> SUFFICES ASSUME NEW n \in DOMAIN turns
               PROVE  turns[n].previous \in {0} \union DOMAIN turns
    OBVIOUS
  <2>1. turns[n].previous \in 0 .. MaxTurns /\ turns[n].previous < n /\ n \in 1 .. Len(turns)
    BY TurnPlaces DEF Types, Linked, TurnRecords
  <2> QED
    BY <2>1, TurnPlaces, ConversationsAssumption DEF Types
<1>3. Linked'
  <2>1. DOMAIN turns' = DOMAIN turns
    BY DEF KeptButStages
  <2>2. \A n \in DOMAIN turns : turns[n].previous < n /\ turns[n].whole = Continued(turns[n].previous)
    BY DEF Linked
  <2>3. \A n \in DOMAIN turns :
            turns'[n].previous = turns[n].previous /\ turns'[n].whole = turns[n].whole
    BY DEF KeptButStages
  <2>4. \A n \in DOMAIN turns : Continued(turns[n].previous)' = Continued(turns[n].previous)
    <3> SUFFICES ASSUME NEW n \in DOMAIN turns
                 PROVE  Continued(turns[n].previous)' = Continued(turns[n].previous)
      OBVIOUS
    <3>1. PICK p : p = turns[n].previous
      OBVIOUS
    <3>2. turns'[n].previous = p /\ p \in {0} \union DOMAIN turns
      BY <1>2, <2>3, <3>1
    <3> QED
      BY <1>1, <3>1, <3>2
  <2> QED
    BY <2>1, <2>2, <2>3, <2>4 DEF Linked
<1>4. Given'
  <2>1. \A n \in DOMAIN turns : turns[n].asked => turns[n].history = turns[n].whole
    BY DEF Given
  <2>2. DOMAIN turns' = DOMAIN turns
    BY DEF KeptButStages
  <2>3. \A n \in DOMAIN turns :
            /\ turns'[n].asked = turns[n].asked
            /\ turns'[n].history = turns[n].history /\ turns'[n].whole = turns[n].whole
    BY DEF KeptButStages
  <2> QED
    BY <2>1, <2>2, <2>3, Zenon DEF Given
<1> QED
  BY <1>1, <1>3, <1>4

\* A new turn continues an earlier one.
LEMMA NewTurnTypes ==
    ASSUME Types, NEW by \in Sockets \union {"http"}, NEW store \in BOOLEAN,
           NEW previous \in 0 .. Len(turns), NEW stage \in TurnStages
    PROVE  /\ NewTurn(by, store, previous, stage) \in TurnRecords
           /\ NewTurn(by, store, previous, stage).whole = Continued(previous)
           /\ Continued(previous) \in Seq(Numbers)
<1>1. previous = 0 \/ previous \in DOMAIN turns
  BY TurnPlaces DEF Types
<1>2. ASSUME previous # 0
      PROVE turns[previous].whole \in Seq(Numbers) /\ previous \in Numbers
  BY <1>1, <1>2, TurnPlaces DEF Types, TurnRecords
<1>3. Continued(previous) \in Seq(Numbers)
  BY <1>2, AppendProperties, EmptySeq DEF Continued
<1>4. previous \in 0 .. MaxTurns
  BY TurnPlaces, ConversationsAssumption DEF Types, TurnTypes
<1>5. <<>> \in Seq(Numbers)
  BY EmptySeq
<1>6. NewTurn(by, store, previous, stage).whole = Continued(previous)
  BY DEF NewTurn, Continued
<1> QED
  BY <1>3, <1>4, <1>5, <1>6 DEF NewTurn, TurnRecords, Continued

\* A turn that is added is linked to an earlier one, and the others stay as they were.
LEMMA AddedKeepsLinks ==
    ASSUME Types, Linked, Given, Len(turns) < MaxTurns, NEW r \in TurnRecords,
           turns' = Append(turns, r), r.previous \in 0 .. Len(turns),
           r.whole = Continued(r.previous), r.asked => r.history = r.whole
    PROVE  /\ Linked' /\ Given'
           /\ \A p \in {0} \union DOMAIN turns : Continued(p)' = Continued(p)
<1>0. /\ DOMAIN turns' = DOMAIN turns \union {Len(turns) + 1}
      /\ turns'[Len(turns) + 1] = r
      /\ \A m \in DOMAIN turns : turns'[m] = turns[m]
      /\ Len(turns) \in Nat /\ DOMAIN turns = 1 .. Len(turns)
  BY TurnAdded, TurnPlaces DEF Types
<1>1. \A p \in {0} \union DOMAIN turns : Continued(p)' = Continued(p)
  BY <1>0 DEF Continued
<1>2. \A n \in DOMAIN turns : turns[n].previous \in {0} \union DOMAIN turns
  <2> SUFFICES ASSUME NEW n \in DOMAIN turns
               PROVE  turns[n].previous \in {0} \union DOMAIN turns
    OBVIOUS
  <2>1. turns[n].previous \in 0 .. MaxTurns /\ turns[n].previous < n /\ n \in 1 .. Len(turns)
    BY TurnPlaces DEF Types, Linked, TurnRecords
  <2> QED
    BY <2>1, TurnPlaces, ConversationsAssumption DEF Types
<1>3. r.previous \in {0} \union DOMAIN turns /\ r.previous < Len(turns) + 1
  BY <1>0
<1> DEFINE New(p) == IF p = 0 THEN <<>> ELSE Append(turns'[p].whole, p)
<1>8. \A p \in {0} \union DOMAIN turns : New(p) = Continued(p)
  BY <1>1 DEF Continued
<1> HIDE DEF New
<1>4. \A n \in DOMAIN turns : turns'[n].previous < n
                              /\ turns'[n].whole = New(turns'[n].previous)
  BY <1>0, <1>8, <1>2 DEF Linked
<1>5. turns'[Len(turns) + 1].whole = New(turns'[Len(turns) + 1].previous)
  BY <1>0, <1>8, <1>3
<1>6. Linked'
  BY <1>0, <1>3, <1>4, <1>5 DEF Linked, Continued, New
<1>7. Given'
  BY <1>0 DEF Given
<1> QED
  BY <1>1, <1>6, <1>7

-------------------------------------------------------------------------------
(* Steps *)

\* What a turn continues is an earlier turn.
LEMMA PreviousPlaces ==
    ASSUME Types, Linked, NEW n \in DOMAIN turns
    PROVE  /\ turns[n].previous \in {0} \union DOMAIN turns
           /\ turns[n].previous # 0 => turns[n].previous \in Numbers
<1>1. /\ turns[n].previous \in 0 .. MaxTurns /\ turns[n].previous < n /\ n \in 1 .. Len(turns)
      /\ Len(turns) \in Nat /\ Len(turns) <= MaxTurns
  BY TurnPlaces DEF Types, Linked, TurnRecords, TurnTypes
<1> QED
  BY <1>1, TurnPlaces, ConversationsAssumption DEF Types, Numbers

\* Where stages change, nothing begins to be answered, and what is stored was being answered,
\* histories stay complete.
LEMMA StagesKeepHistories ==
    ASSUME ConversationInv, KeptButStages, records \subseteq records', records' \subseteq DOMAIN turns,
           \A n \in records' \ records : turns[n].stage = "answering" /\ turns[n].store,
           \A n \in DOMAIN turns : turns'[n].stage = "answering" => turns[n].stage = "answering"
    PROVE  /\ RecordTypes' /\ Linked' /\ Given' /\ Asked' /\ StoredReach'
           /\ \A p \in {0} \union DOMAIN turns : Continued(p)' = Continued(p)
<1>1. /\ Linked' /\ Given' /\ \A p \in {0} \union DOMAIN turns : Continued(p)' = Continued(p)
  BY StagesKeepLinks DEF ConversationInv
<1>2. RecordTypes'
  BY DEF KeptButStages, RecordTypes
<1>3. Asked'
  BY DEF ConversationInv, KeptButStages, Asked
<1>4. \A n \in DOMAIN turns : Reached(n) => Reached(n)'
  BY DEF KeptButStages, Reached
<1>5. \A n \in records' : Reached(n)
  BY DEF ConversationInv, StoredReach
<1>6. \A n \in DOMAIN turns : turns'[n].stage = "answering" /\ turns'[n].store => Reached(n)
  BY DEF ConversationInv, StoredReach, KeptButStages
<1>7. StoredReach'
  BY <1>4, <1>5, <1>6 DEF StoredReach, KeptButStages
<1> QED
  BY <1>1, <1>2, <1>3, <1>7

\* A cache that only loses entries stays true where stages change.
LEMMA CacheStaysTrue ==
    ASSUME ConversationInv, KeptButStages, NEW t \in Sockets,
           \A p \in DOMAIN turns : Continued(p)' = Continued(p),
           \A p \in Numbers : cache'[t][p] # None => cache'[t][p] = cache[t][p]
    PROVE  CacheTrue(t)'
<1>1. CacheTrue(t)
  BY DEF ConversationInv, SocketInv
<1> QED
  BY <1>1 DEF CacheTrue, KeptButStages

\* A socket that nothing happens to, but to the turns of others.
LEMMA OthersStay ==
    ASSUME ConversationInv, KeptButStages, NEW t \in Sockets,
           \A p \in DOMAIN turns : Continued(p)' = Continued(p),
           conn'[t] = conn[t], cache'[t] = cache[t],
           \A m \in DOMAIN turns : turns[m].by = t => turns'[m].stage = turns[m].stage
    PROVE  SocketInv(t)'
<1>0. SocketInv(t)
  BY DEF ConversationInv
<1>1. CacheTrue(t)'
  BY CacheStaysTrue
<1>2. \A m \in DOMAIN turns : Runs(t, m)' <=> Runs(t, m)
  BY DEF Runs, KeptButStages
<1>3. OneTurn(t)'
  BY <1>0, <1>2 DEF SocketInv, OneTurn, KeptButStages
<1>4. CacheKept(t)'
  BY <1>0 DEF SocketInv, CacheKept, KeptButStages
<1>5. Queued(t)'
  BY <1>0 DEF SocketInv, Queued, KeptButStages
<1> QED
  BY <1>1, <1>3, <1>4, <1>5 DEF SocketInv

\* A turn arrives: over HTTP, where it is answered or refused at once, or on a socket, where
\* it joins the queue or is dropped.
LEMMA ArrivalStep ==
    ASSUME ConversationInv, Len(turns) < MaxTurns, NEW r \in TurnRecords,
           turns' = Append(turns, r), r.previous \in 0 .. Len(turns),
           r.whole = Continued(r.previous), r.asked => r.history = r.whole,
           r.stage # "resolving",
           r.stage = "answering" =>
               r.asked /\ r.by = "http" /\ r.previous \in {0} \union records,
           UNCHANGED <<records, cache>>, ConnTypes',
           \A s \in Sockets : conn'[s].loop = conn[s].loop,
           \A s \in Sockets : \/ conn'[s].queue = conn[s].queue
                              \/ /\ conn'[s].queue = Append(conn[s].queue, Len(turns) + 1)
                                 /\ r.by = s /\ r.stage = "sent"
    PROVE  ConversationInv'
<1>0. PICK new : new = Len(turns) + 1
  OBVIOUS
<1>1. /\ TurnTypes' /\ DOMAIN turns' = DOMAIN turns \union {new} /\ new \notin DOMAIN turns
      /\ turns'[new] = r /\ \A m \in DOMAIN turns : turns'[m] = turns[m]
  BY <1>0, TurnAdded DEF ConversationInv, Types
<1>2. /\ Linked' /\ Given' /\ \A p \in {0} \union DOMAIN turns : Continued(p)' = Continued(p)
  BY AddedKeepsLinks DEF ConversationInv
<1>3. Types'
  BY <1>1 DEF ConversationInv, Types, RecordTypes, CacheTypes
<1>4. Asked'
  BY <1>1 DEF ConversationInv, Asked
<1>5. StoredReach'
  <2>1. \A n \in records : n \in DOMAIN turns /\ Reached(n)
    BY DEF ConversationInv, StoredReach, Types, RecordTypes
  <2>2. \A n \in DOMAIN turns : turns[n].stage = "answering" /\ turns[n].store => Reached(n)
    BY DEF ConversationInv, StoredReach
  <2>3. \A n \in DOMAIN turns : Reached(n)' <=> Reached(n)
    BY <1>1 DEF Reached
  <2>4. r.stage = "answering" => Reached(new)'
    BY <1>1 DEF Reached
  <2> QED
    BY <1>1, <2>1, <2>2, <2>3, <2>4 DEF StoredReach
<1>6. ASSUME NEW s \in Sockets PROVE SocketInv(s)'
  <2>0. SocketInv(s)
    BY DEF ConversationInv
  <2>1. s # "http"
    BY ConversationsAssumption
  <2>2. /\ \A m \in DOMAIN turns : Runs(s, m)' <=> Runs(s, m)
        /\ ~Runs(s, new)'
    BY <1>1, <2>1 DEF Runs
  <2>3. OneTurn(s)'
    BY <1>1, <2>0, <2>2 DEF SocketInv, OneTurn
  <2>4. CacheTrue(s)'
    BY <1>1, <1>2, <2>0 DEF SocketInv, CacheTrue
  <2>5. CacheKept(s)'
    BY <1>1, <2>0 DEF SocketInv, CacheKept
  <2>6. Queued(s)'
    <3>1. CASE conn'[s].queue = conn[s].queue
      BY <1>1, <2>0, <3>1 DEF SocketInv, Queued
    <3>2. CASE conn'[s].queue = Append(conn[s].queue, new) /\ r.by = s /\ r.stage = "sent"
      <4> DEFINE q == conn[s].queue
      <4>1. q \in Seq(0 .. MaxTurns)
        BY DEF ConversationInv, Types, ConnTypes, Connections
      <4>2. new \in 0 .. MaxTurns /\ new # 0
        BY <1>0, TurnPlaces, ConversationsAssumption DEF ConversationInv, Types
      <4> DEFINE qq == conn'[s].queue
      <4>3. /\ qq \in Seq(0 .. MaxTurns) /\ Len(qq) = Len(q) + 1
            /\ \A i \in 1 .. Len(q) : qq[i] = q[i]
            /\ qq[Len(q) + 1] = new
        BY <3>2, <4>1, <4>2, AppendProperties
      <4>4. Len(q) \in Nat /\ DOMAIN q = 1 .. Len(q) /\ DOMAIN qq = 1 .. Len(qq)
        BY <4>1, <4>3, LenProperties
      <4>5. \A i \in DOMAIN q : q[i] # 0 =>
               /\ q[i] \in DOMAIN turns /\ turns[q[i]].by = s /\ turns[q[i]].stage = "sent"
               /\ \A j \in DOMAIN q : q[j] = q[i] => j = i
        BY <2>0 DEF SocketInv, Queued
      <4> HIDE DEF q, qq
      <4>6. DOMAIN qq = DOMAIN q \union {Len(q) + 1} /\ \A i \in DOMAIN q : qq[i] = q[i]
        BY <4>3, <4>4
      <4>7. \A i \in DOMAIN q : q[i] # new
        BY <1>1, <4>5, <4>2
      <4>8. \A i \in DOMAIN qq : qq[i] # 0 =>
               /\ qq[i] \in DOMAIN turns' /\ turns'[qq[i]].by = s /\ turns'[qq[i]].stage = "sent"
               /\ \A j \in DOMAIN qq : qq[j] = qq[i] => j = i
        BY <1>1, <3>2, <4>3, <4>5, <4>6, <4>7
      <4> QED
        BY <4>8 DEF Queued, qq
    <3> QED
      BY <1>0, <3>1, <3>2
  <2> QED
    BY <2>3, <2>4, <2>5, <2>6 DEF SocketInv
<1> QED
  BY <1>2, <1>3, <1>4, <1>5, <1>6 DEF ConversationInv

\* What happens to a connection, other than to its turns.
LEMMA ConnectionStep ==
    ASSUME ConversationInv, UNCHANGED <<turns, records, cache>>, ConnTypes',
           \A s \in Sockets : conn'[s].loop = "turn" <=> conn[s].loop = "turn",
           \A s \in Sockets : \/ conn'[s].queue = conn[s].queue
                              \/ conn'[s].queue = Append(conn[s].queue, 0)
    PROVE  ConversationInv'
<1>1. Types' /\ Linked' /\ Given' /\ Asked' /\ StoredReach'
  BY DEF ConversationInv, Types, TurnTypes, RecordTypes, CacheTypes, Linked, Continued, Given, Asked,
         StoredReach, Reached
<1>2. ASSUME NEW s \in Sockets PROVE SocketInv(s)'
  <2>0. SocketInv(s)
    BY DEF ConversationInv
  <2>1. OneTurn(s)'
    BY <2>0 DEF SocketInv, OneTurn, Runs
  <2>2. CacheTrue(s)' /\ CacheKept(s)'
    BY <2>0 DEF SocketInv, CacheTrue, CacheKept, Continued
  <2>3. Queued(s)'
    <3>1. CASE conn'[s].queue = conn[s].queue
      BY <2>0, <3>1 DEF SocketInv, Queued
    <3>2. CASE conn'[s].queue = Append(conn[s].queue, 0)
      <4> DEFINE q == conn[s].queue
                 qq == conn'[s].queue
      <4>1. q \in Seq(0 .. MaxTurns) /\ 0 \in 0 .. MaxTurns
        BY ConversationsAssumption DEF ConversationInv, Types, ConnTypes, Connections
      <4>3. /\ qq \in Seq(0 .. MaxTurns) /\ Len(qq) = Len(q) + 1
            /\ \A i \in 1 .. Len(q) : qq[i] = q[i]
            /\ qq[Len(q) + 1] = 0
        BY <3>2, <4>1, AppendProperties
      <4>4. Len(q) \in Nat /\ DOMAIN q = 1 .. Len(q) /\ DOMAIN qq = 1 .. Len(qq)
        BY <4>1, <4>3, LenProperties
      <4>5. \A i \in DOMAIN q : q[i] # 0 =>
               /\ q[i] \in DOMAIN turns /\ turns[q[i]].by = s /\ turns[q[i]].stage = "sent"
               /\ \A j \in DOMAIN q : q[j] = q[i] => j = i
        BY <2>0 DEF SocketInv, Queued
      <4> HIDE DEF q, qq
      <4>6. DOMAIN qq = DOMAIN q \union {Len(q) + 1} /\ \A i \in DOMAIN q : qq[i] = q[i]
        BY <4>3, <4>4
      <4>8. \A i \in DOMAIN qq : qq[i] # 0 =>
               /\ qq[i] \in DOMAIN turns' /\ turns'[qq[i]].by = s /\ turns'[qq[i]].stage = "sent"
               /\ \A j \in DOMAIN qq : qq[j] = qq[i] => j = i
        BY <4>3, <4>5, <4>6
      <4> QED
        BY <4>8 DEF Queued, qq
    <3> QED
      BY <3>1, <3>2
  <2> QED
    BY <2>1, <2>2, <2>3 DEF SocketInv
<1> QED
  BY <1>1, <1>2 DEF ConversationInv

\* The connection closes.
LEMMA SocketCloses ==
    ASSUME ConversationInv, NEW s \in Sockets, Close(s, turns), UNCHANGED <<records, cache>>
    PROVE  ConversationInv'
<1>1. /\ TurnTypes' /\ KeptButStages
      /\ \A m \in DOMAIN turns :
            turns'[m].stage = IF turns[m].by = s /\ turns[m].stage \notin Ended
                              THEN "dropped" ELSE turns[m].stage
  BY StagesDropped DEF ConversationInv
<1>2. /\ RecordTypes' /\ Linked' /\ Given' /\ Asked' /\ StoredReach'
      /\ \A p \in {0} \union DOMAIN turns : Continued(p)' = Continued(p)
  <2>1. records \subseteq DOMAIN turns
    BY DEF ConversationInv, Types, RecordTypes
  <2> QED
    BY <1>1, <2>1, StagesKeepHistories
<1>3. conn' = [conn EXCEPT ![s] = [conn[s] EXCEPT !.loop = "over", !.reader = "ended", !.queue = <<>>]]
  BY DEF Close, ConversationInv, Types, ConnTypes
<1>4. conn \in [Sockets -> Connections] /\ conn[s] \in Connections
  BY DEF ConversationInv, Types, ConnTypes
<1>5. /\ conn' \in [Sockets -> Connections]
      /\ conn'[s].loop = "over" /\ conn'[s].queue = <<>>
      /\ \A t \in Sockets \ {s} : conn'[t] = conn[t]
  <2>1. <<>> \in Seq(0 .. MaxTurns)
    BY EmptySeq
  <2>2. [conn[s] EXCEPT !.loop = "over", !.reader = "ended", !.queue = <<>>] \in Connections
    BY <1>4, <2>1 DEF Connections
  <2>3. conn'[s] = [conn[s] EXCEPT !.loop = "over", !.reader = "ended", !.queue = <<>>]
    BY <1>3, <1>4
  <2> QED
    BY <1>3, <1>4, <2>2, <2>3 DEF Connections
<1>6. ConnTypes'
  <2>1. Len(<<>>) = 0 /\ QueueSize \in Nat
    BY EmptySeq, ConversationsAssumption
  <2> QED
    BY <1>5, <2>1 DEF ConnTypes, ConversationInv, Types
<1>7. CacheTypes'
  BY DEF CacheTypes, ConversationInv, Types
<1>8. ASSUME NEW t \in Sockets, t # s PROVE SocketInv(t)'
  BY <1>1, <1>2, <1>5, <1>8, OthersStay
<1>9. SocketInv(s)'
  <2>1. CacheTrue(s)'
    BY <1>1, <1>2, CacheStaysTrue
  <2>2. \A m \in DOMAIN turns : ~Runs(s, m)'
    BY <1>1 DEF Runs, KeptButStages, Ended
  <2>3. OneTurn(s)'
    BY <1>1, <1>5, <2>2 DEF OneTurn, KeptButStages
  <2>4. CacheKept(s)'
    BY <1>1, <2>2 DEF CacheKept, KeptButStages, Runs
  <2>5. Queued(s)'
    BY <1>5, EmptySeq DEF Queued
  <2> QED
    BY <2>1, <2>3, <2>4, <2>5 DEF SocketInv
<1> QED
  BY <1>1, <1>2, <1>6, <1>7, <1>8, <1>9 DEF ConversationInv, Types

\* The queue of a socket, written as a sequence.
LEMMA QueuedAs ==
    ASSUME NEW s, NEW q, conn'[s].queue = q,
           \A i \in DOMAIN q : q[i] # 0 =>
              /\ q[i] \in DOMAIN turns' /\ turns'[q[i]].by = s /\ turns'[q[i]].stage = "sent"
              /\ \A j \in DOMAIN q : q[j] = q[i] => j = i
    PROVE  Queued(s)'
BY DEF Queued

\* A message is taken from the queue: its turn is refused, or begins.
LEMMA TakenStep ==
    ASSUME ConversationInv, NEW s \in Sockets, NEW n, NEW x \in {"refused", "resolving"}, NEW y,
           conn[s].loop = "waiting", conn[s].queue # <<>>, n = Head(conn[s].queue), n # 0,
           turns' = [turns EXCEPT ![n].stage = x],
           y = (IF x = "refused" THEN "head" ELSE "turn"),
           conn' = [conn EXCEPT ![s] = [conn[s] EXCEPT !.queue = Tail(@), !.loop = y]],
           x = "resolving" => Continues(s, n),
           UNCHANGED <<records, cache>>
    PROVE  ConversationInv'
<1> DEFINE q == conn[s].queue
           qq == Tail(conn[s].queue)
<1>0. conn \in [Sockets -> Connections] /\ conn[s] \in Connections /\ q \in Seq(0 .. MaxTurns)
  BY DEF ConversationInv, Types, ConnTypes, Connections
<1>1. /\ Len(q) \in Nat /\ Len(q) # 0 /\ DOMAIN q = 1 .. Len(q) /\ n = q[1]
  BY <1>0, LenProperties, EmptySeq
<1>2. /\ qq \in Seq(0 .. MaxTurns) /\ Len(qq) = Len(q) - 1
      /\ \A i \in 1 .. Len(qq) : qq[i] = q[i + 1]
      /\ DOMAIN qq = 1 .. Len(qq)
  BY <1>0, HeadTailProperties, LenProperties
<1>3. /\ n \in DOMAIN turns /\ turns[n].by = s /\ turns[n].stage = "sent"
      /\ \A j \in DOMAIN q : q[j] = n => j = 1
  BY <1>1 DEF ConversationInv, SocketInv, Queued
<1>4. /\ TurnTypes' /\ KeptButStages
      /\ \A m \in DOMAIN turns : turns'[m].stage = IF m = n THEN x ELSE turns[m].stage
  BY <1>3, StageWritten DEF ConversationInv, Types, TurnStages, Ended
<1>5. /\ RecordTypes' /\ Linked' /\ Given' /\ Asked' /\ StoredReach'
      /\ \A p \in {0} \union DOMAIN turns : Continued(p)' = Continued(p)
  <2>1. records \subseteq DOMAIN turns
    BY DEF ConversationInv, Types, RecordTypes
  <2> QED
    BY <1>4, <2>1, StagesKeepHistories
<1>6. /\ conn' \in [Sockets -> Connections]
      /\ conn'[s].loop = y /\ conn'[s].queue = qq
      /\ \A t \in Sockets \ {s} : conn'[t] = conn[t]
  <2>1. [conn[s] EXCEPT !.queue = Tail(@), !.loop = y] \in Connections
    BY <1>0, <1>2 DEF Connections
  <2>2. conn'[s] = [conn[s] EXCEPT !.queue = Tail(@), !.loop = y]
    BY <1>0
  <2> QED
    BY <1>0, <2>1, <2>2 DEF Connections
<1>7. ConnTypes'
  <2>1. Len(q) <= QueueSize /\ QueueSize \in Nat
    BY ConversationsAssumption DEF ConversationInv, Types, ConnTypes
  <2>2. Len(qq) <= QueueSize
    BY <1>1, <1>2, <2>1
  <2> HIDE DEF qq, q
  <2> QED
    BY <1>6, <2>2 DEF ConnTypes, ConversationInv, Types
<1>8. CacheTypes'
  BY DEF CacheTypes, ConversationInv, Types
<1>9. ASSUME NEW t \in Sockets, t # s PROVE SocketInv(t)'
  BY <1>3, <1>4, <1>5, <1>6, <1>9, OthersStay
<1>10. SocketInv(s)'
  <2>0. SocketInv(s) /\ \A m \in DOMAIN turns : ~Runs(s, m)
    BY DEF ConversationInv, SocketInv, OneTurn
  <2>1. CacheTrue(s)'
    BY <1>4, <1>5, CacheStaysTrue
  <2>2. \A m \in DOMAIN turns : Runs(s, m)' <=> m = n /\ x = "resolving"
    BY <1>3, <1>4, <2>0 DEF Runs, KeptButStages
  <2>3. OneTurn(s)'
    BY <1>3, <1>4, <1>6, <2>2 DEF OneTurn, KeptButStages
  <2>4. CacheKept(s)'
    <3> SUFFICES ASSUME NEW m \in DOMAIN turns, turns'[m].by = s, turns'[m].stage = "resolving",
                        ~turns'[m].store, turns'[m].previous # 0
                 PROVE  cache[s][turns'[m].previous] # None
      BY <1>4 DEF CacheKept, KeptButStages
    <3>1. m = n /\ x = "resolving"
      BY <2>2 DEF Runs
    <3>2. Continues(s, n) /\ ~turns[n].store /\ turns[n].previous # 0
          /\ turns'[n].previous = turns[n].previous
      BY <1>4, <3>1 DEF KeptButStages
    <3> QED
      BY <3>1, <3>2 DEF Continues
  <2>5. Queued(s)'
    <3>1. \A i \in DOMAIN q : q[i] # 0 =>
             /\ q[i] \in DOMAIN turns /\ turns[q[i]].by = s /\ turns[q[i]].stage = "sent"
             /\ \A j \in DOMAIN q : q[j] = q[i] => j = i
      BY <2>0 DEF SocketInv, Queued
    <3> HIDE DEF q, qq
    <3>2. \A i \in DOMAIN qq : i + 1 \in DOMAIN q /\ i + 1 # 1 /\ i \in Nat /\ qq[i] = q[i + 1]
      BY <1>1, <1>2
    <3>3. ASSUME NEW i \in DOMAIN qq, qq[i] # 0
          PROVE  /\ qq[i] \in DOMAIN turns /\ turns[qq[i]].by = s /\ turns[qq[i]].stage = "sent"
                 /\ qq[i] # n
                 /\ \A j \in DOMAIN qq : qq[j] = qq[i] => j = i
      <4>1. /\ qq[i] \in DOMAIN turns /\ turns[qq[i]].by = s /\ turns[qq[i]].stage = "sent"
            /\ \A j \in DOMAIN q : q[j] = qq[i] => j = i + 1
        BY <3>1, <3>2, <3>3
      <4>2. qq[i] # n
        BY <1>3, <3>2
      <4>3. \A j \in DOMAIN qq : qq[j] = qq[i] => j = i
        BY <3>2, <4>1
      <4> QED
        BY <4>1, <4>2, <4>3
    <3>4. \A i \in DOMAIN qq : qq[i] # 0 =>
             /\ qq[i] \in DOMAIN turns' /\ turns'[qq[i]].by = s /\ turns'[qq[i]].stage = "sent"
             /\ \A j \in DOMAIN qq : qq[j] = qq[i] => j = i
      BY <1>4, <3>3 DEF KeptButStages
    <3>5. conn'[s].queue = qq
      BY <1>6
    <3> QED
      BY <3>4, <3>5, QueuedAs
  <2> QED
    BY <2>1, <2>3, <2>4, <2>5 DEF SocketInv
<1> QED
  BY <1>4, <1>5, <1>7, <1>8, <1>9, <1>10 DEF ConversationInv, Types

\* The turn of a loop that runs one.
LEMMA TurnOfLoop ==
    ASSUME ConversationInv, NEW s \in Sockets, conn[s].loop = "turn"
    PROVE  /\ TurnOf(s) \in DOMAIN turns /\ Runs(s, TurnOf(s))
           /\ \A m \in DOMAIN turns : Runs(s, m) => m = TurnOf(s)
<1>1. \E n \in DOMAIN turns : turns[n].by = s /\ turns[n].stage \in {"resolving", "answering"}
  BY DEF ConversationInv, SocketInv, OneTurn, Runs
<1>2. TurnOf(s) \in DOMAIN turns /\ Runs(s, TurnOf(s))
  BY <1>1 DEF TurnOf, Runs
<1> QED
  BY <1>2 DEF ConversationInv, SocketInv, OneTurn

\* The upstream is asked, with what the cache holds of the conversation.
LEMMA HydratedStep ==
    ASSUME ConversationInv, NEW s \in Sockets, NEW n \in DOMAIN turns, Runs(s, n),
           turns[n].stage = "resolving", ~(turns[n].store /\ turns[n].previous # 0),
           turns' = [turns EXCEPT ![n].stage = "answering", ![n].asked = TRUE,
                       ![n].history = IF turns[n].previous = 0 THEN <<>>
                                      ELSE cache[s][turns[n].previous]],
           UNCHANGED <<records, conn, cache>>
    PROVE  ConversationInv'
<1> DEFINE h == IF turns[n].previous = 0 THEN <<>> ELSE cache[s][turns[n].previous]
           r == [turns[n] EXCEPT !.stage = "answering", !.asked = TRUE, !.history = h]
<1>0. turns[n] \in TurnRecords /\ \A m \in DOMAIN turns : turns[m] \in TurnRecords
  BY TurnPlaces DEF ConversationInv, Types
<1>1. h = turns[n].whole
  <2>1. turns[n].whole = Continued(turns[n].previous)
    BY DEF ConversationInv, Linked
  <2>2. CASE turns[n].previous = 0
    BY <2>1, <2>2 DEF Continued
  <2>3. CASE turns[n].previous # 0
    <3>1. turns[n].previous \in Numbers
      BY <2>3, PreviousPlaces DEF ConversationInv
    <3>2. cache[s][turns[n].previous] # None
      BY <2>3 DEF ConversationInv, SocketInv, CacheKept, Runs
    <3>3. cache[s][turns[n].previous] = Continued(turns[n].previous)
      BY <3>1, <3>2 DEF ConversationInv, SocketInv, CacheTrue
    <3> QED
      BY <2>1, <2>3, <3>3
  <2> QED
    BY <2>2, <2>3
<1>2. r \in TurnRecords
  <2>1. h \in Seq(Numbers)
    BY <1>0, <1>1 DEF TurnRecords
  <2> HIDE DEF h
  <2> QED
    BY <1>0, <2>1 DEF TurnRecords, TurnStages
<1>3. /\ r.by = turns[n].by /\ r.store = turns[n].store /\ r.previous = turns[n].previous
      /\ r.whole = turns[n].whole /\ r.stage = "answering" /\ r.asked /\ r.history = h
  <2> HIDE DEF h
  <2> QED
    BY <1>0 DEF TurnRecords
<1>4. turns' = [turns EXCEPT ![n] = r]
  OBVIOUS
<1> HIDE DEF r, h
<1>5. /\ turns' \in Seq(TurnRecords) /\ Len(turns') = Len(turns)
      /\ \A i \in 1 .. Len(turns) : turns'[i] = IF i = n THEN r ELSE turns[i]
  BY <1>2, <1>4, TurnPlaces, ExceptSeq DEF ConversationInv, Types, TurnTypes
<1>6. /\ TurnTypes' /\ DOMAIN turns' = DOMAIN turns /\ turns'[n] = r
      /\ \A m \in DOMAIN turns : m # n => turns'[m] = turns[m]
  <2>1. TurnTypes' /\ DOMAIN turns' = 1 .. Len(turns)
    BY <1>5, LenProperties DEF TurnTypes, ConversationInv, Types
  <2> QED
    BY <1>5, <2>1, TurnPlaces DEF ConversationInv, Types
<1>7. Types'
  BY <1>6 DEF ConversationInv, Types, RecordTypes, ConnTypes, CacheTypes
<1>8. \A p \in {0} \union DOMAIN turns : Continued(p)' = Continued(p)
  <2>1. \A m \in DOMAIN turns : turns'[m].whole = turns[m].whole
    BY <1>3, <1>6
  <2> QED
    BY <2>1 DEF Continued
<1>9. \A m \in DOMAIN turns : /\ turns'[m].by = turns[m].by /\ turns'[m].store = turns[m].store
                              /\ turns'[m].previous = turns[m].previous
                              /\ turns'[m].whole = turns[m].whole
                              /\ turns'[m].stage = IF m = n THEN "answering" ELSE turns[m].stage
  BY <1>3, <1>6
<1>10. Linked'
  <2>1. \A m \in DOMAIN turns : turns[m].previous \in {0} \union DOMAIN turns
    BY PreviousPlaces DEF ConversationInv
  <2> QED
    BY <1>6, <1>8, <1>9, <2>1 DEF ConversationInv, Linked
<1>11. Given' /\ Asked'
  BY ZenonT(30), <1>1, <1>3, <1>6 DEF ConversationInv, Given, Asked
<1>12. StoredReach'
  <2>1. \A m \in DOMAIN turns : Reached(m)' <=> Reached(m)
    BY <1>9 DEF Reached
  <2>2. \A m \in records : m \in DOMAIN turns /\ Reached(m)
    BY DEF ConversationInv, StoredReach, Types, RecordTypes
  <2>3. turns[n].store => Reached(n)
    BY DEF Reached
  <2> QED
    BY <1>6, <1>9, <2>1, <2>2, <2>3 DEF ConversationInv, StoredReach
<1>13. ASSUME NEW t \in Sockets PROVE SocketInv(t)'
  <2>0. SocketInv(t)
    BY DEF ConversationInv
  <2>1. \A m \in DOMAIN turns : Runs(t, m)' <=> Runs(t, m)
    BY <1>9 DEF Runs
  <2>2. OneTurn(t)'
    BY <1>6, <2>0, <2>1 DEF SocketInv, OneTurn
  <2>3. CacheTrue(t)'
    BY <1>6, <1>8, <2>0 DEF SocketInv, CacheTrue
  <2>4. CacheKept(t)'
    BY <1>6, <1>9, <2>0 DEF SocketInv, CacheKept
  <2>5. Queued(t)'
    BY <1>6, <1>9, <2>0 DEF SocketInv, Queued
  <2> QED
    BY <2>2, <2>3, <2>4, <2>5 DEF SocketInv
<1> QED
  BY <1>7, <1>10, <1>11, <1>12, <1>13 DEF ConversationInv

\* A turn of a loop ends, and the loop goes on: what it continued is evicted, or it is stored
\* and what continues it is cached.
LEMMA TurnEndStep ==
    ASSUME ConversationInv, NEW s \in Sockets, NEW n \in DOMAIN turns, Runs(s, n), NEW x \in Ended,
           turns' = [turns EXCEPT ![n].stage = x],
           conn' = [conn EXCEPT ![s].loop = "head"],
           records \subseteq records', records' \subseteq DOMAIN turns,
           \A m \in records' \ records : turns[m].stage = "answering" /\ turns[m].store,
           CacheTypes', \A t \in Sockets \ {s} : cache'[t] = cache[t],
           \A p \in Numbers : cache'[s][p] # None =>
               p \in DOMAIN turns /\ cache'[s][p] = Continued(p)
    PROVE  ConversationInv'
<1>0. x \in TurnStages /\ TurnTypes
  BY DEF ConversationInv, Types, TurnStages
<1>1. /\ TurnTypes' /\ KeptButStages
      /\ \A m \in DOMAIN turns : turns'[m].stage = IF m = n THEN x ELSE turns[m].stage
  BY ZenonT(30), <1>0, StageWritten
<1>2. /\ RecordTypes' /\ Linked' /\ Given' /\ Asked' /\ StoredReach'
      /\ \A p \in {0} \union DOMAIN turns : Continued(p)' = Continued(p)
  BY <1>1, StagesKeepHistories DEF Ended
<1>3. conn \in [Sockets -> Connections] /\ conn[s] \in Connections
  BY DEF ConversationInv, Types, ConnTypes
<1>4. /\ conn' \in [Sockets -> Connections]
      /\ conn'[s].loop = "head" /\ conn'[s].queue = conn[s].queue
      /\ \A t \in Sockets \ {s} : conn'[t] = conn[t]
  <2>1. [conn[s] EXCEPT !.loop = "head"] \in Connections
    BY <1>3 DEF Connections
  <2>2. conn'[s] = [conn[s] EXCEPT !.loop = "head"]
    BY <1>3
  <2> QED
    BY <1>3, <2>1, <2>2 DEF Connections
<1>5. ConnTypes'
  BY <1>4 DEF ConnTypes, ConversationInv, Types
<1>6. ASSUME NEW t \in Sockets, t # s PROVE SocketInv(t)'
  <2>1. turns[n].by # t
    BY <1>6 DEF Runs
  <2> QED
    BY <1>1, <1>2, <1>4, <1>6, <2>1, OthersStay
<1>7. SocketInv(s)'
  <2>0. SocketInv(s) /\ \A m \in DOMAIN turns : Runs(s, m) => m = n
    BY DEF ConversationInv, SocketInv, OneTurn
  <2>1. CacheTrue(s)'
    BY <1>1, <1>2 DEF CacheTrue, KeptButStages
  <2>2. \A m \in DOMAIN turns : ~Runs(s, m)'
    BY <1>1, <2>0 DEF Runs, KeptButStages, Ended
  <2>3. OneTurn(s)'
    BY <1>1, <1>4, <2>2 DEF OneTurn, KeptButStages
  <2>4. CacheKept(s)'
    BY <1>1, <2>2 DEF CacheKept, KeptButStages, Runs
  <2>5. Queued(s)'
    <3>1. turns[n].stage # "sent"
      BY DEF Runs
    <3> QED
      BY <1>1, <1>4, <2>0, <3>1 DEF SocketInv, Queued, KeptButStages
  <2> QED
    BY <2>1, <2>3, <2>4, <2>5 DEF SocketInv
<1> QED
  BY <1>1, <1>2, <1>5, <1>6, <1>7 DEF ConversationInv, Types

\* A turn fails, and what it continued is evicted.
LEMMA FailStep ==
    ASSUME ConversationInv, NEW s \in Sockets, NEW n \in DOMAIN turns, Runs(s, n), FailTurn(s, n),
           UNCHANGED records
    PROVE  ConversationInv'
<1>1. cache \in [Sockets -> [Numbers -> {None} \union Seq(Numbers)]]
  BY DEF ConversationInv, Types, CacheTypes
<1>2. turns[n].previous # 0 => turns[n].previous \in Numbers
  BY PreviousPlaces DEF ConversationInv
<1>3. CacheTypes' /\ \A t \in Sockets \ {s} : cache'[t] = cache[t]
  BY <1>1, <1>2 DEF FailTurn, CacheTypes
<1>4. \A p \in Numbers : cache'[s][p] # None => cache'[s][p] = cache[s][p]
  BY <1>1, <1>2 DEF FailTurn
<1>5. CacheTrue(s)
  BY DEF ConversationInv, SocketInv
<1>6. \A p \in Numbers : cache'[s][p] # None => p \in DOMAIN turns /\ cache'[s][p] = Continued(p)
  BY <1>4, <1>5 DEF CacheTrue
<1>7. records \subseteq DOMAIN turns
  BY DEF ConversationInv, Types, RecordTypes
<1> QED
  BY <1>3, <1>6, <1>7, TurnEndStep DEF FailTurn, Ended

\* A turn completes; it is stored and cached.
LEMMA CompleteStep ==
    ASSUME ConversationInv, NEW s \in Sockets, NEW n \in DOMAIN turns, Runs(s, n),
           turns[n].stage = "answering", Persist(n),
           turns' = [turns EXCEPT ![n].stage = "completed"],
           conn' = [conn EXCEPT ![s].loop = "head"],
           cache' = [cache EXCEPT ![s][n] = Append(turns[n].history, n)]
    PROVE  ConversationInv'
<1>1. cache \in [Sockets -> [Numbers -> {None} \union Seq(Numbers)]]
  BY DEF ConversationInv, Types, CacheTypes
<1>2. n \in Numbers /\ turns[n].history \in Seq(Numbers) /\ n # 0
  BY TurnPlaces DEF ConversationInv, Types, TurnRecords, Numbers
<1>3. Append(turns[n].history, n) \in Seq(Numbers)
  BY <1>2, AppendProperties
<1>4. Append(turns[n].history, n) = Continued(n)
  BY <1>2 DEF ConversationInv, Asked, Given, Continued
<1>5. CacheTypes' /\ \A t \in Sockets \ {s} : cache'[t] = cache[t]
  BY <1>1, <1>2, <1>3 DEF CacheTypes
<1>6. \A p \in Numbers : cache'[s][p] = IF p = n THEN Append(turns[n].history, n) ELSE cache[s][p]
  BY <1>1, <1>2
<1>7. CacheTrue(s)
  BY DEF ConversationInv, SocketInv
<1>8. \A p \in Numbers : cache'[s][p] # None => p \in DOMAIN turns /\ cache'[s][p] = Continued(p)
  BY <1>4, <1>6, <1>7 DEF CacheTrue
<1>9. /\ records \subseteq records' /\ records' \subseteq DOMAIN turns
      /\ \A m \in records' \ records : turns[m].stage = "answering" /\ turns[m].store
  BY DEF Persist, ConversationInv, Types, RecordTypes
<1> QED
  BY <1>5, <1>8, <1>9, TurnEndStep DEF Ended

-------------------------------------------------------------------------------
(* Actions *)

\* A request over HTTP is asked with what its previous one's record says.
LEMMA AskHttpStep ==
    ASSUME ConversationInv, NEW store \in BOOLEAN, NEW previous \in 0 .. Len(turns),
           AskHttp(store, previous)
    PROVE  ConversationInv'
<1> DEFINE turn == NewTurn("http", store, previous, "answering")
           r == IF Found(previous)
                THEN [turn EXCEPT !.asked = TRUE, !.history = ChainHistory(previous)]
                ELSE [turn EXCEPT !.stage = "refused"]
<1>1. /\ turn \in TurnRecords /\ turn.whole = Continued(previous)
      /\ Continued(previous) \in Seq(Numbers)
  BY NewTurnTypes DEF ConversationInv, TurnStages
<1>2. /\ turn.by = "http" /\ turn.store = store /\ turn.previous = previous
      /\ turn.stage = "answering" /\ ~turn.asked
  BY DEF NewTurn
<1>3. Found(previous) => ChainHistory(previous) = Continued(previous)
  BY HistoryRead DEF ConversationInv, Found
<1>4. turns' = Append(turns, r) /\ Len(turns) < MaxTurns
  BY DEF AskHttp
<1> HIDE DEF turn
<1>5. /\ r \in TurnRecords /\ r.previous = previous /\ r.whole = Continued(r.previous)
      /\ r.asked => r.history = r.whole
      /\ r.stage # "resolving"
      /\ r.stage = "answering" =>
             r.asked /\ r.by = "http" /\ r.previous \in {0} \union records
  <2>1. CASE Found(previous)
    <3>1. r = [turn EXCEPT !.asked = TRUE, !.history = Continued(previous)]
      BY <1>3, <2>1
    <3>2. previous \in {0} \union records
      BY <2>1 DEF Found
    <3> HIDE DEF r
    <3> QED
      BY <1>1, <1>2, <3>1, <3>2 DEF TurnRecords
  <2>2. CASE ~Found(previous)
    <3>1. r = [turn EXCEPT !.stage = "refused"]
      BY <2>2
    <3>2. "refused" \in TurnStages
      BY DEF TurnStages, Ended
    <3> HIDE DEF r
    <3> QED
      BY <1>1, <1>2, <3>1, <3>2 DEF TurnRecords
  <2> QED
    BY <2>1, <2>2
<1> HIDE DEF r
<1>6. UNCHANGED <<records, cache, conn>> /\ ConnTypes'
  BY DEF AskHttp, ConversationInv, Types, ConnTypes
<1> QED
  BY <1>4, <1>5, <1>6, ArrivalStep

\* An answer over HTTP ends, and may be stored.
LEMMA AnswerHttpStep ==
    ASSUME ConversationInv, NEW n \in DOMAIN turns, AnswerHttp(n)
    PROVE  ConversationInv'
<1>1. PICK end \in {"completed", "failed", "dropped"} :
          /\ turns' = [turns EXCEPT ![n].stage = end]
          /\ Persist(n) \/ UNCHANGED records
  BY DEF AnswerHttp
<1>2. end \in TurnStages
  BY DEF TurnStages, Ended
<1>3. /\ TurnTypes' /\ KeptButStages
      /\ \A m \in DOMAIN turns : turns'[m].stage = IF m = n THEN end ELSE turns[m].stage
  BY <1>1, <1>2, StageWritten DEF ConversationInv, Types
<1>4. /\ records \subseteq records' /\ records' \subseteq DOMAIN turns
      /\ \A m \in records' \ records : turns[m].stage = "answering" /\ turns[m].store
  BY <1>1 DEF AnswerHttp, Persist, ConversationInv, Types, RecordTypes
<1>5. /\ RecordTypes' /\ Linked' /\ Given' /\ Asked' /\ StoredReach'
      /\ \A p \in {0} \union DOMAIN turns : Continued(p)' = Continued(p)
  BY <1>3, <1>4, StagesKeepHistories
<1>6. ASSUME NEW t \in Sockets PROVE SocketInv(t)'
  <2>1. turns[n].by # t
    BY ConversationsAssumption DEF AnswerHttp
  <2> QED
    BY <1>3, <1>5, <2>1, OthersStay DEF AnswerHttp
<1>7. ConnTypes' /\ CacheTypes'
  BY DEF AnswerHttp, ConversationInv, Types, ConnTypes, CacheTypes
<1> QED
  BY <1>3, <1>5, <1>6, <1>7 DEF ConversationInv, Types

\* A message on a socket.
LEMMA SayStep ==
    ASSUME ConversationInv, NEW s \in Sockets, NEW store \in BOOLEAN, NEW previous \in 0 .. Len(turns),
           Say(s, store, previous)
    PROVE  ConversationInv'
<1>0. conn \in [Sockets -> Connections] /\ conn[s] \in Connections
  BY DEF ConversationInv, Types, ConnTypes
<1>1. CASE Len(conn[s].queue) < QueueSize
  <2> DEFINE r == NewTurn(s, store, previous, "sent")
             q == Append(conn[s].queue, Len(turns) + 1)
  <2>1. /\ r \in TurnRecords /\ r.whole = Continued(previous)
    BY NewTurnTypes DEF ConversationInv, TurnStages
  <2>2. /\ r.by = s /\ r.previous = previous /\ r.stage = "sent" /\ ~r.asked
    BY DEF NewTurn
  <2>3. turns' = Append(turns, r) /\ Len(turns) < MaxTurns
    BY <1>1 DEF Say
  <2> HIDE DEF r
  <2>4. /\ q \in Seq(0 .. MaxTurns) /\ Len(q) = Len(conn[s].queue) + 1
    <3>1. Len(turns) + 1 \in 0 .. MaxTurns
      BY <2>3, TurnPlaces, ConversationsAssumption DEF ConversationInv, Types
    <3> QED
      BY <1>0, <3>1, AppendProperties DEF Connections
  <2>5. Len(q) <= QueueSize
    <3>1. Len(conn[s].queue) \in Nat /\ QueueSize \in Nat
      BY <1>0, LenProperties, ConversationsAssumption DEF Connections
    <3> HIDE DEF q
    <3> QED
      BY <1>1, <2>4, <3>1
  <2>6. conn' = [conn EXCEPT ![s] = [conn[s] EXCEPT !.queue = q]]
    BY <1>0, <1>1 DEF Say
  <2> HIDE DEF q
  <2>7. /\ conn'[s] = [conn[s] EXCEPT !.queue = q] /\ conn'[s] \in Connections
        /\ \A t \in Sockets \ {s} : conn'[t] = conn[t]
        /\ conn' \in [Sockets -> Connections]
    <3>1. [conn[s] EXCEPT !.queue = q] \in Connections
      BY <1>0, <2>4 DEF Connections
    <3> QED
      BY <1>0, <2>6, <3>1
  <2>8. conn'[s].loop = conn[s].loop /\ conn'[s].queue = q
    BY <1>0, <2>7 DEF Connections
  <2>9. ConnTypes'
    BY <2>5, <2>7, <2>8 DEF ConnTypes, ConversationInv, Types
  <2>10. UNCHANGED <<records, cache>>
    BY DEF Say
  <2>11. \A t \in Sockets : conn'[t].loop = conn[t].loop
    BY <2>7, <2>8
  <2>12. \A t \in Sockets : \/ conn'[t].queue = conn[t].queue
                            \/ /\ conn'[t].queue = Append(conn[t].queue, Len(turns) + 1)
                               /\ r.by = t /\ r.stage = "sent"
    BY <2>2, <2>7, <2>8 DEF q
  <2> QED
    BY <2>1, <2>2, <2>3, <2>9, <2>10, <2>11, <2>12, ArrivalStep
<1>2. CASE ~(Len(conn[s].queue) < QueueSize)
  <2> DEFINE r == NewTurn(s, store, previous, "dropped")
  <2>1. /\ r \in TurnRecords /\ r.whole = Continued(previous)
    BY NewTurnTypes DEF ConversationInv, TurnStages, Ended
  <2>2. /\ r.by = s /\ r.previous = previous /\ r.stage = "dropped" /\ ~r.asked
    BY DEF NewTurn
  <2>3. turns' = Append(turns, r) /\ Len(turns) < MaxTurns
    BY <1>2 DEF Say
  <2> HIDE DEF r
  <2>4. conn' = [conn EXCEPT ![s] = [conn[s] EXCEPT !.disconnected = TRUE, !.reader = "ended"]]
    BY <1>0, <1>2 DEF Say
  <2>5. /\ conn'[s] \in Connections
        /\ conn'[s].loop = conn[s].loop /\ conn'[s].queue = conn[s].queue
        /\ \A t \in Sockets \ {s} : conn'[t] = conn[t]
        /\ conn' \in [Sockets -> Connections]
    <3>1. /\ [conn[s] EXCEPT !.disconnected = TRUE, !.reader = "ended"] \in Connections
          /\ conn'[s] = [conn[s] EXCEPT !.disconnected = TRUE, !.reader = "ended"]
      BY <1>0, <2>4 DEF Connections
    <3> QED
      BY <1>0, <2>4, <3>1 DEF Connections
  <2>6. ConnTypes' /\ UNCHANGED <<records, cache>>
    BY <2>5 DEF ConnTypes, ConversationInv, Types, Say
  <2>7. \A t \in Sockets : conn'[t].loop = conn[t].loop /\ conn'[t].queue = conn[t].queue
    BY <2>5
  <2> QED
    BY <2>1, <2>2, <2>3, <2>6, <2>7, ArrivalStep
<1> QED
  BY <1>1, <1>2

\* The client and the reader, but for messages; a loop that begins to wait.
LEMMA QuietStep ==
    ASSUME ConversationInv, NEW s \in Sockets,
           \/ HangUp(s) \/ SeeGone(s) \/ BinaryFrame(s) \/ HourPasses(s)
           \/ /\ conn[s].loop = "head" /\ conn' = [conn EXCEPT ![s].loop = "waiting"]
              /\ UNCHANGED <<turns, records, cache>>
    PROVE  ConversationInv'
<1>0. conn \in [Sockets -> Connections] /\ conn[s] \in Connections
  BY DEF ConversationInv, Types, ConnTypes
<1>1. PICK c :
          /\ conn' = [conn EXCEPT ![s] = c] /\ UNCHANGED <<turns, records, cache>>
          /\ \/ c = [conn[s] EXCEPT !.there = FALSE]
             \/ c = [conn[s] EXCEPT !.disconnected = TRUE, !.reader = "ended",
                                    !.queue = IF Len(@) < QueueSize THEN Append(@, 0) ELSE @]
             \/ c = [conn[s] EXCEPT !.reader = "broken"]
             \/ c = [conn[s] EXCEPT !.late = TRUE]
             \/ c = [conn[s] EXCEPT !.loop = "waiting"] /\ conn[s].loop = "head"
  <2>1. CASE HangUp(s)
    BY <1>0, <2>1 DEF HangUp
  <2>2. CASE SeeGone(s)
    BY <1>0, <2>2 DEF SeeGone
  <2>3. CASE BinaryFrame(s) \/ HourPasses(s)
    BY <1>0, <2>3 DEF BinaryFrame, HourPasses
  <2>4. CASE /\ conn[s].loop = "head" /\ conn' = [conn EXCEPT ![s].loop = "waiting"]
             /\ UNCHANGED <<turns, records, cache>>
    BY <1>0, <2>4
  <2> QED
    BY <2>1, <2>2, <2>3, <2>4
<1> DEFINE q == Append(conn[s].queue, 0)
<1>2. /\ q \in Seq(0 .. MaxTurns) /\ Len(q) = Len(conn[s].queue) + 1
      /\ Len(conn[s].queue) \in Nat /\ Len(conn[s].queue) <= QueueSize
  <2>1. 0 \in 0 .. MaxTurns
    BY ConversationsAssumption
  <2> QED
    BY <1>0, <2>1, AppendProperties, LenProperties DEF Connections, ConversationInv, Types, ConnTypes
<1>3. QueueSize \in Nat
  BY ConversationsAssumption
<1>4. /\ c \in Connections /\ (c.loop = "turn" <=> conn[s].loop = "turn")
      /\ c.queue = conn[s].queue \/ (c.queue = q /\ Len(conn[s].queue) < QueueSize)
  <2> HIDE DEF q
  <2>1. CASE c = [conn[s] EXCEPT !.there = FALSE]
    BY <1>0, <2>1 DEF Connections
  <2>2. CASE c = [conn[s] EXCEPT !.disconnected = TRUE, !.reader = "ended",
                                 !.queue = IF Len(@) < QueueSize THEN Append(@, 0) ELSE @]
    <3>1. CASE Len(conn[s].queue) < QueueSize
      <4>1. c = [conn[s] EXCEPT !.disconnected = TRUE, !.reader = "ended", !.queue = q]
        BY <2>2, <3>1 DEF q
      <4> QED
        BY <1>0, <1>2, <3>1, <4>1 DEF Connections
    <3>2. CASE ~(Len(conn[s].queue) < QueueSize)
      <4>1. c = [conn[s] EXCEPT !.disconnected = TRUE, !.reader = "ended", !.queue = @]
        BY <2>2, <3>2
      <4> QED
        BY <1>0, <4>1 DEF Connections
    <3> QED
      BY <3>1, <3>2
  <2>3. CASE c = [conn[s] EXCEPT !.reader = "broken"]
    BY <1>0, <2>3 DEF Connections
  <2>4. CASE c = [conn[s] EXCEPT !.late = TRUE]
    BY <1>0, <2>4 DEF Connections
  <2>5. CASE c = [conn[s] EXCEPT !.loop = "waiting"] /\ conn[s].loop = "head"
    BY <1>0, <2>5 DEF Connections
  <2> QED
    BY <1>1, <2>1, <2>2, <2>3, <2>4, <2>5
<1>5. Len(c.queue) <= QueueSize
  <2> HIDE DEF q
  <2> QED
    BY <1>2, <1>3, <1>4
<1>6. /\ conn' \in [Sockets -> Connections] /\ conn'[s] = c
      /\ \A t \in Sockets \ {s} : conn'[t] = conn[t]
  BY <1>0, <1>1, <1>4
<1>7. ConnTypes'
  BY <1>5, <1>6 DEF ConversationInv, Types, ConnTypes
<1>8. \A t \in Sockets : conn'[t].loop = "turn" <=> conn[t].loop = "turn"
  BY <1>4, <1>6
<1>9. \A t \in Sockets : \/ conn'[t].queue = conn[t].queue
                         \/ conn'[t].queue = Append(conn[t].queue, 0)
  BY <1>4, <1>6
<1> QED
  BY <1>1, <1>7, <1>8, <1>9, ConnectionStep

\* The loop of a socket.
LEMMA LoopStep ==
    ASSUME ConversationInv, NEW s \in Sockets, Loop(s)
    PROVE  ConversationInv'
<1>0. conn \in [Sockets -> Connections] /\ conn[s] \in Connections
  BY DEF ConversationInv, Types, ConnTypes
<1>1. CASE LoopHead(s)
  BY <1>1, SocketCloses, QuietStep DEF LoopHead
<1>2. CASE TakeMessage(s)
  <2> DEFINE n == Head(conn[s].queue)
  <2>1. CASE n = 0
    BY <1>2, <2>1, SocketCloses DEF TakeMessage
  <2>2. CASE /\ n # 0 /\ turns' = [turns EXCEPT ![n].stage = "refused"]
             /\ conn' = [[conn EXCEPT ![s].queue = Tail(@), ![s].loop = "turn"]
                            EXCEPT ![s].loop = "head"]
    <3>1. conn' = [conn EXCEPT ![s] = [conn[s] EXCEPT !.queue = Tail(@), !.loop = "head"]]
      BY <1>0, <2>2
    <3> QED
      BY <1>2, <2>2, <3>1, TakenStep DEF TakeMessage
  <2>3. CASE /\ n # 0 /\ Continues(s, n) /\ turns' = [turns EXCEPT ![n].stage = "resolving"]
             /\ conn' = [conn EXCEPT ![s].queue = Tail(@), ![s].loop = "turn"]
    <3>1. conn' = [conn EXCEPT ![s] = [conn[s] EXCEPT !.queue = Tail(@), !.loop = "turn"]]
      BY <1>0, <2>3
    <3> QED
      BY <1>2, <2>3, <3>1, TakenStep DEF TakeMessage
  <2> QED
    BY <1>2, <2>1, <2>2, <2>3 DEF TakeMessage
<1>3. CASE StartTurn(s)
  <2>1. PICK n \in DOMAIN turns : n = TurnOf(s) /\ Runs(s, n)
    BY <1>3, TurnOfLoop DEF StartTurn
  <2>2. CASE conn[s].there /\ FailTurn(s, n)
    BY <1>3, <2>1, <2>2, FailStep DEF StartTurn
  <2>3. CASE ~conn[s].there /\ Close(s, turns) /\ UNCHANGED cache
    BY <1>3, <2>3, SocketCloses DEF StartTurn
  <2>4. CASE /\ ~(turns[n].store /\ turns[n].previous # 0)
             /\ turns' = [turns EXCEPT ![n].stage = "answering", ![n].asked = TRUE,
                               ![n].history = IF turns[n].previous = 0 THEN <<>>
                                              ELSE cache[s][turns[n].previous]]
             /\ UNCHANGED <<conn, cache>>
    <3>1. turns[n].stage = "resolving" /\ UNCHANGED records
      BY <1>3, <2>1 DEF StartTurn
    <3> QED
      BY <2>1, <2>4, <3>1, HydratedStep
  <2> QED
    BY <1>3, <2>1, <2>2, <2>3, <2>4 DEF StartTurn
<1>4. CASE FinishTurn(s)
  <2>1. PICK n \in DOMAIN turns : n = TurnOf(s) /\ Runs(s, n)
    BY <1>4, TurnOfLoop DEF FinishTurn
  <2>2. turns[n].stage = "answering"
    BY <1>4, <2>1 DEF FinishTurn
  <2>3. CASE conn[s].there /\ FailTurn(s, n) /\ UNCHANGED records
    BY <2>1, <2>3, FailStep
  <2>4. CASE Close(s, turns) /\ UNCHANGED <<records, cache>>
    BY <2>4, SocketCloses
  <2>5. CASE /\ Persist(n)
             /\ turns' = [turns EXCEPT ![n].stage = "completed"]
             /\ conn' = [conn EXCEPT ![s].loop = "head"]
             /\ cache' = [cache EXCEPT ![s][n] = Append(turns[n].history, n)]
    BY <2>1, <2>2, <2>5, CompleteStep
  <2> QED
    BY <1>4, <2>1, <2>3, <2>4, <2>5 DEF FinishTurn
<1> QED
  BY <1>1, <1>2, <1>3, <1>4 DEF Loop

\* The invariant holds at first.
LEMMA ConversationInvInit == ConversationsInit => ConversationInv
<1> SUFFICES ASSUME ConversationsInit PROVE ConversationInv
  OBVIOUS
<1>1. turns \in Seq(TurnRecords) /\ Len(turns) = 0 /\ DOMAIN turns = {}
  BY EmptySeq DEF ConversationsInit
<1>2. TurnTypes /\ RecordTypes
  BY <1>1, ConversationsAssumption DEF ConversationsInit, TurnTypes, RecordTypes
<1>3. \A s \in Sockets :
          conn[s] = [there |-> TRUE, disconnected |-> FALSE, queue |-> <<>>,
                     reader |-> "reads", loop |-> "head", late |-> FALSE]
  BY DEF ConversationsInit
<1>4. ConnTypes
  <2>1. <<>> \in Seq(0 .. MaxTurns) /\ Len(<<>>) = 0 /\ 0 <= QueueSize
    BY EmptySeq, ConversationsAssumption
  <2> QED
    BY <1>3, <2>1 DEF ConversationsInit, ConnTypes, Connections
<1>5. CacheTypes
  BY DEF ConversationsInit, CacheTypes
<1>6. Linked /\ Given /\ Asked /\ StoredReach
  BY <1>1 DEF ConversationsInit, Linked, Given, Asked, StoredReach
<1>7. ASSUME NEW s \in Sockets PROVE SocketInv(s)
  <2>1. conn[s].loop = "head" /\ conn[s].queue = <<>>
    BY <1>3
  <2>2. \A p \in Numbers : cache[s][p] = None
    BY DEF ConversationsInit
  <2> QED
    BY <1>1, <2>1, <2>2 DEF SocketInv, OneTurn, CacheTrue, CacheKept, Queued
<1> QED
  BY <1>2, <1>4, <1>5, <1>6, <1>7 DEF ConversationInv, Types

\* Every step keeps the invariant.
LEMMA ConversationInvStep == ConversationInv /\ [ConversationsNext]_cvars => ConversationInv'
<1> SUFFICES ASSUME ConversationInv, [ConversationsNext]_cvars PROVE ConversationInv'
  OBVIOUS
<1>1. CASE Clients
  <2>1. ASSUME NEW store \in BOOLEAN, NEW previous \in 0 .. Len(turns), AskHttp(store, previous)
        PROVE ConversationInv'
    BY <2>1, AskHttpStep
  <2>2. ASSUME NEW store \in BOOLEAN, NEW previous \in 0 .. Len(turns), NEW s \in Sockets,
               Say(s, store, previous)
        PROVE ConversationInv'
    BY <2>2, SayStep
  <2>3. ASSUME NEW s \in Sockets, HangUp(s) \/ BinaryFrame(s) \/ HourPasses(s) PROVE ConversationInv'
    BY <2>3, QuietStep
  <2> QED
    BY <1>1, <2>1, <2>2, <2>3 DEF Clients
<1>2. ASSUME NEW n \in DOMAIN turns, AnswerHttp(n) PROVE ConversationInv'
  BY <1>2, AnswerHttpStep
<1>3. ASSUME NEW s \in Sockets, SeeGone(s) \/ Loop(s) PROVE ConversationInv'
  BY <1>3, QuietStep, LoopStep
<1>4. CASE UNCHANGED cvars
  <2>1. UNCHANGED <<turns, records, conn, cache>>
    BY <1>4 DEF cvars
  <2>2. ConnTypes'
    BY <2>1 DEF ConversationInv, Types, ConnTypes
  <2> QED
    BY <2>1, <2>2, ConnectionStep
<1> QED
  BY <1>1, <1>2, <1>3, <1>4 DEF ConversationsNext

\* The invariant always holds.
LEMMA ConversationInvariant == ConversationsSpec => []ConversationInv
BY ConversationInvInit, ConversationInvStep, PTL DEF ConversationsSpec

-------------------------------------------------------------------------------
(* Theorems *)

\* Turns, records, connections and caches keep their types: no queue grows past its size.
THEOREM ConversationsTypeCorrect == ConversationsSpec => []ConversationsTypeOK
<1>1. ConversationInv => ConversationsTypeOK
  BY DEF ConversationInv, Types, TurnTypes, RecordTypes, ConnTypes, CacheTypes, ConversationsTypeOK,
         TurnRecords, Connections
<1> QED
  BY <1>1, ConversationInvariant, PTL

\* The upstream is given all of the conversation a turn continues and nothing else, by
\* whatever records, caches, failures and evictions it came about.
THEOREM ConversationsContinue == ConversationsSpec => []HistoryIsTheConversation
<1>1. ConversationInv => HistoryIsTheConversation
  BY DEF ConversationInv, Given, HistoryIsTheConversation
<1> QED
  BY <1>1, ConversationInvariant, PTL
===============================================================================
