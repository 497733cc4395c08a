------------------------- MODULE ResponseItems_proofs -------------------------
(***************************************************************************)
(* Theorems of ResponseItems, for any calls and any number of deltas: its  *)
(* types; that the events of an item lie between its announcement and its  *)
(* end; that the deltas add up to the text it ends with; and that the      *)
(* output is what ended.  The inductive invariant is ItemsInv, about the   *)
(* events sent; inside a step the operators keep it, as Kept, of the       *)
(* events sent and those the emitter still holds.                          *)
(***************************************************************************)
EXTENDS ResponseItems, SequenceTheorems, FiniteSetTheorems, WellFoundedInduction, TLAPS

-------------------------------------------------------------------------------
(* The inductive invariant *)

\* An event, one the operators make, a call, an item of the output and the state.
ItemWords == {"added", "part_added", "delta", "summary", "text_done", "part_done", "done"}
Words == ItemWords \union {"created", "in_progress", "completed", "failed"}
Events == [kind : Words, item : Nat, index : Nat, text : Seq(Nat), number : Nat]
ItemEvents == [kind : ItemWords, item : Nat, index : Nat, text : Seq(Nat), number : Nat]
CallRecords == [index : Nat, item : Nat, named : BOOLEAN, announced : BOOLEAN]
Outputs == [item : Nat, text : Seq(Nat)]
StateRecords == [message : Nat, reasoning : Nat, calls : Seq(CallRecords), texts : Seq(Seq(Nat)),
                 output : Seq(Outputs), index : Nat, seq : Nat, pending : Seq(ItemEvents),
                 native : Seq(Nat), given : Nat]

\* An item among these events: none is about it, or they begin with its only announcement and
\* there is no end of it yet, or its only end is the last of them.
Hidden(w, k) == \A i \in DOMAIN w : w[i].item # k
BeginsAt(w, k, a) ==
    /\ a \in DOMAIN w /\ w[a].kind = "added" /\ w[a].item = k
    /\ \A i \in DOMAIN w : w[i].item = k => a <= i /\ (w[i].kind = "added" => i = a)
EndsAt(w, k, d) ==
    /\ d \in DOMAIN w /\ w[d].kind = "done" /\ w[d].item = k
    /\ \A i \in DOMAIN w : w[i].item = k => i <= d /\ (w[i].kind = "done" => i = d)
Begun(w, k) == \E a \in DOMAIN w : BeginsAt(w, k, a)
ItemOpen(w, k) == Begun(w, k) /\ \A i \in DOMAIN w : w[i].item = k => w[i].kind # "done"
Closed(w, k) == Begun(w, k) /\ \E d \in DOMAIN w : EndsAt(w, k, d)

\* The texts are what the deltas add up to.
TextsTrue(w, texts, given) ==
    /\ \A k \in DOMAIN texts : texts[k] \in Seq(1 .. given) /\ AddedUp(w, k) = texts[k]
    /\ \A d \in DOMAIN w : w[d].kind = "done" =>
          w[d].item \in DOMAIN texts /\ w[d].text = texts[w[d].item]

\* The output is what ended.
OutputTrue(w, output, index) ==
    /\ index = Len(output)
    /\ \A d \in DOMAIN w : w[d].kind = "done" =>
          /\ w[d].index + 1 \in DOMAIN output
          /\ output[w[d].index + 1] = [item |-> w[d].item, text |-> w[d].text]
    /\ \A i \in DOMAIN output : \E d \in DOMAIN w : w[d].kind = "done" /\ w[d].index + 1 = i
    /\ \A d, e \in DOMAIN w :
          w[d].kind = "done" /\ w[e].kind = "done" /\ d < e => w[d].index < w[e].index

\* Of these items the open ones are open and the secret ones hidden, and when the response
\* keeps the whole of its calls, no other is open.
PhasesTrue(w, texts, open, secret, whole) ==
    /\ \A i \in DOMAIN w : w[i].item \in {0} \union DOMAIN texts
    /\ \A k \in DOMAIN texts : Hidden(w, k) \/ ItemOpen(w, k) \/ Closed(w, k)
    /\ open \subseteq DOMAIN texts /\ secret \subseteq DOMAIN texts
    /\ \A k \in open : ItemOpen(w, k)
    /\ \A k \in secret : Hidden(w, k)
    /\ whole => \A k \in DOMAIN texts : ItemOpen(w, k) => k \in open

\* All of it.
WireTrue(w, texts, given, output, index, open, secret, whole) ==
    /\ TextsTrue(w, texts, given)
    /\ OutputTrue(w, output, index)
    /\ PhasesTrue(w, texts, open, secret, whole)

\* The items of a state that are open, and those of calls nobody was told of, when the first c
\* calls were finished.
OpenItems(s, c) ==
    ({s.message, s.reasoning} \ {0})
    \union {s.calls[i].item : i \in {j \in DOMAIN s.calls : j > c /\ s.calls[j].announced}}
SecretItems(s, c) ==
    {s.calls[i].item : i \in {j \in DOMAIN s.calls : j > c /\ ~s.calls[j].announced}}

\* Nothing has two roles, and no two calls have one index.
Distinct(s) ==
    /\ s.message = s.reasoning => s.message = 0
    /\ \A i \in DOMAIN s.calls :
          /\ s.calls[i].item \in DOMAIN s.texts
          /\ s.calls[i].item # s.message /\ s.calls[i].item # s.reasoning
    /\ \A i, j \in DOMAIN s.calls :
          s.calls[i].index = s.calls[j].index \/ s.calls[i].item = s.calls[j].item => i = j

\* What the operators keep, after the events p.
Kept(p, s, c, whole) ==
    /\ s \in StateRecords
    /\ Distinct(s)
    /\ WireTrue(p \o s.pending, s.texts, s.given, s.output, s.index,
                OpenItems(s, c), SecretItems(s, c), whole)

\* The inductive invariant. A response that is not streamed has sent its first two events and
\* sends no other.
Whole == ~turn.limited
Completed == \E i \in DOMAIN sent : sent[i].kind = "completed"
Finished(s) == s.message = 0 /\ s.reasoning = 0 /\ s.calls = <<>>
ItemsTypes ==
    /\ turn \in Turns /\ step \in {"reading", "closed", "told", "ended"}
    /\ sent \in Seq(Events)
    /\ state.pending = <<>>
StreamedTurn ==
    turn.transport # "buffered" =>
        /\ Kept(sent, state, 0, Whole)
        /\ step = "closed" \/ Completed => Finished(state)
        /\ Completed => step # "reading" /\ step # "closed"
BufferedTurn ==
    turn.transport = "buffered" =>
        /\ step = "reading" \/ step = "told"
        /\ \A i \in DOMAIN sent :
              sent[i].item = 0 /\ sent[i].kind # "done" /\ sent[i].kind # "completed"
        /\ \E p \in Seq(Events), s \in StateRecords :
              Kept(p, s, 0, Whole) /\ state = Drained(s) /\ (step = "reading" => p = sent /\ s = state)
ItemsInv == ItemsTypes /\ StreamedTurn /\ BufferedTurn

-------------------------------------------------------------------------------
(* Numbers, sums and sequences *)

\* A set of numbers that is not empty has a least element.
LEMMA LeastElement ==
    ASSUME NEW S, S \subseteq Nat, S # {}
    PROVE  \E m \in S : \A k \in S : ~(k < m)
<1> DEFINE Less == OpToRel(<, Nat)
<1>1. IsWellFoundedOn(Less, Nat)
  BY NatLessThanWellFounded
<1> HIDE DEF Less
<1>2. PICK m \in S : \A k \in S : <<k, m>> \notin Less
  BY <1>1, WFMin
<1>3. \A k \in S : k < m => <<k, m>> \in Less
  BY DEF Less, OpToRel
<1> QED
  BY <1>2, <1>3

\* A set that has 0 and the successors of its members up to N has every number up to N.
LEMMA Climb ==
    ASSUME NEW N \in Nat, NEW T, 0 \in T, \A n \in 1 .. N : n - 1 \in T => n \in T
    PROVE  \A n \in 0 .. N : n \in T
<1> DEFINE Missing == (0 .. N) \ T
<1>1. SUFFICES ASSUME Missing # {} PROVE FALSE
  OBVIOUS
<1>2. Missing \subseteq Nat
  OBVIOUS
<1> HIDE DEF Missing
<1>3. PICK m \in Missing : \A k \in Missing : ~(k < m)
  BY <1>1, <1>2, LeastElement
<1> USE DEF Missing
<1>4. m \in 1 .. N /\ m - 1 \in 0 .. N
  BY <1>3
<1>5. m - 1 \in T
  BY <1>3, <1>4
<1> QED
  BY <1>3, <1>4, <1>5

\* One step of a sum, and the sums of the first n events.
AddOne(w, k, sum, n) ==
    IF n = 0 THEN <<>>
    ELSE IF w[n].kind = "delta" /\ w[n].item = k THEN sum[n - 1] \o w[n].text ELSE sum[n - 1]
SumsTo(w, k, m, sum) == sum = [n \in 0 .. m |-> AddOne(w, k, sum, n)]

\* There are sums of the first n events.
LEMMA SumsExist ==
    ASSUME NEW w, NEW k, NEW N \in Nat
    PROVE  \E sum : SumsTo(w, k, N, sum)
<1> DEFINE T == {n \in Nat : \E sum : SumsTo(w, k, n, sum)}
<1>1. 0 \in T
  <2> DEFINE g == [n \in 0 .. 0 |-> <<>>]
  <2>1. \A n \in 0 .. 0 : g[n] = AddOne(w, k, g, n)
    BY DEF AddOne
  <2>2. g = [n \in 0 .. 0 |-> AddOne(w, k, g, n)]
    <3>1. g = [n \in 0 .. 0 |-> g[n]]
      OBVIOUS
    <3> HIDE DEF g
    <3> QED
      BY <2>1, <3>1
  <2> QED
    BY <2>2 DEF SumsTo
<1>2. ASSUME NEW n \in 1 .. N, n - 1 \in T PROVE n \in T
  <2>1. PICK sum : SumsTo(w, k, n - 1, sum)
    BY <1>2
  <2> DEFINE g == [m \in 0 .. n |-> IF m = n THEN AddOne(w, k, sum, n) ELSE sum[m]]
  <2>2. \A m \in 0 .. (n - 1) : sum[m] = AddOne(w, k, sum, m)
    BY <2>1 DEF SumsTo
  <2>3. \A m \in 0 .. n : g[m] = AddOne(w, k, g, m)
    <3> SUFFICES ASSUME NEW m \in 0 .. n PROVE g[m] = AddOne(w, k, g, m)
      OBVIOUS
    <3>1. AddOne(w, k, g, m) = AddOne(w, k, sum, m)
      <4>1. CASE m = 0
        BY <4>1 DEF AddOne
      <4>2. CASE m # 0
        <5>1. m - 1 \in 0 .. n /\ m - 1 # n
          BY <4>2
        <5>2. g[m - 1] = sum[m - 1]
          BY <5>1
        <5> QED
          BY <4>2, <5>2 DEF AddOne
      <4> QED
        BY <4>1, <4>2
    <3>2. CASE m = n
      BY <3>1, <3>2
    <3>3. CASE m # n
      <4>1. m \in 0 .. (n - 1)
        BY <3>3
      <4>2. g[m] = sum[m]
        BY <3>3
      <4> HIDE DEF g
      <4> QED
        BY <3>1, <2>2, <4>1, <4>2
    <3> QED
      BY <3>2, <3>3
  <2>4. g = [m \in 0 .. n |-> AddOne(w, k, g, m)]
    <3>1. g = [m \in 0 .. n |-> g[m]]
      OBVIOUS
    <3> HIDE DEF g
    <3> QED
      BY <2>3, <3>1
  <2> HIDE DEF g
  <2>5. \E x : SumsTo(w, k, n, x)
    BY <2>4 DEF SumsTo
  <2> QED
    BY <2>5
<1> HIDE DEF T
<1>3. N \in T
  BY <1>1, <1>2, Climb
<1> QED
  BY <1>3 DEF T

\* What a client adds up is a sum.
LEMMA AddedUpIsASum ==
    ASSUME NEW w, NEW k, Len(w) \in Nat
    PROVE  \E sum : SumsTo(w, k, Len(w), sum) /\ AddedUp(w, k) = sum[Len(w)]
<1> DEFINE sum == CHOOSE f : SumsTo(w, k, Len(w), f)
<1>1. SumsTo(w, k, Len(w), sum)
  BY SumsExist
<1>2. AddedUp(w, k) = sum[Len(w)]
  BY DEF AddedUp, SumsTo, AddOne
<1> QED
  BY <1>1, <1>2

\* Two sums of the same events are the same.
LEMMA SumsAgree ==
    ASSUME NEW w, NEW v, NEW k, NEW N \in Nat, NEW f, NEW g, NEW M \in Nat, N <= M,
           \A i \in 1 .. N : v[i] = w[i],
           SumsTo(w, k, N, f), SumsTo(v, k, M, g)
    PROVE  f[N] = g[N]
<1> DEFINE T == {n \in 0 .. N : f[n] = g[n]}
<1>1. \A n \in 0 .. N : f[n] = AddOne(w, k, f, n)
  BY DEF SumsTo
<1>2. \A n \in 0 .. N : g[n] = AddOne(v, k, g, n)
  <2>1. \A n \in 0 .. M : g[n] = AddOne(v, k, g, n)
    BY DEF SumsTo
  <2> QED
    BY <2>1
<1>3. 0 \in T
  <2>1. f[0] = AddOne(w, k, f, 0) /\ g[0] = AddOne(v, k, g, 0)
    BY <1>1, <1>2
  <2> QED
    BY <2>1 DEF AddOne
<1>4. ASSUME NEW n \in 1 .. N, n - 1 \in T PROVE n \in T
  <2>1. f[n] = AddOne(w, k, f, n) /\ g[n] = AddOne(v, k, g, n) /\ v[n] = w[n] /\ n # 0
    BY <1>1, <1>2
  <2>2. f[n - 1] = g[n - 1]
    BY <1>4
  <2> QED
    BY <2>1, <2>2 DEF AddOne
<1> HIDE DEF T
<1>5. N \in T
  BY <1>3, <1>4, Climb
<1> QED
  BY <1>5 DEF T

\* An event is added up when it is a delta of the item.
LEMMA AddedUpAppend ==
    ASSUME NEW w \in Seq(Events), NEW e \in Events, NEW k
    PROVE  AddedUp(Append(w, e), k) =
               IF e.kind = "delta" /\ e.item = k THEN AddedUp(w, k) \o e.text ELSE AddedUp(w, k)
<1> DEFINE v == Append(w, e)
           N == Len(w)
<1>1. N \in Nat /\ Len(v) = N + 1 /\ (\A i \in 1 .. N : v[i] = w[i]) /\ v[N + 1] = e
  BY LenProperties, AppendProperties
<1> HIDE DEF v
<1>2. PICK f : SumsTo(w, k, N, f) /\ AddedUp(w, k) = f[N]
  BY <1>1, AddedUpIsASum
<1>3. PICK g : SumsTo(v, k, N + 1, g) /\ AddedUp(v, k) = g[N + 1]
  BY <1>1, AddedUpIsASum
<1> HIDE DEF N
<1>4. f[N] = g[N]
  BY <1>1, <1>2, <1>3, SumsAgree
<1>5. g[N + 1] = AddOne(v, k, g, N + 1)
  <2>1. N + 1 \in 0 .. N + 1
    BY <1>1
  <2> QED
    BY <1>3, <2>1 DEF SumsTo
<1>6. N + 1 # 0 /\ (N + 1) - 1 = N
  BY <1>1
<1>7. g[N + 1] = IF e.kind = "delta" /\ e.item = k THEN g[N] \o e.text ELSE g[N]
  BY <1>1, <1>5, <1>6 DEF AddOne
<1> QED
  BY <1>2, <1>3, <1>4, <1>7 DEF v

\* Nothing is added up of an item nobody was told of.
LEMMA AddedUpHidden ==
    ASSUME NEW w \in Seq(Events), NEW k, Hidden(w, k)
    PROVE  AddedUp(w, k) = <<>>
<1> DEFINE N == Len(w)
<1>1. N \in Nat /\ DOMAIN w = 1 .. N
  BY LenProperties
<1>2. PICK f : SumsTo(w, k, N, f) /\ AddedUp(w, k) = f[N]
  BY <1>1, AddedUpIsASum
<1> HIDE DEF N
<1> DEFINE T == {n \in 0 .. N : f[n] = <<>>}
<1>3. \A n \in 0 .. N : f[n] = AddOne(w, k, f, n)
  BY <1>2 DEF SumsTo
<1>4. 0 \in T
  BY <1>1, <1>3 DEF AddOne
<1>5. ASSUME NEW n \in 1 .. N, n - 1 \in T PROVE n \in T
  <2>1. w[n].item # k /\ n # 0 /\ f[n] = AddOne(w, k, f, n) /\ n \in 0 .. N
    BY <1>1, <1>3 DEF Hidden
  <2> QED
    BY <1>5, <2>1 DEF AddOne
<1> HIDE DEF T
<1>6. N \in T
  BY <1>1, <1>4, <1>5, Climb
<1> QED
  BY <1>2, <1>6 DEF T

-------------------------------------------------------------------------------
(* One more event *)

\* What appending does to the events.
LEMMA Appended ==
    ASSUME NEW w \in Seq(Events), NEW e \in Events
    PROVE  /\ Append(w, e) \in Seq(Events)
           /\ \E N \in Nat : /\ Len(w) = N /\ DOMAIN w = 1 .. N
                             /\ DOMAIN Append(w, e) = 1 .. (N + 1)
                             /\ \A i \in 1 .. N : Append(w, e)[i] = w[i]
                             /\ Append(w, e)[N + 1] = e
<1>1. Append(w, e) \in Seq(Events) /\ Len(Append(w, e)) = Len(w) + 1
  BY AppendProperties
<1>2. Len(w) \in Nat /\ DOMAIN w = 1 .. Len(w) /\ DOMAIN Append(w, e) = 1 .. (Len(w) + 1)
  BY <1>1, LenProperties
<1>3. (\A i \in 1 .. Len(w) : Append(w, e)[i] = w[i]) /\ Append(w, e)[Len(w) + 1] = e
  BY AppendProperties
<1> DEFINE v == Append(w, e)
           M == Len(w)
<1>4. /\ v \in Seq(Events) /\ M \in Nat /\ Len(w) = M /\ DOMAIN w = 1 .. M
      /\ DOMAIN v = 1 .. (M + 1) /\ (\A i \in 1 .. M : v[i] = w[i]) /\ v[M + 1] = e
  BY <1>1, <1>2, <1>3
<1> HIDE DEF v, M
<1>5. v \in Seq(Events) /\ \E N \in Nat : /\ Len(w) = N /\ DOMAIN w = 1 .. N
                                         /\ DOMAIN v = 1 .. (N + 1)
                                         /\ \A i \in 1 .. N : v[i] = w[i]
                                         /\ v[N + 1] = e
  BY <1>4
<1> QED
  BY <1>5 DEF v

\* An event about something else leaves an item as it was.
LEMMA AboutAnother ==
    ASSUME NEW w \in Seq(Events), NEW e \in Events, NEW k, e.item # k
    PROVE  /\ Hidden(w, k) => Hidden(Append(w, e), k)
           /\ ItemOpen(w, k) <=> ItemOpen(Append(w, e), k)
           /\ Closed(w, k) => Closed(Append(w, e), k)
<1> DEFINE v == Append(w, e)
<1>1. PICK N \in Nat : /\ DOMAIN w = 1 .. N /\ DOMAIN v = 1 .. (N + 1)
                       /\ (\A i \in 1 .. N : v[i] = w[i]) /\ v[N + 1] = e
  BY Appended
<1> HIDE DEF v
<1>2. \A i \in DOMAIN v : v[i].item = k => i \in DOMAIN w
  BY <1>1
<1>3. DOMAIN w \subseteq DOMAIN v /\ \A i \in DOMAIN w : v[i] = w[i]
  BY <1>1
<1>4. Hidden(w, k) => Hidden(v, k)
  BY <1>2, <1>3 DEF Hidden
<1>5. \A a : BeginsAt(w, k, a) <=> BeginsAt(v, k, a)
  BY <1>2, <1>3 DEF BeginsAt
<1>6. \A d : EndsAt(w, k, d) <=> EndsAt(v, k, d)
  BY <1>2, <1>3 DEF EndsAt
<1>7. Begun(w, k) <=> Begun(v, k)
  BY <1>5 DEF Begun, BeginsAt
<1>8. ItemOpen(w, k) <=> ItemOpen(v, k)
  BY <1>2, <1>3, <1>7 DEF ItemOpen
<1>9. Closed(w, k) => Closed(v, k)
  BY <1>3, <1>6, <1>7 DEF Closed
<1> QED
  BY <1>4, <1>8, <1>9 DEF v

\* An open item stays so when its event is neither an announcement nor an end.
LEMMA InsideStaysOpen ==
    ASSUME NEW w \in Seq(Events), NEW e \in Events, NEW k, e.item = k, ItemOpen(w, k),
           e.kind # "added", e.kind # "done"
    PROVE  ItemOpen(Append(w, e), k)
<1> DEFINE v == Append(w, e)
<1>1. PICK N \in Nat : /\ DOMAIN w = 1 .. N /\ DOMAIN v = 1 .. (N + 1)
                       /\ (\A i \in 1 .. N : v[i] = w[i]) /\ v[N + 1] = e
  BY Appended
<1> HIDE DEF v
<1>2. PICK a \in DOMAIN w : BeginsAt(w, k, a)
  BY DEF ItemOpen, Begun
<1>3. \A i \in DOMAIN v : (i \in DOMAIN w /\ v[i] = w[i]) \/ (i = N + 1 /\ v[i] = e)
  BY <1>1
<1>4. a \in DOMAIN v /\ v[a] = w[a] /\ a <= N + 1
  BY <1>1
<1>5. BeginsAt(v, k, a)
  BY <1>2, <1>3, <1>4 DEF BeginsAt
<1>6. \A i \in DOMAIN v : v[i].item = k => v[i].kind # "done"
  BY <1>3 DEF ItemOpen
<1> QED
  BY <1>4, <1>5, <1>6 DEF ItemOpen, Begun, v

\* The announcement of a hidden item opens it.
LEMMA AnnouncedIsOpen ==
    ASSUME NEW w \in Seq(Events), NEW e \in Events, NEW k, e.item = k, Hidden(w, k),
           e.kind = "added"
    PROVE  ItemOpen(Append(w, e), k)
<1> DEFINE v == Append(w, e)
<1>1. PICK N \in Nat : /\ DOMAIN w = 1 .. N /\ DOMAIN v = 1 .. (N + 1)
                       /\ (\A i \in 1 .. N : v[i] = w[i]) /\ v[N + 1] = e
  BY Appended
<1> HIDE DEF v
<1>2. \A i \in DOMAIN v : v[i].item = k => i = N + 1
  BY <1>1 DEF Hidden
<1>3. N + 1 \in DOMAIN v /\ v[N + 1] = e
  BY <1>1
<1>4. BeginsAt(v, k, N + 1)
  BY <1>1, <1>2, <1>3 DEF BeginsAt
<1>5. \A i \in DOMAIN v : v[i].item = k => v[i].kind # "done"
  BY <1>2, <1>3
<1> QED
  BY <1>3, <1>4, <1>5 DEF ItemOpen, Begun, v

\* The end of an open item closes it.
LEMMA EndedIsClosed ==
    ASSUME NEW w \in Seq(Events), NEW e \in Events, NEW k, e.item = k, ItemOpen(w, k),
           e.kind = "done"
    PROVE  Closed(Append(w, e), k) /\ ~ItemOpen(Append(w, e), k)
<1> DEFINE v == Append(w, e)
<1>1. PICK N \in Nat : /\ DOMAIN w = 1 .. N /\ DOMAIN v = 1 .. (N + 1)
                       /\ (\A i \in 1 .. N : v[i] = w[i]) /\ v[N + 1] = e
  BY Appended
<1> HIDE DEF v
<1>2. PICK a \in DOMAIN w : BeginsAt(w, k, a)
  BY DEF ItemOpen, Begun
<1>3. \A i \in DOMAIN v : (i \in DOMAIN w /\ v[i] = w[i]) \/ (i = N + 1 /\ v[i] = e)
  BY <1>1
<1>4. a \in DOMAIN v /\ v[a] = w[a] /\ a <= N + 1
  BY <1>1
<1>5. BeginsAt(v, k, a)
  BY <1>2, <1>3, <1>4 DEF BeginsAt
<1>6. N + 1 \in DOMAIN v /\ v[N + 1] = e /\ \A i \in DOMAIN v : i <= N + 1
  BY <1>1
<1>7. \A i \in DOMAIN v : v[i].item = k /\ v[i].kind = "done" => i = N + 1
  BY <1>3 DEF ItemOpen
<1>8. EndsAt(v, k, N + 1)
  BY <1>6, <1>7 DEF EndsAt
<1> QED
  BY <1>4, <1>5, <1>6, <1>8 DEF ItemOpen, Closed, Begun, v

\* Only an end is about the output.
LEMMA OutputOfOthers ==
    ASSUME NEW w \in Seq(Events), NEW e \in Events, NEW output, NEW index,
           OutputTrue(w, output, index), e.kind # "done"
    PROVE  OutputTrue(Append(w, e), output, index)
<1> DEFINE v == Append(w, e)
<1>1. PICK N \in Nat : /\ DOMAIN w = 1 .. N /\ DOMAIN v = 1 .. (N + 1)
                       /\ (\A i \in 1 .. N : v[i] = w[i]) /\ v[N + 1] = e
  BY Appended
<1> HIDE DEF v
<1>2. \A i \in DOMAIN v : v[i].kind = "done" => i \in DOMAIN w /\ v[i] = w[i]
  BY <1>1
<1>3. \A i \in DOMAIN w : i \in DOMAIN v /\ v[i] = w[i]
  BY <1>1
<1>4. OutputTrue(v, output, index)
  BY <1>2, <1>3 DEF OutputTrue
<1> QED
  BY <1>4 DEF v

\* Events are about no item or one there is.
LEMMA AboutThese ==
    ASSUME NEW w \in Seq(Events), NEW e \in Events, NEW items,
           \A i \in DOMAIN w : w[i].item \in items, e.item \in items
    PROVE  \A i \in DOMAIN Append(w, e) : Append(w, e)[i].item \in items
<1> DEFINE v == Append(w, e)
<1>1. PICK N \in Nat : /\ DOMAIN w = 1 .. N /\ DOMAIN v = 1 .. (N + 1)
                       /\ (\A i \in 1 .. N : v[i] = w[i]) /\ v[N + 1] = e
  BY Appended
<1> HIDE DEF v
<1>2. \A i \in DOMAIN v : (i \in DOMAIN w /\ v[i] = w[i]) \/ v[i] = e
  BY <1>1
<1>3. \A i \in DOMAIN v : v[i].item \in items
  BY <1>2
<1> QED
  BY <1>3 DEF v

\* The ends carry texts.
LEMMA EndTexts ==
    ASSUME NEW w \in Seq(Events), NEW e \in Events, NEW texts,
           \A d \in DOMAIN w : w[d].kind = "done" =>
               w[d].item \in DOMAIN texts /\ w[d].text = texts[w[d].item],
           e.kind = "done" => e.item \in DOMAIN texts /\ e.text = texts[e.item]
    PROVE  \A d \in DOMAIN Append(w, e) : Append(w, e)[d].kind = "done" =>
               /\ Append(w, e)[d].item \in DOMAIN texts
               /\ Append(w, e)[d].text = texts[Append(w, e)[d].item]
<1> DEFINE v == Append(w, e)
<1>1. PICK N \in Nat : /\ DOMAIN w = 1 .. N /\ DOMAIN v = 1 .. (N + 1)
                       /\ (\A i \in 1 .. N : v[i] = w[i]) /\ v[N + 1] = e
  BY Appended
<1> HIDE DEF v
<1>2. \A i \in DOMAIN v : (i \in DOMAIN w /\ v[i] = w[i]) \/ v[i] = e
  BY <1>1
<1>3. \A d \in DOMAIN v : v[d].kind = "done" =>
          v[d].item \in DOMAIN texts /\ v[d].text = texts[v[d].item]
  BY <1>2
<1> QED
  BY <1>3 DEF v

-------------------------------------------------------------------------------
(* The events, the texts and the output *)

\* An event of an open item, or of none, that is no delta.
LEMMA WireInside ==
    ASSUME NEW w \in Seq(Events), NEW e \in Events, NEW texts, NEW given, NEW output, NEW index,
           NEW open, NEW secret, NEW whole,
           WireTrue(w, texts, given, output, index, open, secret, whole),
           0 \notin DOMAIN texts, open \intersect secret = {},
           e.item \in open \union {0}, e.kind \notin {"added", "delta", "done"}
    PROVE  WireTrue(Append(w, e), texts, given, output, index, open, secret, whole)
<1> DEFINE v == Append(w, e)
<1>1. TextsTrue(w, texts, given) /\ OutputTrue(w, output, index)
      /\ PhasesTrue(w, texts, open, secret, whole)
  BY DEF WireTrue
<1>2. \A k : AddedUp(v, k) = AddedUp(w, k)
  BY AddedUpAppend
<1>3. \A d \in DOMAIN v : v[d].kind = "done" =>
          v[d].item \in DOMAIN texts /\ v[d].text = texts[v[d].item]
  BY <1>1, EndTexts DEF TextsTrue
<1>4. OutputTrue(v, output, index)
  BY <1>1, OutputOfOthers
<1>5. e.item \in {0} \union DOMAIN texts
  BY <1>1 DEF PhasesTrue
<1>6. \A i \in DOMAIN v : v[i].item \in {0} \union DOMAIN texts
  <2> DEFINE items == {0} \union DOMAIN texts
  <2>1. \A i \in DOMAIN w : w[i].item \in items
    BY <1>1 DEF PhasesTrue
  <2> HIDE DEF items
  <2>2. \A i \in DOMAIN v : v[i].item \in items
    BY <2>1, <1>5, AboutThese DEF items
  <2> QED
    BY <2>2 DEF items
<1>7. ASSUME NEW k, k \in DOMAIN texts
      PROVE  /\ Hidden(w, k) => Hidden(v, k) \/ k \in open
             /\ ItemOpen(w, k) <=> ItemOpen(v, k)
             /\ Closed(w, k) => Closed(v, k) \/ k \in open
  <2>1. CASE e.item # k
    BY <2>1, AboutAnother
  <2>2. CASE e.item = k
    <3>1. k \in open /\ ItemOpen(w, k)
      BY <2>2, <1>7, <1>1 DEF PhasesTrue
    <3>2. ItemOpen(v, k)
      BY <2>2, <3>1, InsideStaysOpen
    <3> QED
      BY <3>1, <3>2
  <2> QED
    BY <2>1, <2>2
<1> HIDE DEF v
<1>8. TextsTrue(v, texts, given)
  BY <1>1, <1>2, <1>3 DEF TextsTrue
<1>9. PhasesTrue(v, texts, open, secret, whole)
  <2>1. \A k \in secret : Hidden(v, k)
    BY <1>1, <1>7 DEF PhasesTrue
  <2>2. \A k \in DOMAIN texts : Hidden(v, k) \/ ItemOpen(v, k) \/ Closed(v, k)
    BY <1>1, <1>7 DEF PhasesTrue
  <2>3. \A k \in open : ItemOpen(v, k)
    BY <1>1, <1>7 DEF PhasesTrue
  <2>4. whole => \A k \in DOMAIN texts : ItemOpen(v, k) => k \in open
    BY <1>1, <1>7 DEF PhasesTrue
  <2> QED
    BY <1>1, <1>6, <2>1, <2>2, <2>3, <2>4 DEF PhasesTrue
<1> QED
  BY <1>4, <1>8, <1>9 DEF WireTrue, v

\* A delta of an open item.
LEMMA WireDelta ==
    ASSUME NEW w \in Seq(Events), NEW e \in Events, NEW texts \in Seq(Seq(Nat)), NEW given \in Nat,
           NEW output, NEW index, NEW open, NEW secret, NEW whole,
           WireTrue(w, texts, given, output, index, open, secret, whole),
           open \intersect secret = {}, NEW k \in open,
           e.item = k, e.kind = "delta", e.text = <<given + 1>>
    PROVE  WireTrue(Append(w, e), [texts EXCEPT ![k] = Append(@, given + 1)], given + 1,
                    output, index, open, secret, whole)
<1> DEFINE v == Append(w, e)
           longer == [texts EXCEPT ![k] = Append(@, given + 1)]
<1>1. TextsTrue(w, texts, given) /\ OutputTrue(w, output, index)
      /\ PhasesTrue(w, texts, open, secret, whole)
  BY DEF WireTrue
<1>2. k \in DOMAIN texts /\ DOMAIN longer = DOMAIN texts
      /\ longer[k] = Append(texts[k], given + 1)
      /\ \A j \in DOMAIN texts : j # k => longer[j] = texts[j]
  BY <1>1 DEF PhasesTrue
<1> HIDE DEF longer
<1>3. \A j \in DOMAIN texts : longer[j] \in Seq(1 .. (given + 1)) /\ AddedUp(v, j) = longer[j]
  <2> SUFFICES ASSUME NEW j \in DOMAIN texts
               PROVE  longer[j] \in Seq(1 .. (given + 1)) /\ AddedUp(v, j) = longer[j]
    OBVIOUS
  <2>1. texts[j] \in Seq(1 .. given) /\ AddedUp(w, j) = texts[j]
    BY <1>1 DEF TextsTrue
  <2>2. 1 .. given \subseteq 1 .. (given + 1) /\ given + 1 \in 1 .. (given + 1)
    OBVIOUS
  <2>3. texts[j] \in Seq(1 .. (given + 1))
    BY <2>1, <2>2, SeqMonotonic
  <2>4. CASE j # k
    <3>1. AddedUp(v, j) = AddedUp(w, j)
      BY <2>4, AddedUpAppend
    <3> QED
      BY <2>1, <2>3, <2>4, <3>1, <1>2
  <2>5. CASE j = k
    <3>1. AddedUp(v, j) = AddedUp(w, j) \o e.text
      BY <2>5, AddedUpAppend
    <3>2. Append(texts[j], given + 1) = texts[j] \o <<given + 1>>
      BY <2>2, <2>3, AppendIsConcat
    <3>3. Append(texts[j], given + 1) \in Seq(1 .. (given + 1))
      BY <2>2, <2>3, AppendProperties
    <3> QED
      BY <2>1, <2>5, <3>1, <3>2, <3>3, <1>2
  <2> QED
    BY <2>4, <2>5
<1>4. \A d \in DOMAIN v : v[d].kind = "done" =>
          v[d].item \in DOMAIN longer /\ v[d].text = longer[v[d].item]
  <2>1. \A d \in DOMAIN w : w[d].item = k => w[d].kind # "done"
    BY <1>1 DEF PhasesTrue, ItemOpen
  <2>2. \A d \in DOMAIN w : w[d].kind = "done" =>
            w[d].item \in DOMAIN longer /\ w[d].text = longer[w[d].item]
    BY <1>1, <1>2, <2>1 DEF TextsTrue
  <2> QED
    BY <2>2, EndTexts
<1>5. OutputTrue(v, output, index)
  BY <1>1, OutputOfOthers
<1>6. \A i \in DOMAIN v : v[i].item \in {0} \union DOMAIN texts
  <2> DEFINE items == {0} \union DOMAIN texts
  <2>1. (\A i \in DOMAIN w : w[i].item \in items) /\ e.item \in items
    BY <1>1, <1>2 DEF PhasesTrue
  <2> HIDE DEF items
  <2>2. \A i \in DOMAIN v : v[i].item \in items
    BY <2>1, AboutThese
  <2> QED
    BY <2>2 DEF items
<1>7. ASSUME NEW j, j \in DOMAIN texts
      PROVE  /\ Hidden(w, j) => Hidden(v, j) \/ j \in open
             /\ ItemOpen(w, j) <=> ItemOpen(v, j)
             /\ Closed(w, j) => Closed(v, j) \/ j \in open
  <2>1. CASE e.item # j
    BY <2>1, AboutAnother
  <2>2. CASE e.item = j
    <3>1. j \in open /\ ItemOpen(w, j)
      BY <2>2, <1>7, <1>1 DEF PhasesTrue
    <3>2. ItemOpen(v, j)
      BY <2>2, <3>1, InsideStaysOpen
    <3> QED
      BY <3>1, <3>2
  <2> QED
    BY <2>1, <2>2
<1> HIDE DEF v
<1>8. TextsTrue(v, longer, given + 1)
  BY <1>2, <1>3, <1>4 DEF TextsTrue
<1>9. PhasesTrue(v, longer, open, secret, whole)
  <2>1. \A j \in secret : Hidden(v, j)
    BY <1>1, <1>7 DEF PhasesTrue
  <2>2. \A j \in DOMAIN texts : Hidden(v, j) \/ ItemOpen(v, j) \/ Closed(v, j)
    BY <1>1, <1>7 DEF PhasesTrue
  <2>3. \A j \in open : ItemOpen(v, j)
    BY <1>1, <1>7 DEF PhasesTrue
  <2>4. whole => \A j \in DOMAIN texts : ItemOpen(v, j) => j \in open
    BY <1>1, <1>7 DEF PhasesTrue
  <2> QED
    BY <1>1, <1>2, <1>6, <2>1, <2>2, <2>3, <2>4 DEF PhasesTrue
<1> QED
  BY <1>5, <1>8, <1>9 DEF WireTrue, v, longer

\* An item nobody is told of yet.
LEMMA WireNew ==
    ASSUME NEW w \in Seq(Events), NEW texts \in Seq(Seq(Nat)), NEW given, NEW output, NEW index,
           NEW open, NEW secret, NEW whole,
           WireTrue(w, texts, given, output, index, open, secret, whole)
    PROVE  WireTrue(w, Append(texts, <<>>), given, output, index, open,
                    secret \union {Len(texts) + 1}, whole)
<1> DEFINE more == Append(texts, <<>>)
           k == Len(texts) + 1
<1>1. TextsTrue(w, texts, given) /\ OutputTrue(w, output, index)
      /\ PhasesTrue(w, texts, open, secret, whole)
  BY DEF WireTrue
<1>2. /\ DOMAIN more = DOMAIN texts \union {k} /\ k \notin DOMAIN texts /\ k # 0
      /\ more[k] = <<>> /\ \A j \in DOMAIN texts : more[j] = texts[j]
  <2>1. <<>> \in Seq(Nat)
    BY EmptySeq
  <2>2. /\ Append(texts, <<>>) \in Seq(Seq(Nat)) /\ Len(Append(texts, <<>>)) = Len(texts) + 1
        /\ \A i \in 1 .. Len(texts) : Append(texts, <<>>)[i] = texts[i]
        /\ Append(texts, <<>>)[Len(texts) + 1] = <<>>
    BY <2>1, AppendProperties
  <2>3. Len(texts) \in Nat /\ DOMAIN texts = 1 .. Len(texts)
        /\ DOMAIN more = 1 .. (Len(texts) + 1)
    BY <2>2, LenProperties
  <2> QED
    BY <2>2, <2>3
<1> HIDE DEF more, k
<1>3. Hidden(w, k)
  BY <1>1, <1>2 DEF PhasesTrue, Hidden
<1>4. AddedUp(w, k) = <<>> /\ <<>> \in Seq(1 .. given)
  BY <1>3, AddedUpHidden, EmptySeq
<1>5. TextsTrue(w, more, given)
  BY <1>1, <1>2, <1>4 DEF TextsTrue
<1>6. ~ItemOpen(w, k)
  BY <1>3 DEF ItemOpen, Begun, BeginsAt, Hidden
<1>7. PhasesTrue(w, more, open, secret \union {k}, whole)
  BY <1>1, <1>2, <1>3, <1>6 DEF PhasesTrue
<1> QED
  BY <1>1, <1>5, <1>7 DEF WireTrue, more, k

\* The announcement of a hidden item.
LEMMA WireBegin ==
    ASSUME NEW w \in Seq(Events), NEW e \in Events, NEW texts, NEW given, NEW output, NEW index,
           NEW open, NEW secret, NEW whole,
           WireTrue(w, texts, given, output, index, open, secret, whole),
           NEW k \in secret, e.item = k, e.kind = "added"
    PROVE  WireTrue(Append(w, e), texts, given, output, index, open \union {k}, secret \ {k}, whole)
<1> DEFINE v == Append(w, e)
<1>1. TextsTrue(w, texts, given) /\ OutputTrue(w, output, index)
      /\ PhasesTrue(w, texts, open, secret, whole)
  BY DEF WireTrue
<1>2. \A j : AddedUp(v, j) = AddedUp(w, j)
  BY AddedUpAppend
<1>3. \A d \in DOMAIN v : v[d].kind = "done" =>
          v[d].item \in DOMAIN texts /\ v[d].text = texts[v[d].item]
  BY <1>1, EndTexts DEF TextsTrue
<1>4. OutputTrue(v, output, index)
  BY <1>1, OutputOfOthers
<1>5. k \in DOMAIN texts /\ Hidden(w, k)
  BY <1>1 DEF PhasesTrue
<1>6. \A i \in DOMAIN v : v[i].item \in {0} \union DOMAIN texts
  <2> DEFINE items == {0} \union DOMAIN texts
  <2>1. (\A i \in DOMAIN w : w[i].item \in items) /\ e.item \in items
    BY <1>1, <1>5 DEF PhasesTrue
  <2> HIDE DEF items
  <2>2. \A i \in DOMAIN v : v[i].item \in items
    BY <2>1, AboutThese
  <2> QED
    BY <2>2 DEF items
<1>7. ASSUME NEW j, j # k
      PROVE  /\ Hidden(w, j) => Hidden(v, j)
             /\ ItemOpen(w, j) <=> ItemOpen(v, j)
             /\ Closed(w, j) => Closed(v, j)
  BY <1>7, AboutAnother
<1>8. ItemOpen(v, k)
  BY <1>5, AnnouncedIsOpen
<1> HIDE DEF v
<1>9. TextsTrue(v, texts, given)
  BY <1>1, <1>2, <1>3 DEF TextsTrue
<1>10. PhasesTrue(v, texts, open \union {k}, secret \ {k}, whole)
  <2>1. \A j \in secret \ {k} : Hidden(v, j)
    BY <1>1, <1>7 DEF PhasesTrue
  <2>2. \A j \in DOMAIN texts : Hidden(v, j) \/ ItemOpen(v, j) \/ Closed(v, j)
    BY <1>1, <1>7, <1>8 DEF PhasesTrue
  <2>3. \A j \in open \union {k} : ItemOpen(v, j)
    BY <1>1, <1>7, <1>8 DEF PhasesTrue
  <2>4. whole => \A j \in DOMAIN texts : ItemOpen(v, j) => j \in open \union {k}
    BY <1>1, <1>7 DEF PhasesTrue
  <2> QED
    BY <1>1, <1>5, <1>6, <2>1, <2>2, <2>3, <2>4 DEF PhasesTrue
<1> QED
  BY <1>4, <1>9, <1>10 DEF WireTrue, v

\* The output of an end.
LEMMA OutputOfEnd ==
    ASSUME NEW w \in Seq(Events), NEW e \in Events, NEW output \in Seq(Outputs), NEW index \in Nat,
           OutputTrue(w, output, index), e.kind = "done", e.index = index
    PROVE  OutputTrue(Append(w, e), Append(output, [item |-> e.item, text |-> e.text]), index + 1)
<1> DEFINE v == Append(w, e)
           x == [item |-> e.item, text |-> e.text]
           more == Append(output, x)
<1>7. OutputTrue(w, output, index)
  OBVIOUS
<1>11. index = Len(output)
  BY <1>7 DEF OutputTrue
<1>12. x \in Outputs
  BY DEF Outputs, Events
<1> HIDE DEF x
<1>13. more \in Seq(Outputs) /\ Len(more) = Len(output) + 1
       /\ (\A i \in 1 .. Len(output) : more[i] = output[i]) /\ more[Len(output) + 1] = x
  BY <1>12, AppendProperties
<1>14. DOMAIN output = 1 .. Len(output) /\ DOMAIN more = 1 .. Len(more)
  BY <1>13, LenProperties
<1> HIDE DEF more
<1>10. /\ Len(more) = index + 1 /\ DOMAIN output = 1 .. index /\ DOMAIN more = 1 .. (index + 1)
       /\ (\A i \in 1 .. index : more[i] = output[i]) /\ more[index + 1] = x
  BY <1>11, <1>13, <1>14
<1>1. PICK N \in Nat : /\ DOMAIN w = 1 .. N /\ DOMAIN v = 1 .. (N + 1)
                       /\ (\A i \in 1 .. N : v[i] = w[i]) /\ v[N + 1] = e
  BY Appended
<1> HIDE DEF v
<1>9. index \in Nat /\ DOMAIN output = 1 .. index /\ DOMAIN more = 1 .. (index + 1)
  BY <1>10
<1>8. /\ \A d \in DOMAIN w : w[d].kind = "done" =>
            /\ w[d].index + 1 \in DOMAIN output
            /\ output[w[d].index + 1] = [item |-> w[d].item, text |-> w[d].text]
      /\ \A i \in DOMAIN output : \E d \in DOMAIN w : w[d].kind = "done" /\ w[d].index + 1 = i
      /\ \A d, f \in DOMAIN w :
            w[d].kind = "done" /\ w[f].kind = "done" /\ d < f => w[d].index < w[f].index
  BY <1>7, Zenon DEF OutputTrue
<1>2. \A d \in DOMAIN w : w[d].kind = "done" =>
          /\ w[d].index + 1 \in 1 .. index
          /\ output[w[d].index + 1] = [item |-> w[d].item, text |-> w[d].text]
  BY <1>8, <1>10
<1>3. \A d \in DOMAIN w : w[d].index \in Nat
  <2>1. \A d \in DOMAIN w : w[d] \in Events
    BY LenProperties
  <2> QED
    BY <2>1 DEF Events
<1>4. \A d \in DOMAIN v : v[d].kind = "done" =>
          /\ v[d].index + 1 \in DOMAIN more
          /\ more[v[d].index + 1] = [item |-> v[d].item, text |-> v[d].text]
  <2> SUFFICES ASSUME NEW d \in DOMAIN v, v[d].kind = "done"
               PROVE  /\ v[d].index + 1 \in DOMAIN more
                      /\ more[v[d].index + 1] = [item |-> v[d].item, text |-> v[d].text]
    OBVIOUS
  <2>1. CASE d \in DOMAIN w
    <3>1. v[d] = w[d] /\ w[d].index + 1 \in 1 .. index
      BY <2>1, <1>1, <1>2
    <3> QED
      BY <2>1, <3>1, <1>2, <1>10
  <2>2. CASE d \notin DOMAIN w
    <3>1. v[d] = e
      BY <2>2, <1>1
    <3> QED
      BY <3>1, <1>10 DEF x
  <2> QED
    BY <2>1, <2>2
<1>5. \A i \in DOMAIN more : \E d \in DOMAIN v : v[d].kind = "done" /\ v[d].index + 1 = i
  <2> SUFFICES ASSUME NEW i \in DOMAIN more
               PROVE  \E d \in DOMAIN v : v[d].kind = "done" /\ v[d].index + 1 = i
    OBVIOUS
  <2>1. CASE i \in DOMAIN output
    <3>1. PICK d \in DOMAIN w : w[d].kind = "done" /\ w[d].index + 1 = i
      BY <1>8, <2>1
    <3>2. d \in DOMAIN v /\ v[d] = w[d]
      BY <1>1
    <3> QED
      BY <3>1, <3>2
  <2>2. CASE i \notin DOMAIN output
    <3>1. i = index + 1
      BY <2>2, <1>9
    <3>2. N + 1 \in DOMAIN v
      BY <1>1
    <3> QED
      BY <3>1, <3>2, <1>1
  <2> QED
    BY <2>1, <2>2
<1>6. \A d, f \in DOMAIN v :
          v[d].kind = "done" /\ v[f].kind = "done" /\ d < f => v[d].index < v[f].index
  <2> SUFFICES ASSUME NEW d \in DOMAIN v, NEW f \in DOMAIN v,
                      v[d].kind = "done", v[f].kind = "done", d < f
               PROVE  v[d].index < v[f].index
    OBVIOUS
  <2>1. d \in DOMAIN w /\ v[d] = w[d]
    BY <1>1
  <2>2. CASE f \in DOMAIN w
    <3>1. v[f] = w[f]
      BY <1>1, <2>2
    <3> QED
      BY <2>1, <2>2, <3>1, <1>8
  <2>3. CASE f \notin DOMAIN w
    <3>1. v[f] = e
      BY <2>3, <1>1
    <3>2. w[d].kind = "done" /\ d \in DOMAIN w
      BY <2>1
    <3>3. w[d].index + 1 \in 1 .. index /\ w[d].index \in Nat
      BY <3>2, <1>2, <1>3
    <3> QED
      BY <2>1, <3>1, <3>3, <1>9
  <2> QED
    BY <2>2, <2>3
<1>15. OutputTrue(v, more, index + 1)
  BY <1>10, <1>4, <1>5, <1>6 DEF OutputTrue
<1> QED
  BY <1>15 DEF v, more, x

\* The end of an open item, of which the response carries the same text.
LEMMA WireEnd ==
    ASSUME NEW w \in Seq(Events), NEW e \in Events, NEW texts \in Seq(Seq(Nat)), NEW given,
           NEW output \in Seq(Outputs), NEW index \in Nat, NEW open, NEW secret, NEW whole,
           WireTrue(w, texts, given, output, index, open, secret, whole),
           0 \notin DOMAIN texts, open \intersect secret = {},
           NEW k \in open, e.item = k, e.kind = "done", e.index = index, e.text = texts[k]
    PROVE  WireTrue(Append(w, e), texts, given, Append(output, [item |-> k, text |-> texts[k]]),
                    index + 1, open \ {k}, secret, whole)
<1> DEFINE v == Append(w, e)
           more == Append(output, [item |-> k, text |-> texts[k]])
<1>1. TextsTrue(w, texts, given) /\ OutputTrue(w, output, index)
      /\ PhasesTrue(w, texts, open, secret, whole)
  BY DEF WireTrue
<1>2. \A j : AddedUp(v, j) = AddedUp(w, j)
  BY AddedUpAppend
<1>3. k \in DOMAIN texts /\ ItemOpen(w, k)
  BY <1>1 DEF PhasesTrue
<1>4. \A d \in DOMAIN v : v[d].kind = "done" =>
          v[d].item \in DOMAIN texts /\ v[d].text = texts[v[d].item]
  BY <1>1, <1>3, EndTexts DEF TextsTrue
<1>5. more = Append(output, [item |-> e.item, text |-> e.text])
  OBVIOUS
<1> HIDE DEF more
<1>6. OutputTrue(v, more, index + 1)
  BY <1>1, <1>5, OutputOfEnd
<1>7. \A i \in DOMAIN v : v[i].item \in {0} \union DOMAIN texts
  <2> DEFINE items == {0} \union DOMAIN texts
  <2>1. (\A i \in DOMAIN w : w[i].item \in items) /\ e.item \in items
    BY <1>1, <1>3 DEF PhasesTrue
  <2> HIDE DEF items
  <2>2. \A i \in DOMAIN v : v[i].item \in items
    BY <2>1, AboutThese
  <2> QED
    BY <2>2 DEF items
<1>8. ASSUME NEW j, j # k
      PROVE  /\ Hidden(w, j) => Hidden(v, j)
             /\ ItemOpen(w, j) <=> ItemOpen(v, j)
             /\ Closed(w, j) => Closed(v, j)
  BY <1>8, AboutAnother
<1>9. Closed(v, k) /\ ~ItemOpen(v, k)
  BY <1>3, EndedIsClosed
<1> HIDE DEF v
<1>10. TextsTrue(v, texts, given)
  BY <1>1, <1>2, <1>4 DEF TextsTrue
<1>11. PhasesTrue(v, texts, open \ {k}, secret, whole)
  <2>1. \A j \in secret : Hidden(v, j)
    BY <1>1, <1>8 DEF PhasesTrue
  <2>2. \A j \in DOMAIN texts : Hidden(v, j) \/ ItemOpen(v, j) \/ Closed(v, j)
    BY <1>1, <1>8, <1>9 DEF PhasesTrue
  <2>3. \A j \in open \ {k} : ItemOpen(v, j)
    BY <1>1, <1>8 DEF PhasesTrue
  <2>4. whole => \A j \in DOMAIN texts : ItemOpen(v, j) => j \in open \ {k}
    BY <1>1, <1>8, <1>9 DEF PhasesTrue
  <2> QED
    BY <1>1, <1>7, <2>1, <2>2, <2>3, <2>4 DEF PhasesTrue
<1> QED
  BY <1>6, <1>10, <1>11 DEF WireTrue, v, more

\* Items may lose their role, an open one only where calls may be dropped.
LEMMA WireFewer ==
    ASSUME NEW w, NEW texts, NEW given, NEW output, NEW index,
           NEW open, NEW secret, NEW whole, NEW fewer, NEW less,
           WireTrue(w, texts, given, output, index, open, secret, whole),
           fewer \subseteq open, less \subseteq secret, whole => open \subseteq fewer
    PROVE  WireTrue(w, texts, given, output, index, fewer, less, whole)
<1>1. PhasesTrue(w, texts, open, secret, whole)
  BY DEF WireTrue
<1>2. PhasesTrue(w, texts, fewer, less, whole)
  BY <1>1 DEF PhasesTrue
<1> QED
  BY <1>2 DEF WireTrue

-------------------------------------------------------------------------------
(* The emitter *)

\* All but the events and their numbers.
SameButEvents(s, t) ==
    /\ t.message = s.message /\ t.reasoning = s.reasoning /\ t.calls = s.calls
    /\ t.texts = s.texts /\ t.output = s.output /\ t.index = s.index
    /\ t.native = s.native /\ t.given = s.given

\* One event was added, of this kind about this item.
Emits(s, t, kind, item, text) ==
    \E e \in Events :
        /\ e.kind = kind /\ e.item = item /\ e.text = text /\ e.index = s.index
        /\ t.pending = Append(s.pending, e)

\* Which items are whose.
SameRoles(s, t) ==
    /\ t.message = s.message /\ t.reasoning = s.reasoning /\ t.calls = s.calls
    /\ DOMAIN t.texts = DOMAIN s.texts

\* The fields of a state.
LEMMA StateFields ==
    ASSUME NEW s \in StateRecords
    PROVE  /\ s.message \in Nat /\ s.reasoning \in Nat /\ s.calls \in Seq(CallRecords)
           /\ s.texts \in Seq(Seq(Nat)) /\ s.output \in Seq(Outputs) /\ s.index \in Nat
           /\ s.seq \in Nat /\ s.pending \in Seq(ItemEvents) /\ s.native \in Seq(Nat)
           /\ s.given \in Nat /\ s.pending \in Seq(Events)
<1>1. /\ s.message \in Nat /\ s.reasoning \in Nat /\ s.calls \in Seq(CallRecords)
      /\ s.texts \in Seq(Seq(Nat)) /\ s.output \in Seq(Outputs) /\ s.index \in Nat
      /\ s.seq \in Nat /\ s.pending \in Seq(ItemEvents) /\ s.native \in Seq(Nat)
      /\ s.given \in Nat
  BY DEF StateRecords
<1>2. ItemEvents \subseteq Events
  BY DEF ItemEvents, Events, Words
<1>3. s.pending \in Seq(Events)
  BY <1>1, <1>2, SeqMonotonic
<1> QED
  BY <1>1, <1>3

\* An event is appended.
LEMMA EmitFields ==
    ASSUME NEW s \in StateRecords, NEW kind \in ItemWords, NEW item \in Nat, NEW text \in Seq(Nat)
    PROVE  /\ Emit(s, kind, item, text) \in StateRecords
           /\ SameButEvents(s, Emit(s, kind, item, text))
           /\ Emits(s, Emit(s, kind, item, text), kind, item, text)
<1> DEFINE e == Event(kind, item, s.index, text, s.seq + 1)
           t == Emit(s, kind, item, text)
<1>1. e \in ItemEvents /\ e.kind = kind /\ e.item = item /\ e.text = text /\ e.index = s.index
  BY StateFields DEF Event, ItemEvents
<1>6. e \in Events
  BY <1>1 DEF ItemEvents, Events, Words
<1>2. t = [s EXCEPT !.seq = s.seq + 1, !.pending = Append(s.pending, e)]
  BY DEF Emit, Make
<1> HIDE DEF e
<1>3. Append(s.pending, e) \in Seq(ItemEvents)
  BY <1>1, StateFields, AppendProperties
<1>4. s.seq + 1 \in Nat
  BY StateFields
<1> HIDE DEF t
<1>5. t \in StateRecords /\ SameButEvents(s, t) /\ t.pending = Append(s.pending, e)
  BY <1>2, <1>3, <1>4 DEF StateRecords, SameButEvents
<1> QED
  BY <1>1, <1>5, <1>6 DEF t, Emits

\* The events so far, with one more.
LEMMA OneMore ==
    ASSUME NEW p \in Seq(Events), NEW q \in Seq(Events), NEW e \in Events
    PROVE  p \o q \in Seq(Events) /\ p \o Append(q, e) = Append(p \o q, e)
<1>1. p \o q \in Seq(Events)
  BY ConcatProperties
<1>2. <<e>> \in Seq(Events)
  OBVIOUS
<1>3. Append(q, e) = q \o <<e>> /\ Append(p \o q, e) = (p \o q) \o <<e>>
  BY <1>1, AppendIsConcat
<1> QED
  BY <1>1, <1>2, <1>3, ConcatAssociative

\* The same roles make the same items open and secret.
LEMMA RolesKept ==
    ASSUME NEW s, NEW t, NEW c, SameRoles(s, t)
    PROVE  /\ OpenItems(t, c) = OpenItems(s, c)
           /\ SecretItems(t, c) = SecretItems(s, c)
           /\ Distinct(s) => Distinct(t)
BY DEF SameRoles, OpenItems, SecretItems, Distinct

\* What is known of the items of a state.
LEMMA ItemsOfKept ==
    ASSUME NEW p \in Seq(Events), NEW s, NEW c, NEW whole, Kept(p, s, c, whole)
    PROVE  /\ s \in StateRecords /\ Distinct(s)
           /\ p \o s.pending \in Seq(Events)
           /\ Len(s.texts) \in Nat /\ DOMAIN s.texts = 1 .. Len(s.texts)
           /\ 0 \notin DOMAIN s.texts
           /\ OpenItems(s, c) \intersect SecretItems(s, c) = {}
           /\ OpenItems(s, c) \subseteq DOMAIN s.texts
           /\ \A k \in DOMAIN s.texts : k \in Nat /\ s.texts[k] \in Seq(Nat)
<1>1. s \in StateRecords /\ Distinct(s)
  BY DEF Kept
<1>2. p \o s.pending \in Seq(Events)
  BY <1>1, StateFields, ConcatProperties
<1>3. Len(s.texts) \in Nat /\ DOMAIN s.texts = 1 .. Len(s.texts)
  BY <1>1, StateFields, LenProperties
<1>4. \A k \in DOMAIN s.texts : s.texts[k] \in Seq(Nat)
  BY <1>1, <1>3, StateFields, ElementOfSeq
<1>5. OpenItems(s, c) \subseteq DOMAIN s.texts
  BY DEF Kept, WireTrue, PhasesTrue
<1>6. OpenItems(s, c) \intersect SecretItems(s, c) = {}
  BY <1>1 DEF Distinct, OpenItems, SecretItems
<1>7. 0 \notin DOMAIN s.texts /\ DOMAIN s.texts \subseteq Nat
  BY <1>3
<1> QED
  BY <1>1, <1>2, <1>3, <1>4, <1>5, <1>6, <1>7

\* An event of an open item or of none.
LEMMA KeptEmit ==
    ASSUME NEW p \in Seq(Events), NEW s, NEW c, NEW whole, Kept(p, s, c, whole),
           NEW kind \in ItemWords, kind \notin {"added", "delta", "done"},
           NEW k \in OpenItems(s, c) \union {0}, NEW text \in Seq(Nat)
    PROVE  /\ Kept(p, Emit(s, kind, k, text), c, whole)
           /\ SameButEvents(s, Emit(s, kind, k, text))
<1> DEFINE t == Emit(s, kind, k, text)
           w == p \o s.pending
<1>1. /\ s \in StateRecords /\ Distinct(s) /\ w \in Seq(Events)
      /\ 0 \notin DOMAIN s.texts /\ OpenItems(s, c) \intersect SecretItems(s, c) = {}
      /\ k \in Nat
  BY ItemsOfKept
<1>2. /\ t \in StateRecords /\ SameButEvents(s, t)
      /\ Emits(s, t, kind, k, text)
  BY <1>1, EmitFields
<1> HIDE DEF t
<1>3. PICK e \in Events : e.kind = kind /\ e.item = k /\ t.pending = Append(s.pending, e)
  BY <1>2 DEF Emits
<1>4. p \o t.pending = Append(w, e)
  <2>1. s.pending \in Seq(Events)
    BY <1>1, StateFields
  <2> QED
    BY <1>3, <2>1, OneMore
<1> HIDE DEF w
<1>5. WireTrue(w, s.texts, s.given, s.output, s.index, OpenItems(s, c), SecretItems(s, c), whole)
  BY DEF Kept, w
<1>6. WireTrue(Append(w, e), s.texts, s.given, s.output, s.index, OpenItems(s, c),
               SecretItems(s, c), whole)
  BY <1>1, <1>3, <1>5, WireInside
<1>7. /\ OpenItems(t, c) = OpenItems(s, c) /\ SecretItems(t, c) = SecretItems(s, c) /\ Distinct(t)
  BY <1>1, <1>2, RolesKept DEF SameButEvents, SameRoles
<1>8. WireTrue(p \o t.pending, t.texts, t.given, t.output, t.index, OpenItems(t, c),
               SecretItems(t, c), whole)
  BY <1>2, <1>4, <1>6, <1>7 DEF SameButEvents
<1> QED
  BY <1>2, <1>7, <1>8 DEF Kept, t

\* A delta of an open item.
LEMMA KeptDelta ==
    ASSUME NEW p \in Seq(Events), NEW s, NEW c, NEW whole, Kept(p, s, c, whole),
           NEW k \in OpenItems(s, c)
    PROVE  /\ Kept(p, Delta(s, k), c, whole)
           /\ SameRoles(s, Delta(s, k)) /\ Delta(s, k).native = s.native
           /\ Delta(s, k).given = s.given + 1
<1> DEFINE d == s.given + 1
           longer == [s.texts EXCEPT ![k] = Append(@, d)]
           s2 == [s EXCEPT !.given = d, !.texts = longer]
           t == Emit(s2, "delta", k, <<d>>)
           w == p \o s.pending
<1>1. /\ s \in StateRecords /\ Distinct(s) /\ w \in Seq(Events)
      /\ Len(s.texts) \in Nat /\ DOMAIN s.texts = 1 .. Len(s.texts)
      /\ OpenItems(s, c) \intersect SecretItems(s, c) = {}
      /\ k \in DOMAIN s.texts /\ k \in Nat /\ s.texts[k] \in Seq(Nat)
  BY ItemsOfKept
<1>2. Delta(s, k) = t
  BY DEF Delta
<1>3. d \in Nat /\ <<d>> \in Seq(Nat)
  BY <1>1, StateFields
<1>4. longer \in Seq(Seq(Nat)) /\ DOMAIN longer = DOMAIN s.texts
  <2>1. Append(s.texts[k], d) \in Seq(Nat)
    BY <1>1, <1>3, AppendProperties
  <2>2. s.texts \in Seq(Seq(Nat)) /\ k \in 1 .. Len(s.texts)
    BY <1>1, StateFields
  <2>3. [s.texts EXCEPT ![k] = Append(s.texts[k], d)] \in Seq(Seq(Nat))
    BY <2>1, <2>2, ExceptSeq
  <2> QED
    BY <2>3
<1>5. WireTrue(w, s.texts, s.given, s.output, s.index, OpenItems(s, c), SecretItems(s, c), whole)
  BY DEF Kept
<1>6. ASSUME NEW e \in Events, e.kind = "delta", e.item = k, e.text = <<d>>
      PROVE  WireTrue(Append(w, e), longer, d, s.output, s.index, OpenItems(s, c),
                      SecretItems(s, c), whole)
  <2>1. s.texts \in Seq(Seq(Nat)) /\ s.given \in Nat
    BY <1>1, StateFields
  <2> HIDE DEF w
  <2> QED
    BY <1>1, <1>5, <1>6, <2>1, WireDelta
<1> HIDE DEF longer, d
<1>7. /\ s2 \in StateRecords /\ SameRoles(s, s2) /\ s2.texts = longer /\ s2.given = d
      /\ s2.output = s.output /\ s2.index = s.index /\ s2.native = s.native
      /\ s2.pending = s.pending
  BY <1>1, <1>3, <1>4 DEF StateRecords, SameRoles
<1> HIDE DEF s2
<1>8. /\ t \in StateRecords /\ SameButEvents(s2, t)
      /\ Emits(s2, t, "delta", k, <<d>>)
  <2>1. "delta" \in ItemWords /\ k \in Nat /\ <<d>> \in Seq(Nat)
    BY <1>1, <1>3 DEF ItemWords
  <2> QED
    BY <1>7, <2>1, EmitFields, Zenon
<1> HIDE DEF t
<1>9. PICK e \in Events : /\ e.kind = "delta" /\ e.item = k /\ e.text = <<d>>
                          /\ t.pending = Append(s.pending, e)
  BY <1>7, <1>8 DEF Emits
<1>10. p \o t.pending = Append(w, e)
  <2>1. s.pending \in Seq(Events)
    BY <1>1, StateFields
  <2> QED
    BY <1>9, <2>1, OneMore
<1> HIDE DEF w
<1>11. WireTrue(Append(w, e), longer, d, s.output, s.index, OpenItems(s, c), SecretItems(s, c), whole)
  BY <1>6, <1>9
<1>12. SameRoles(s, t) /\ t.native = s.native /\ t.given = d
  BY <1>7, <1>8 DEF SameButEvents, SameRoles
<1>13. OpenItems(t, c) = OpenItems(s, c) /\ SecretItems(t, c) = SecretItems(s, c) /\ Distinct(t)
  BY <1>1, <1>12, RolesKept
<1>14. WireTrue(p \o t.pending, t.texts, t.given, t.output, t.index, OpenItems(t, c),
                SecretItems(t, c), whole)
  BY <1>7, <1>8, <1>10, <1>11, <1>13 DEF SameButEvents
<1>15. Kept(p, t, c, whole)
  BY <1>8, <1>13, <1>14 DEF Kept
<1> QED
  BY <1>2, <1>12, <1>15 DEF d

\* The announcement of an item nobody was told of, which is open thereafter.
LEMMA WireAdded ==
    ASSUME NEW p \in Seq(Events), NEW s \in StateRecords, NEW open, NEW secret, NEW whole,
           WireTrue(p \o s.pending, s.texts, s.given, s.output, s.index, open, secret, whole),
           NEW k \in secret, k \in Nat
    PROVE  /\ Emit(s, "added", k, <<>>) \in StateRecords
           /\ SameButEvents(s, Emit(s, "added", k, <<>>))
           /\ WireTrue(p \o Emit(s, "added", k, <<>>).pending, s.texts, s.given, s.output, s.index,
                       open \union {k}, secret \ {k}, whole)
<1> DEFINE t == Emit(s, "added", k, <<>>)
           w == p \o s.pending
<1>1. w \in Seq(Events) /\ <<>> \in Seq(Nat)
  BY StateFields, ConcatProperties, EmptySeq
<1>2. /\ t \in StateRecords /\ SameButEvents(s, t)
      /\ Emits(s, t, "added", k, <<>>)
  <2>1. "added" \in ItemWords
    BY DEF ItemWords
  <2> QED
    BY <1>1, <2>1, EmitFields, Zenon
<1> HIDE DEF t
<1>3. PICK e \in Events : e.kind = "added" /\ e.item = k /\ t.pending = Append(s.pending, e)
  BY <1>2 DEF Emits
<1>4. p \o t.pending = Append(w, e)
  BY ZenonT(30), <1>3, StateFields, OneMore
<1>5. WireTrue(w, s.texts, s.given, s.output, s.index, open, secret, whole)
  OBVIOUS
<1> HIDE DEF w
<1>6. WireTrue(Append(w, e), s.texts, s.given, s.output, s.index, open \union {k}, secret \ {k}, whole)
  BY <1>1, <1>3, <1>5, WireBegin
<1> QED
  BY <1>2, <1>4, <1>6 DEF t

\* The end of an open item; who loses it is said where it ends.
LEMMA WireDone ==
    ASSUME NEW p \in Seq(Events), NEW s, NEW c, NEW whole, Kept(p, s, c, whole),
           NEW k \in OpenItems(s, c)
    PROVE  /\ ItemDone(s, k) \in StateRecords
           /\ SameRoles(s, ItemDone(s, k)) /\ ItemDone(s, k).native = s.native
           /\ ItemDone(s, k).given = s.given
           /\ WireTrue(p \o ItemDone(s, k).pending, ItemDone(s, k).texts, ItemDone(s, k).given,
                       ItemDone(s, k).output, ItemDone(s, k).index,
                       OpenItems(s, c) \ {k}, SecretItems(s, c), whole)
<1> DEFINE x == [item |-> k, text |-> s.texts[k]]
           y == Emit(s, "done", k, s.texts[k])
           t == ItemDone(s, k)
           w == p \o s.pending
<1>1. /\ s \in StateRecords /\ Distinct(s) /\ w \in Seq(Events)
      /\ 0 \notin DOMAIN s.texts
      /\ OpenItems(s, c) \intersect SecretItems(s, c) = {}
      /\ k \in DOMAIN s.texts /\ k \in Nat /\ s.texts[k] \in Seq(Nat)
  BY ItemsOfKept
<1>2. /\ y \in StateRecords /\ SameButEvents(s, y)
      /\ Emits(s, y, "done", k, s.texts[k])
  <2>1. "done" \in ItemWords
    BY DEF ItemWords
  <2> QED
    BY <1>1, <2>1, EmitFields, Zenon
<1>3. t = [y EXCEPT !.output = Append(y.output, x), !.index = y.index + 1]
  BY DEF ItemDone
<1> HIDE DEF y, t
<1>4. PICK e \in Events : /\ e.kind = "done" /\ e.item = k /\ e.text = s.texts[k]
                          /\ e.index = s.index /\ y.pending = Append(s.pending, e)
  BY <1>2 DEF Emits
<1>5. x \in Outputs
  BY <1>1 DEF Outputs
<1>6. Append(y.output, x) \in Seq(Outputs) /\ y.index + 1 \in Nat
  BY <1>2, <1>5, StateFields, AppendProperties
<1>7. p \o y.pending = Append(w, e)
  <2>1. s.pending \in Seq(Events)
    BY <1>1, StateFields
  <2> QED
    BY SMTT(20), <1>4, <2>1, OneMore
<1>8. WireTrue(w, s.texts, s.given, s.output, s.index, OpenItems(s, c), SecretItems(s, c), whole)
  BY DEF Kept
<1>9. WireTrue(Append(w, e), s.texts, s.given, Append(s.output, x), s.index + 1,
               OpenItems(s, c) \ {k}, SecretItems(s, c), whole)
  <2>1. s.texts \in Seq(Seq(Nat)) /\ s.output \in Seq(Outputs) /\ s.index \in Nat
    BY <1>1, StateFields
  <2> HIDE DEF w
  <2> QED
    BY <1>1, <1>4, <1>8, <2>1, WireEnd
<1> HIDE DEF x, w
<1>10. /\ t \in StateRecords /\ SameRoles(s, t) /\ t.native = s.native /\ t.given = s.given
       /\ t.texts = s.texts /\ t.pending = y.pending
       /\ t.output = Append(s.output, x) /\ t.index = s.index + 1
  BY <1>2, <1>3, <1>6 DEF StateRecords, SameButEvents, SameRoles
<1>11. WireTrue(p \o t.pending, t.texts, t.given, t.output, t.index,
                OpenItems(s, c) \ {k}, SecretItems(s, c), whole)
  BY <1>7, <1>9, <1>10
<1> QED
  BY <1>10, <1>11 DEF t

-------------------------------------------------------------------------------
(* Finishing items *)

\* All but the roles.
SameWire(s, t) ==
    /\ t.texts = s.texts /\ t.output = s.output /\ t.index = s.index /\ t.given = s.given
    /\ t.pending = s.pending

\* A state is kept when what it has made open and secret is.
LEMMA KeptByRoles ==
    ASSUME NEW p, NEW s, NEW t \in StateRecords, NEW open, NEW secret, NEW whole, NEW c,
           WireTrue(p \o s.pending, s.texts, s.given, s.output, s.index, open, secret, whole),
           SameWire(s, t), Distinct(t), OpenItems(t, c) = open, SecretItems(t, c) = secret
    PROVE  Kept(p, t, c, whole)
BY DEF Kept, SameWire

\* The message, or the reasoning, that is no longer open.
LEMMA MessageLost ==
    ASSUME NEW s \in StateRecords, NEW t, NEW c, Distinct(s), s.message # 0,
           t.message = 0, t.reasoning = s.reasoning, t.calls = s.calls,
           DOMAIN t.texts = DOMAIN s.texts, 0 \notin DOMAIN s.texts
    PROVE  /\ OpenItems(t, c) = OpenItems(s, c) \ {s.message}
           /\ SecretItems(t, c) = SecretItems(s, c)
           /\ Distinct(t)
<1>1. OpenItems(t, c) = OpenItems(s, c) \ {s.message}
  BY DEF OpenItems, Distinct
<1>2. SecretItems(t, c) = SecretItems(s, c)
  BY DEF SecretItems
<1>3. Distinct(t)
  BY DEF Distinct
<1> QED
  BY <1>1, <1>2, <1>3

\* As for the message.
LEMMA ReasoningLost ==
    ASSUME NEW s \in StateRecords, NEW t, NEW c, Distinct(s), s.reasoning # 0,
           t.reasoning = 0, t.message = s.message, t.calls = s.calls,
           DOMAIN t.texts = DOMAIN s.texts, 0 \notin DOMAIN s.texts
    PROVE  /\ OpenItems(t, c) = OpenItems(s, c) \ {s.reasoning}
           /\ SecretItems(t, c) = SecretItems(s, c)
           /\ Distinct(t)
<1>1. OpenItems(t, c) = OpenItems(s, c) \ {s.reasoning}
  BY DEF OpenItems, Distinct
<1>2. SecretItems(t, c) = SecretItems(s, c)
  BY DEF SecretItems
<1>3. Distinct(t)
  BY DEF Distinct
<1> QED
  BY <1>1, <1>2, <1>3

\* The reasoning is finished; the message and the calls stay.
LEMMA KeptFinishReasoning ==
    ASSUME NEW p \in Seq(Events), NEW s, NEW c, NEW whole, Kept(p, s, c, whole)
    PROVE  /\ Kept(p, FinishReasoning(s), c, whole)
           /\ FinishReasoning(s).reasoning = 0
           /\ FinishReasoning(s).message = s.message /\ FinishReasoning(s).calls = s.calls
           /\ FinishReasoning(s).given = s.given /\ FinishReasoning(s).native = s.native
<1>1. CASE s.reasoning = 0
  BY <1>1 DEF FinishReasoning
<1>2. CASE s.reasoning # 0
  <2> DEFINE k == s.reasoning
             s1 == Emit(s, "text_done", k, s.texts[k])
             s2 == ItemDone(s1, k)
             s3 == [s2 EXCEPT !.reasoning = 0]
  <2>1. FinishReasoning(s) = s3
    BY <1>2 DEF FinishReasoning
  <2>2. k \in OpenItems(s, c) /\ s \in StateRecords /\ s.texts[k] \in Seq(Nat)
    BY <1>2, ItemsOfKept DEF OpenItems
  <2>3. Kept(p, s1, c, whole) /\ SameButEvents(s, s1)
    <3>1. "text_done" \in ItemWords /\ "text_done" \notin {"added", "delta", "done"}
      BY DEF ItemWords
    <3> QED
      BY <2>2, <3>1, KeptEmit
  <2> HIDE DEF s1
  <2>4. k \in OpenItems(s1, c)
    BY <2>2, <2>3 DEF OpenItems, SameButEvents
  <2>5. /\ s2 \in StateRecords /\ SameRoles(s1, s2) /\ s2.native = s1.native
        /\ s2.given = s1.given
        /\ WireTrue(p \o s2.pending, s2.texts, s2.given, s2.output, s2.index,
                    OpenItems(s1, c) \ {k}, SecretItems(s1, c), whole)
    BY <2>3, <2>4, WireDone
  <2> HIDE DEF s2
  <2>6. /\ s3 \in StateRecords /\ SameWire(s2, s3) /\ s3.reasoning = 0
        /\ s3.message = s2.message /\ s3.calls = s2.calls /\ s3.native = s2.native
    BY <2>5 DEF StateRecords, SameWire
  <2> HIDE DEF s3
  <2>7. s1 \in StateRecords /\ Distinct(s1) /\ 0 \notin DOMAIN s1.texts
    BY <2>3, ItemsOfKept
  <2>8. s3.message = s1.message /\ s3.calls = s1.calls /\ DOMAIN s3.texts = DOMAIN s1.texts
        /\ s1.reasoning = k
    BY <2>3, <2>5, <2>6 DEF SameRoles, SameWire, SameButEvents
  <2>9. /\ OpenItems(s3, c) = OpenItems(s1, c) \ {k} /\ SecretItems(s3, c) = SecretItems(s1, c)
        /\ Distinct(s3)
    BY <1>2, <2>6, <2>7, <2>8, ReasoningLost
  <2>10. Kept(p, s3, c, whole)
    BY <2>5, <2>6, <2>9, KeptByRoles
  <2> QED
    BY <2>1, <2>3, <2>5, <2>6, <2>8, <2>10 DEF SameButEvents, SameWire
<1> QED
  BY <1>1, <1>2

\* The message is finished; the reasoning and the calls stay.
LEMMA KeptFinishMessage ==
    ASSUME NEW p \in Seq(Events), NEW s, NEW c, NEW whole, Kept(p, s, c, whole)
    PROVE  /\ Kept(p, FinishMessage(s), c, whole)
           /\ FinishMessage(s).message = 0
           /\ FinishMessage(s).reasoning = s.reasoning /\ FinishMessage(s).calls = s.calls
<1>1. CASE s.message = 0
  BY <1>1 DEF FinishMessage
<1>2. CASE s.message # 0
  <2> DEFINE k == s.message
             s0 == Emit(s, "text_done", k, s.texts[k])
             s1 == Emit(s0, "part_done", k, s.texts[k])
             s2 == ItemDone(s1, k)
             s3 == [s2 EXCEPT !.message = 0]
  <2>1. FinishMessage(s) = s3
    BY <1>2 DEF FinishMessage
  <2>2. k \in OpenItems(s, c) /\ s \in StateRecords /\ s.texts[k] \in Seq(Nat)
    BY <1>2, ItemsOfKept DEF OpenItems
  <2>3. /\ "text_done" \in ItemWords /\ "text_done" \notin {"added", "delta", "done"}
        /\ "part_done" \in ItemWords /\ "part_done" \notin {"added", "delta", "done"}
    BY DEF ItemWords
  <2>4. Kept(p, s0, c, whole) /\ SameButEvents(s, s0)
    BY <2>2, <2>3, KeptEmit
  <2> HIDE DEF s0
  <2>5. k \in OpenItems(s0, c)
    BY <2>2, <2>4 DEF OpenItems, SameButEvents
  <2>6. Kept(p, s1, c, whole) /\ SameButEvents(s0, s1)
    BY <2>2, <2>3, <2>4, <2>5, KeptEmit
  <2> HIDE DEF s1
  <2>7. k \in OpenItems(s1, c)
    BY <2>5, <2>6 DEF OpenItems, SameButEvents
  <2>8. /\ s2 \in StateRecords /\ SameRoles(s1, s2)
        /\ WireTrue(p \o s2.pending, s2.texts, s2.given, s2.output, s2.index,
                    OpenItems(s1, c) \ {k}, SecretItems(s1, c), whole)
    BY <2>6, <2>7, WireDone
  <2> HIDE DEF s2
  <2>9. /\ s3 \in StateRecords /\ SameWire(s2, s3) /\ s3.message = 0
        /\ s3.reasoning = s2.reasoning /\ s3.calls = s2.calls
    BY <2>8 DEF StateRecords, SameWire
  <2> HIDE DEF s3
  <2>10. s1 \in StateRecords /\ Distinct(s1) /\ 0 \notin DOMAIN s1.texts
    BY <2>6, ItemsOfKept
  <2>11. s3.reasoning = s1.reasoning /\ s3.calls = s1.calls /\ DOMAIN s3.texts = DOMAIN s1.texts
         /\ s1.message = k
    BY <2>4, <2>6, <2>8, <2>9 DEF SameRoles, SameWire, SameButEvents
  <2>12. /\ OpenItems(s3, c) = OpenItems(s1, c) \ {k} /\ SecretItems(s3, c) = SecretItems(s1, c)
         /\ Distinct(s3)
    BY <1>2, <2>9, <2>10, <2>11, MessageLost
  <2>13. Kept(p, s3, c, whole)
    BY <2>8, <2>9, <2>12, KeptByRoles
  <2> QED
    BY <2>1, <2>4, <2>6, <2>9, <2>11, <2>13 DEF SameButEvents
<1> QED
  BY <1>1, <1>2

\* What becomes of the items when the next call is finished.
LEMMA CallLost ==
    ASSUME NEW s \in StateRecords, NEW n \in DOMAIN s.calls, Distinct(s), n \in Nat,
           DOMAIN s.calls \subseteq Nat
    PROVE  IF s.calls[n].announced
           THEN /\ s.calls[n].item \in OpenItems(s, n - 1)
                /\ OpenItems(s, n) = OpenItems(s, n - 1) \ {s.calls[n].item}
                /\ SecretItems(s, n) = SecretItems(s, n - 1)
           ELSE /\ OpenItems(s, n) = OpenItems(s, n - 1)
                /\ SecretItems(s, n) \subseteq SecretItems(s, n - 1)
<1>1. \A j \in DOMAIN s.calls : j > n - 1 <=> j > n \/ j = n
  <2> SUFFICES ASSUME NEW j \in DOMAIN s.calls PROVE j > n - 1 <=> j > n \/ j = n
    OBVIOUS
  <2>1. j \in Nat
    OBVIOUS
  <2> QED
    BY <2>1
<1>2. /\ \A j \in DOMAIN s.calls :
            j > n => s.calls[j].item # s.calls[n].item
      /\ s.calls[n].item # s.message /\ s.calls[n].item # s.reasoning
  BY DEF Distinct
<1>3. CASE s.calls[n].announced
  <2>1. s.calls[n].item \in OpenItems(s, n - 1)
    BY <1>1, <1>3 DEF OpenItems
  <2>2. SecretItems(s, n) = SecretItems(s, n - 1)
    BY <1>1, <1>3 DEF SecretItems
  <2>3. OpenItems(s, n) = OpenItems(s, n - 1) \ {s.calls[n].item}
    BY <1>1, <1>2, <1>3 DEF OpenItems
  <2> QED
    BY <1>3, <2>1, <2>2, <2>3
<1>4. CASE ~s.calls[n].announced
  <2>1. OpenItems(s, n) = OpenItems(s, n - 1)
    BY <1>1, <1>4 DEF OpenItems
  <2>2. SecretItems(s, n) \subseteq SecretItems(s, n - 1)
    BY <1>1 DEF SecretItems
  <2> QED
    BY <1>4, <2>1, <2>2
<1> QED
  BY <1>3, <1>4

\* The next call is finished.
LEMMA KeptFinishCall ==
    ASSUME NEW p \in Seq(Events), NEW s, NEW n \in DOMAIN s.calls, n \in Nat, NEW whole,
           Kept(p, s, n - 1, whole)
    PROVE  /\ Kept(p, FinishCall(s, s.calls[n]), n, whole)
           /\ SameRoles(s, FinishCall(s, s.calls[n]))
<1> DEFINE k == s.calls[n].item
           s1 == Emit(s, "text_done", k, s.texts[k])
<1>1. s \in StateRecords /\ Distinct(s)
  BY ItemsOfKept
<1>2. DOMAIN s.calls \subseteq Nat
  BY <1>1, StateFields, LenProperties
<1>3. CASE s.calls[n].announced
  <2>1. FinishCall(s, s.calls[n]) = ItemDone(s1, k)
    BY <1>3 DEF FinishCall
  <2>2. /\ k \in OpenItems(s, n - 1)
        /\ OpenItems(s, n) = OpenItems(s, n - 1) \ {k} /\ SecretItems(s, n) = SecretItems(s, n - 1)
    BY <1>1, <1>2, <1>3, CallLost
  <2>3. s.texts[k] \in Seq(Nat)
    BY <2>2, ItemsOfKept
  <2>4. Kept(p, s1, n - 1, whole) /\ SameButEvents(s, s1)
    <3>1. "text_done" \in ItemWords /\ "text_done" \notin {"added", "delta", "done"}
      BY DEF ItemWords
    <3> QED
      BY <2>2, <2>3, <3>1, KeptEmit
  <2> HIDE DEF s1
  <2>5. SameRoles(s, s1)
    BY <2>4 DEF SameButEvents, SameRoles
  <2>6. OpenItems(s1, n - 1) = OpenItems(s, n - 1) /\ SecretItems(s1, n - 1) = SecretItems(s, n - 1)
    BY <2>5, RolesKept
  <2> DEFINE s2 == ItemDone(s1, k)
  <2>7. /\ s2 \in StateRecords /\ SameRoles(s1, s2)
        /\ WireTrue(p \o s2.pending, s2.texts, s2.given, s2.output, s2.index,
                    OpenItems(s1, n - 1) \ {k}, SecretItems(s1, n - 1), whole)
    BY <2>2, <2>4, <2>6, WireDone
  <2> HIDE DEF s2
  <2>8. SameRoles(s, s2)
    BY <2>5, <2>7 DEF SameRoles
  <2>9. OpenItems(s2, n) = OpenItems(s, n) /\ SecretItems(s2, n) = SecretItems(s, n) /\ Distinct(s2)
    BY <1>1, <2>8, RolesKept
  <2>10. Kept(p, s2, n, whole)
    BY <2>2, <2>6, <2>7, <2>9 DEF Kept
  <2> QED
    BY <2>1, <2>8, <2>10 DEF s2
<1>4. CASE ~s.calls[n].announced
  <2>1. FinishCall(s, s.calls[n]) = s
    BY <1>4 DEF FinishCall
  <2>2. OpenItems(s, n) = OpenItems(s, n - 1) /\ SecretItems(s, n) \subseteq SecretItems(s, n - 1)
    BY <1>1, <1>2, <1>4, CallLost
  <2>3. WireTrue(p \o s.pending, s.texts, s.given, s.output, s.index,
                 OpenItems(s, n - 1), SecretItems(s, n - 1), whole)
    BY DEF Kept
  <2>4. WireTrue(p \o s.pending, s.texts, s.given, s.output, s.index,
                 OpenItems(s, n), SecretItems(s, n), whole)
    BY <2>2, <2>3, WireFewer
  <2>5. Kept(p, s, n, whole)
    BY <1>1, <2>4 DEF Kept
  <2> QED
    BY <2>1, <2>5 DEF SameRoles
<1> QED
  BY <1>3, <1>4

-------------------------------------------------------------------------------
(* Recursive functions *)

\* One application: F[n] takes what was reached after n - 1 to what is reached after n.
Iterated(F, b, g, n) == IF n = 0 THEN b ELSE F[n][g[n - 1]]
Iteration(F, b, S, N, g) ==
    /\ g = [n \in 0 .. N |-> Iterated(F, b, g, n)]
    /\ \A n \in 0 .. N : g[n] \in S[n]

\* A function that applies one step after another exists, when each takes the set S[n - 1]
\* into S[n].
LEMMA Iterates ==
    ASSUME NEW N \in Nat, NEW S, NEW F, NEW b \in S[0],
           \A n \in 1 .. N : \A x \in S[n - 1] : F[n][x] \in S[n]
    PROVE  \E g : Iteration(F, b, S, N, g)
<1> DEFINE Reach(g, n) == /\ g = [m \in 0 .. n |-> Iterated(F, b, g, m)]
                          /\ \A m \in 0 .. n : g[m] \in S[m]
           T == {n \in 0 .. N : \E g : Reach(g, n)}
<1>1. 0 \in T
  <2> DEFINE g == [m \in 0 .. 0 |-> b]
  <2>1. \A m \in 0 .. 0 : g[m] = Iterated(F, b, g, m) /\ g[m] \in S[m]
    BY DEF Iterated
  <2>2. g = [m \in 0 .. 0 |-> Iterated(F, b, g, m)]
    <3>1. g = [m \in 0 .. 0 |-> g[m]]
      OBVIOUS
    <3> HIDE DEF g
    <3> QED
      BY <2>1, <3>1
  <2> HIDE DEF g
  <2>3. Reach(g, 0)
    BY <2>1, <2>2
  <2> QED
    BY <2>3
<1>2. ASSUME NEW n \in 1 .. N, n - 1 \in T PROVE n \in T
  <2>1. PICK f : Reach(f, n - 1)
    BY <1>2
  <2>2. n \in Nat /\ n # 0 /\ n - 1 \in 0 .. (n - 1)
    OBVIOUS
  <2>3. \A m \in 0 .. (n - 1) : f[m] = Iterated(F, b, f, m) /\ f[m] \in S[m]
    <3>1. f = [m \in 0 .. (n - 1) |-> Iterated(F, b, f, m)]
      BY <2>1
    <3>2. \A m \in 0 .. (n - 1) : f[m] = Iterated(F, b, f, m)
      BY <3>1
    <3> QED
      BY <2>1, <3>2
  <2>4. F[n][f[n - 1]] \in S[n]
    BY <2>2, <2>3
  <2> DEFINE g == [m \in 0 .. n |-> IF m = n THEN F[n][f[n - 1]] ELSE f[m]]
  <2>5. ASSUME NEW m \in 0 .. n PROVE g[m] = Iterated(F, b, g, m) /\ g[m] \in S[m]
    <3>1. CASE m = n
      <4>1. g[n] = F[n][f[n - 1]] /\ g[n - 1] = f[n - 1]
        BY <2>2
      <4> HIDE DEF g
      <4> QED
        BY <3>1, <4>1, <2>2, <2>4 DEF Iterated
    <3>2. CASE m # n
      <4>1. m \in 0 .. (n - 1) /\ g[m] = f[m]
        BY <3>2
      <4>2. CASE m = 0
        <5> HIDE DEF g
        <5> QED
          BY <4>1, <4>2, <2>3 DEF Iterated
      <4>3. CASE m # 0
        <5>1. m - 1 \in 0 .. n /\ m - 1 # n
          BY <4>1, <4>3
        <5>2. g[m - 1] = f[m - 1]
          BY <5>1
        <5> HIDE DEF g
        <5> QED
          BY <4>1, <4>3, <5>2, <2>3 DEF Iterated
      <4> QED
        BY <4>2, <4>3
    <3> QED
      BY <3>1, <3>2
  <2>6. g = [m \in 0 .. n |-> Iterated(F, b, g, m)]
    <3>1. g = [m \in 0 .. n |-> g[m]]
      OBVIOUS
    <3> HIDE DEF g
    <3> QED
      BY <2>5, <3>1
  <2> HIDE DEF g
  <2>7. Reach(g, n)
    BY <2>5, <2>6
  <2> HIDE DEF Reach
  <2>8. n \in 0 .. N /\ \E h : Reach(h, n)
    BY <2>7
  <2> QED
    BY <2>8
<1> HIDE DEF T
<1>3. N \in T
  BY <1>1, <1>2, Climb
<1> QED
  BY <1>3 DEF T, Iteration

\* What is reached after n of N steps lies in S[n], for any function that applies them.
LEMMA IteratesStay ==
    ASSUME NEW N \in Nat, NEW S, NEW g, g[0] \in S[0],
           \A n \in 1 .. N : g[n - 1] \in S[n - 1] => g[n] \in S[n]
    PROVE  g[N] \in S[N]
<1> DEFINE T == {n \in 0 .. N : g[n] \in S[n]}
<1>1. 0 \in T
  OBVIOUS
<1>2. ASSUME NEW n \in 1 .. N, n - 1 \in T PROVE n \in T
  BY <1>2
<1> HIDE DEF T
<1>3. N \in T
  BY <1>1, <1>2, Climb
<1> QED
  BY <1>3 DEF T

\* All calls are finished, and there are none.
LEMMA KeptFinishCalls ==
    ASSUME NEW p \in Seq(Events), NEW s, NEW whole, Kept(p, s, 0, whole)
    PROVE  /\ Kept(p, FinishCalls(s), 0, whole)
           /\ FinishCalls(s).calls = <<>>
           /\ FinishCalls(s).message = s.message /\ FinishCalls(s).reasoning = s.reasoning
<1> DEFINE N == Len(s.calls)
           Rec(f) == f = [n \in 0 .. N |-> IF n = 0 THEN s ELSE FinishCall(f[n - 1], s.calls[n])]
           after == CHOOSE f : Rec(f)
           S == [n \in 0 .. N |-> {x \in StateRecords : Kept(p, x, n, whole) /\ SameRoles(s, x)}]
           F == [n \in 1 .. N |-> [x \in StateRecords |-> FinishCall(x, s.calls[n])]]
<1>1. FinishCalls(s) = [after[N] EXCEPT !.calls = <<>>]
  BY DEF FinishCalls
<1>2. N \in Nat /\ DOMAIN s.calls = 1 .. N /\ s \in StateRecords
  BY ItemsOfKept, StateFields, LenProperties
<1>3. ASSUME NEW n \in 1 .. N, NEW x \in S[n - 1] PROVE FinishCall(x, s.calls[n]) \in S[n]
  <2>1. n - 1 \in 0 .. N /\ n \in 0 .. N /\ n \in Nat
    BY <1>2
  <2>2. x \in StateRecords /\ Kept(p, x, n - 1, whole) /\ SameRoles(s, x)
    BY <1>3, <2>1
  <2>3. x.calls = s.calls /\ n \in DOMAIN x.calls
    BY <1>2, <2>2 DEF SameRoles
  <2>4. Kept(p, FinishCall(x, x.calls[n]), n, whole) /\ SameRoles(x, FinishCall(x, x.calls[n]))
    BY <2>1, <2>2, <2>3, KeptFinishCall
  <2>5. FinishCall(x, s.calls[n]) \in StateRecords /\ SameRoles(s, FinishCall(x, s.calls[n]))
    BY <2>2, <2>3, <2>4, ItemsOfKept DEF SameRoles
  <2> QED
    BY <2>1, <2>3, <2>4, <2>5
<1>4. s \in S[0]
  BY <1>2 DEF SameRoles
<1>5. \A n \in 0 .. N : S[n] \subseteq StateRecords
  OBVIOUS
<1>6. \A n \in 1 .. N : \A x \in S[n - 1] : F[n][x] \in S[n]
  <2> SUFFICES ASSUME NEW n \in 1 .. N, NEW x \in S[n - 1] PROVE F[n][x] \in S[n]
    OBVIOUS
  <2>1. n - 1 \in 0 .. N
    BY <1>2
  <2>2. F[n][x] = FinishCall(x, s.calls[n])
    <3>1. x \in StateRecords
      BY <2>1, <1>5
    <3> HIDE DEF S
    <3> QED
      BY <3>1
  <2> HIDE DEF F, S
  <2> QED
    BY <1>3, <2>2
<1>7. \E g : Rec(g)
  <2> HIDE DEF S
  <2> DEFINE G == F
  <2> HIDE DEF G
  <2>1. \A n \in 1 .. N : \A x \in S[n - 1] : G[n][x] \in S[n]
    BY <1>6 DEF G
  <2>2. PICK g : Iteration(G, s, S, N, g)
    <3> HIDE DEF N
    <3> QED
      BY <1>2, <1>4, <2>1, Iterates
  <2>3. ASSUME NEW n \in 0 .. N
        PROVE  Iterated(G, s, g, n) = IF n = 0 THEN s ELSE FinishCall(g[n - 1], s.calls[n])
    <3>1. CASE n = 0
      BY <3>1 DEF Iterated
    <3>2. CASE n # 0
      <4>1. n \in 1 .. N /\ n - 1 \in 0 .. N
        BY <1>2, <3>2
      <4>2. g[n - 1] \in StateRecords
        BY <4>1, <2>2, <1>5 DEF Iteration
      <4>3. G[n][g[n - 1]] = FinishCall(g[n - 1], s.calls[n])
        BY <4>1, <4>2 DEF G
      <4> QED
        BY <3>2, <4>3 DEF Iterated
    <3> QED
      BY <3>1, <3>2
  <2>4. g = [n \in 0 .. N |-> IF n = 0 THEN s ELSE FinishCall(g[n - 1], s.calls[n])]
    BY <2>2, <2>3 DEF Iteration
  <2> QED
    BY <2>4
<1>8. Rec(after)
  <2> HIDE DEF Rec
  <2> QED
    BY <1>7
<1>9. \A n \in 0 .. N : after[n] = IF n = 0 THEN s ELSE FinishCall(after[n - 1], s.calls[n])
  <2> HIDE DEF after
  <2> QED
    BY <1>8
<1> HIDE DEF after, Rec, F
<1>10. after[N] \in S[N]
  <2>1. after[0] \in S[0]
    <3>1. after[0] = s
      BY <1>2, <1>9
    <3> QED
      BY <1>4, <3>1
  <2>2. \A n \in 1 .. N : after[n - 1] \in S[n - 1] => after[n] \in S[n]
    <3> HIDE DEF S
    <3> SUFFICES ASSUME NEW n \in 1 .. N, after[n - 1] \in S[n - 1] PROVE after[n] \in S[n]
      OBVIOUS
    <3>1. after[n] = FinishCall(after[n - 1], s.calls[n])
      BY <1>2, <1>9
    <3> QED
      BY <1>3, <3>1
  <2> HIDE DEF S
  <2> QED
    BY <1>2, <2>1, <2>2, IteratesStay
<1> DEFINE t == after[N]
           u == [t EXCEPT !.calls = <<>>]
<1>11. t \in StateRecords /\ Kept(p, t, N, whole) /\ SameRoles(s, t)
  BY <1>2, <1>10
<1> HIDE DEF t, S
<1>12. <<>> \in Seq(CallRecords) /\ DOMAIN <<>> = {}
  BY EmptySeq
<1>13. /\ u \in StateRecords /\ SameWire(t, u) /\ u.calls = <<>>
       /\ u.message = t.message /\ u.reasoning = t.reasoning
  BY <1>11, <1>12 DEF StateRecords, SameWire
<1> HIDE DEF u
<1>14. \A j \in DOMAIN t.calls : ~(j > N)
  BY <1>2, <1>11 DEF SameRoles
<1>15. OpenItems(u, 0) = OpenItems(t, N)
  BY <1>12, <1>13, <1>14 DEF OpenItems
<1>16. SecretItems(u, 0) = SecretItems(t, N)
  BY <1>12, <1>13, <1>14 DEF SecretItems
<1>17. Distinct(u)
  BY <1>11, <1>12, <1>13 DEF Kept, Distinct
<1>18. Kept(p, u, 0, whole)
  BY <1>11, <1>13, <1>15, <1>16, <1>17, KeptByRoles DEF Kept
<1> QED
  BY <1>1, <1>11, <1>13, <1>18 DEF t, u, SameRoles

-------------------------------------------------------------------------------
(* Opening items *)

\* A new item that is announced at once; who has it is said where it is opened.
LEMMA NewIsOpen ==
    ASSUME NEW p \in Seq(Events), NEW s, NEW c, NEW whole, Kept(p, s, c, whole),
           NEW x \in StateRecords,
           x.texts = Append(s.texts, <<>>), x.given = s.given, x.output = s.output,
           x.index = s.index, x.pending = s.pending
    PROVE  LET k == NewItem(s)
               t == Emit(x, "added", k, <<>>)
           IN  /\ k \in Nat /\ k # 0 /\ k \notin DOMAIN s.texts
               /\ DOMAIN x.texts = DOMAIN s.texts \union {k}
               /\ t \in StateRecords /\ SameButEvents(x, t)
               /\ WireTrue(p \o t.pending, x.texts, x.given, x.output, x.index,
                           OpenItems(s, c) \union {k}, SecretItems(s, c), whole)
<1> DEFINE k == NewItem(s)
           t == Emit(x, "added", k, <<>>)
<1>1. /\ s \in StateRecords /\ p \o s.pending \in Seq(Events)
      /\ Len(s.texts) \in Nat /\ DOMAIN s.texts = 1 .. Len(s.texts)
  BY ItemsOfKept
<1>2. k \in Nat /\ k # 0 /\ k \notin DOMAIN s.texts /\ k = Len(s.texts) + 1
  BY <1>1 DEF NewItem
<1>3. DOMAIN x.texts = DOMAIN s.texts \union {k}
  <2>1. <<>> \in Seq(Nat) /\ s.texts \in Seq(Seq(Nat))
    BY <1>1, StateFields, EmptySeq
  <2>2. Append(s.texts, <<>>) \in Seq(Seq(Nat)) /\ Len(Append(s.texts, <<>>)) = Len(s.texts) + 1
    BY <2>1, AppendProperties
  <2>3. DOMAIN x.texts = 1 .. (Len(s.texts) + 1)
    BY <2>2, LenProperties
  <2> QED
    BY <1>1, <1>2, <2>3
<1> HIDE DEF k
<1>4. WireTrue(p \o s.pending, s.texts, s.given, s.output, s.index, OpenItems(s, c),
               SecretItems(s, c), whole)
  BY DEF Kept
<1>5. WireTrue(p \o s.pending, x.texts, s.given, s.output, s.index, OpenItems(s, c),
               SecretItems(s, c) \union {k}, whole)
  <2>1. s.texts \in Seq(Seq(Nat))
    BY <1>1, StateFields
  <2>2. WireTrue(p \o s.pending, Append(s.texts, <<>>), s.given, s.output, s.index,
                 OpenItems(s, c), SecretItems(s, c) \union {Len(s.texts) + 1}, whole)
    BY <1>1, <1>4, <2>1, WireNew, Zenon
  <2> QED
    BY <1>2, <2>2
<1>6. WireTrue(p \o x.pending, x.texts, x.given, x.output, x.index, OpenItems(s, c),
               SecretItems(s, c) \union {k}, whole)
  BY <1>5
<1> DEFINE secret == SecretItems(s, c) \union {k}
<1>7. k \in secret
  OBVIOUS
<1> HIDE DEF secret
<1>8. /\ t \in StateRecords /\ SameButEvents(x, t)
      /\ WireTrue(p \o t.pending, x.texts, x.given, x.output, x.index,
                  OpenItems(s, c) \union {k}, secret \ {k}, whole)
  BY <1>2, <1>6, <1>7, WireAdded DEF secret
<1>9. secret \ {k} = SecretItems(s, c)
  <2>1. SecretItems(s, c) \subseteq DOMAIN s.texts
    BY DEF Kept, WireTrue, PhasesTrue
  <2> QED
    BY <1>2, <2>1 DEF secret
<1> QED
  BY <1>2, <1>3, <1>8, <1>9 DEF k

\* The message opens.
LEMMA KeptOpenMessage ==
    ASSUME NEW p \in Seq(Events), NEW s, NEW c, NEW whole, Kept(p, s, c, whole), s.message = 0
    PROVE  /\ Kept(p, OpenMessage(s), c, whole)
           /\ OpenMessage(s).message \in OpenItems(OpenMessage(s), c)
<1> DEFINE k == NewItem(s)
           x == [s EXCEPT !.texts = Append(s.texts, <<>>), !.message = k]
           t == Emit(x, "added", k, <<>>)
           u == Emit(t, "part_added", k, <<>>)
<1>1. s \in StateRecords /\ Distinct(s) /\ 0 \notin DOMAIN s.texts /\ Len(s.texts) \in Nat
  BY ItemsOfKept
<1>2. k \in Nat /\ Append(s.texts, <<>>) \in Seq(Seq(Nat))
  <2>1. <<>> \in Seq(Nat) /\ s.texts \in Seq(Seq(Nat))
    BY <1>1, StateFields, EmptySeq
  <2> QED
    BY <1>1, <2>1, AppendProperties DEF NewItem
<1> HIDE DEF k
<1>3. /\ x \in StateRecords
      /\ x.texts = Append(s.texts, <<>>) /\ x.given = s.given /\ x.output = s.output
      /\ x.index = s.index /\ x.pending = s.pending
      /\ x.message = k /\ x.reasoning = s.reasoning /\ x.calls = s.calls
  BY <1>1, <1>2 DEF StateRecords
<1>4. OpenMessage(s) = u
  BY <1>3 DEF OpenMessage, k
<1> HIDE DEF x
<1>5. /\ k # 0 /\ k \notin DOMAIN s.texts
      /\ DOMAIN x.texts = DOMAIN s.texts \union {k}
      /\ t \in StateRecords /\ SameButEvents(x, t)
      /\ WireTrue(p \o t.pending, x.texts, x.given, x.output, x.index,
                  OpenItems(s, c) \union {k}, SecretItems(s, c), whole)
  BY ZenonT(30), <1>3, NewIsOpen DEF k
<1> HIDE DEF t
<1>6. /\ t.message = k /\ t.reasoning = s.reasoning /\ t.calls = s.calls
      /\ DOMAIN t.texts = DOMAIN s.texts \union {k}
  BY <1>3, <1>5 DEF SameButEvents
<1>7. s.reasoning # k
  <2>1. s.reasoning # 0 => s.reasoning \in OpenItems(s, c)
    BY DEF OpenItems
  <2> QED
    BY <1>5, <2>1, ItemsOfKept
<1>8. OpenItems(t, c) = OpenItems(s, c) \union {k}
  BY <1>5, <1>6 DEF OpenItems
<1>9. SecretItems(t, c) = SecretItems(s, c)
  BY <1>6 DEF SecretItems
<1>10. Distinct(t)
  BY <1>1, <1>5, <1>6, <1>7 DEF Distinct
<1>11. Kept(p, t, c, whole)
  BY <1>5, <1>8, <1>9, <1>10 DEF Kept, SameButEvents
<1>12. Kept(p, u, c, whole) /\ SameButEvents(t, u)
  <2>1. "part_added" \in ItemWords /\ "part_added" \notin {"added", "delta", "done"}
    BY DEF ItemWords
  <2>2. <<>> \in Seq(Nat) /\ k \in OpenItems(t, c) \union {0}
    BY <1>8, EmptySeq
  <2> QED
    BY <1>11, <2>1, <2>2, KeptEmit
<1> HIDE DEF u
<1>13. u.message \in OpenItems(u, c)
  BY <1>5, <1>6, <1>12 DEF SameButEvents, OpenItems
<1> QED
  BY <1>4, <1>12, <1>13

\* An open item is not lost with a delta.
LEMMA DeltaStaysOpen ==
    ASSUME NEW p \in Seq(Events), NEW s, NEW c, NEW whole, Kept(p, s, c, whole),
           NEW k \in OpenItems(s, c)
    PROVE  /\ Kept(p, Delta(s, k), c, whole) /\ k \in OpenItems(Delta(s, k), c)
           /\ Delta(s, k).reasoning = s.reasoning
BY KeptDelta, RolesKept DEF SameRoles

\* Text is added.
LEMMA KeptAddText ==
    ASSUME NEW p \in Seq(Events), NEW s, NEW c, NEW whole, Kept(p, s, c, whole)
    PROVE  Kept(p, AddText(s), c, whole)
<1> DEFINE opened == IF s.message = 0 THEN OpenMessage(FinishReasoning(s)) ELSE s
<1>1. Kept(p, opened, c, whole) /\ opened.message \in OpenItems(opened, c)
  <2>1. CASE s.message = 0
    <3>1. Kept(p, FinishReasoning(s), c, whole) /\ FinishReasoning(s).message = 0
      BY <2>1, KeptFinishReasoning
    <3> QED
      BY <2>1, <3>1, KeptOpenMessage
  <2>2. CASE s.message # 0
    BY <2>2 DEF OpenItems
  <2> QED
    BY <2>1, <2>2
<1>2. AddText(s) = Delta(opened, opened.message)
  BY DEF AddText
<1> HIDE DEF opened
<1> QED
  BY <1>1, <1>2, DeltaStaysOpen

\* Reasoning is added.
LEMMA KeptAddReasoning ==
    ASSUME NEW p \in Seq(Events), NEW s, NEW c, NEW whole, Kept(p, s, c, whole)
    PROVE  /\ Kept(p, AddReasoning(s), c, whole)
           /\ AddReasoning(s).reasoning \in OpenItems(AddReasoning(s), c)
<1> DEFINE k == NewItem(s)
           x == [s EXCEPT !.texts = Append(s.texts, <<>>), !.reasoning = k]
           t == Emit(x, "added", k, <<>>)
           opened == IF s.reasoning = 0 THEN t ELSE s
<1>1. s \in StateRecords /\ Distinct(s) /\ 0 \notin DOMAIN s.texts /\ Len(s.texts) \in Nat
  BY ItemsOfKept
<1>2. k \in Nat /\ Append(s.texts, <<>>) \in Seq(Seq(Nat))
  <2>1. <<>> \in Seq(Nat) /\ s.texts \in Seq(Seq(Nat))
    BY <1>1, StateFields, EmptySeq
  <2> QED
    BY <1>1, <2>1, AppendProperties DEF NewItem
<1> HIDE DEF k
<1>3. /\ x \in StateRecords
      /\ x.texts = Append(s.texts, <<>>) /\ x.given = s.given /\ x.output = s.output
      /\ x.index = s.index /\ x.pending = s.pending
      /\ x.message = s.message /\ x.reasoning = k /\ x.calls = s.calls
  BY <1>1, <1>2 DEF StateRecords
<1>4. AddReasoning(s) = Delta(opened, opened.reasoning)
  BY <1>3 DEF AddReasoning, k
<1> HIDE DEF x
<1>5. /\ k # 0 /\ k \notin DOMAIN s.texts
      /\ DOMAIN x.texts = DOMAIN s.texts \union {k}
      /\ t \in StateRecords /\ SameButEvents(x, t)
      /\ WireTrue(p \o t.pending, x.texts, x.given, x.output, x.index,
                  OpenItems(s, c) \union {k}, SecretItems(s, c), whole)
  BY <1>3, NewIsOpen DEF k
<1> HIDE DEF t
<1>6. /\ t.message = s.message /\ t.reasoning = k /\ t.calls = s.calls
      /\ DOMAIN t.texts = DOMAIN s.texts \union {k}
  BY <1>3, <1>5 DEF SameButEvents
<1>7. s.message # k
  <2>1. s.message # 0 => s.message \in OpenItems(s, c)
    BY DEF OpenItems
  <2> QED
    BY <1>5, <2>1, ItemsOfKept
<1>8. s.reasoning = 0 => OpenItems(t, c) = OpenItems(s, c) \union {k}
  BY <1>5, <1>6 DEF OpenItems
<1>9. SecretItems(t, c) = SecretItems(s, c)
  BY <1>6 DEF SecretItems
<1>10. Distinct(t)
  BY <1>1, <1>5, <1>6, <1>7 DEF Distinct
<1>11. Kept(p, opened, c, whole) /\ opened.reasoning \in OpenItems(opened, c)
  <2>1. CASE s.reasoning = 0
    <3>1. Kept(p, t, c, whole)
      BY <1>5, <1>8, <1>9, <1>10, <2>1 DEF Kept, SameButEvents
    <3> QED
      BY <1>6, <1>8, <2>1, <3>1
  <2>2. CASE s.reasoning # 0
    BY <2>2 DEF OpenItems
  <2> QED
    BY <2>1, <2>2
<1> HIDE DEF opened
<1> QED
  BY <1>4, <1>11, DeltaStaysOpen

-------------------------------------------------------------------------------
(* Calls *)

\* The three steps of a delta of a call.
Listed(s, index) ==
    [s EXCEPT !.texts = Append(@, <<>>),
              !.calls = Append(@, [index |-> index, item |-> NewItem(s), named |-> FALSE,
                                   announced |-> FALSE])]
Named(s, at, b) == [s EXCEPT !.calls[at].named = b]
Announced(s, at) ==
    Emit([s EXCEPT !.calls[at].announced = TRUE], "added", s.calls[at].item, <<>>)

\* One call is rewritten.
LEMMA CallWritten ==
    ASSUME NEW s \in StateRecords, NEW at \in DOMAIN s.calls, NEW r \in CallRecords
    PROVE  /\ [s EXCEPT !.calls = [s.calls EXCEPT ![at] = r]] \in StateRecords
           /\ s.calls[at] \in CallRecords
           /\ DOMAIN [s.calls EXCEPT ![at] = r] = DOMAIN s.calls
           /\ \A i \in DOMAIN s.calls :
                 [s.calls EXCEPT ![at] = r][i] = IF i = at THEN r ELSE s.calls[i]
<1>1. s.calls \in Seq(CallRecords)
  BY StateFields
<1>2. DOMAIN s.calls = 1 .. Len(s.calls) /\ at \in 1 .. Len(s.calls)
  BY <1>1, LenProperties
<1>3. [s.calls EXCEPT ![at] = r] \in Seq(CallRecords)
  BY <1>1, <1>2, ExceptSeq
<1>4. s.calls[at] \in CallRecords
  BY <1>1, <1>2, ElementOfSeq
<1>5. [s EXCEPT !.calls = [s.calls EXCEPT ![at] = r]] \in StateRecords
  BY <1>3 DEF StateRecords
<1> QED
  BY <1>4, <1>5

\* A call gets its name.
LEMMA KeptNamed ==
    ASSUME NEW p \in Seq(Events), NEW s, NEW whole, Kept(p, s, 0, whole),
           NEW at \in DOMAIN s.calls, NEW b \in BOOLEAN
    PROVE  /\ Kept(p, Named(s, at, b), 0, whole)
           /\ DOMAIN Named(s, at, b).calls = DOMAIN s.calls
           /\ Named(s, at, b).calls[at].item = s.calls[at].item
           /\ Named(s, at, b).calls[at].announced = s.calls[at].announced
<1> DEFINE r == [s.calls[at] EXCEPT !.named = b]
           t == [s EXCEPT !.calls = [s.calls EXCEPT ![at] = r]]
<1>1. s \in StateRecords /\ Distinct(s)
  BY ItemsOfKept
<1>2. s.calls[at] \in CallRecords
  BY <1>1, StateFields, LenProperties, ElementOfSeq
<1>3. /\ r \in CallRecords /\ r.index = s.calls[at].index /\ r.item = s.calls[at].item
      /\ r.announced = s.calls[at].announced
  BY <1>2 DEF CallRecords
<1> HIDE DEF r
<1>4. /\ t \in StateRecords /\ t.calls = [s.calls EXCEPT ![at] = r]
      /\ SameWire(s, t) /\ t.message = s.message /\ t.reasoning = s.reasoning
  BY <1>1, <1>3, CallWritten DEF StateRecords, SameWire
<1>5. /\ DOMAIN t.calls = DOMAIN s.calls
      /\ \A i \in DOMAIN s.calls :
            /\ t.calls[i].index = s.calls[i].index /\ t.calls[i].item = s.calls[i].item
            /\ t.calls[i].announced = s.calls[i].announced
  BY <1>1, <1>3, <1>4, CallWritten
<1>6. Named(s, at, b) = t
  BY DEF r, Named
<1> HIDE DEF t
<1>7. OpenItems(t, 0) = OpenItems(s, 0) /\ SecretItems(t, 0) = SecretItems(s, 0)
  BY <1>4, <1>5 DEF OpenItems, SecretItems
<1>8. Distinct(t)
  BY <1>1, <1>4, <1>5 DEF Distinct, SameWire
<1>9. Kept(p, t, 0, whole)
  BY <1>4, <1>7, <1>8 DEF Kept, SameWire
<1> QED
  BY <1>5, <1>6, <1>9

\* A call is announced.
LEMMA KeptAnnounced ==
    ASSUME NEW p \in Seq(Events), NEW s, NEW whole, Kept(p, s, 0, whole),
           NEW at \in DOMAIN s.calls, ~s.calls[at].announced
    PROVE  /\ Kept(p, Announced(s, at), 0, whole)
           /\ s.calls[at].item \in OpenItems(Announced(s, at), 0)
<1> DEFINE r == [s.calls[at] EXCEPT !.announced = TRUE]
           x == [s EXCEPT !.calls = [s.calls EXCEPT ![at] = r]]
           k == s.calls[at].item
           t == Emit(x, "added", k, <<>>)
<1>1. s \in StateRecords /\ Distinct(s) /\ DOMAIN s.calls = 1 .. Len(s.calls)
      /\ 0 \notin DOMAIN s.texts
  BY ItemsOfKept, StateFields, LenProperties
<1>2. s.calls[at] \in CallRecords
  BY <1>1, StateFields, ElementOfSeq
<1>3. /\ r \in CallRecords /\ r.index = s.calls[at].index /\ r.item = k /\ r.announced
      /\ k \in Nat
  BY <1>2 DEF CallRecords
<1> HIDE DEF r
<1>4. /\ x \in StateRecords /\ x.calls = [s.calls EXCEPT ![at] = r]
      /\ SameWire(s, x) /\ x.message = s.message /\ x.reasoning = s.reasoning
  BY <1>1, <1>3, CallWritten DEF StateRecords, SameWire
<1>5. /\ DOMAIN x.calls = DOMAIN s.calls
      /\ \A i \in DOMAIN s.calls :
            /\ x.calls[i].index = s.calls[i].index /\ x.calls[i].item = s.calls[i].item
            /\ (x.calls[i].announced <=> (i = at \/ s.calls[i].announced))
  <2> SUFFICES ASSUME NEW i \in DOMAIN s.calls
               PROVE  /\ DOMAIN x.calls = DOMAIN s.calls
                      /\ x.calls[i].index = s.calls[i].index /\ x.calls[i].item = s.calls[i].item
                      /\ (x.calls[i].announced <=> (i = at \/ s.calls[i].announced))
    BY <1>1, <1>3, <1>4, CallWritten
  <2>1. x.calls[i] = IF i = at THEN r ELSE s.calls[i]
    BY <1>1, <1>3, <1>4, CallWritten
  <2>2. DOMAIN x.calls = DOMAIN s.calls
    BY <1>1, <1>3, <1>4, CallWritten
  <2>3. CASE i = at
    BY <1>3, <2>1, <2>2, <2>3
  <2>4. CASE i # at
    BY <2>1, <2>2, <2>4
  <2> QED
    BY <2>3, <2>4
<1>6. Announced(s, at) = t
  BY DEF r, Announced
<1> HIDE DEF x
<1>7. k \in SecretItems(s, 0)
  BY <1>1 DEF SecretItems
<1>8. WireTrue(p \o x.pending, x.texts, x.given, x.output, x.index, OpenItems(s, 0),
               SecretItems(s, 0), whole)
  BY <1>4 DEF Kept, SameWire
<1> DEFINE open == OpenItems(s, 0)
           secret == SecretItems(s, 0)
<1> HIDE DEF open, secret, k
<1>9. k \in secret /\ WireTrue(p \o x.pending, x.texts, x.given, x.output, x.index, open, secret, whole)
  BY <1>7, <1>8 DEF open, secret
<1>10. /\ t \in StateRecords /\ SameButEvents(x, t)
       /\ WireTrue(p \o t.pending, x.texts, x.given, x.output, x.index,
                   open \union {k}, secret \ {k}, whole)
  BY <1>3, <1>4, <1>9, WireAdded
<1> HIDE DEF t
<1>11. /\ t.message = s.message /\ t.reasoning = s.reasoning /\ t.calls = x.calls
       /\ t.texts = s.texts
  BY <1>4, <1>10 DEF SameButEvents, SameWire
<1>12. \A i \in DOMAIN s.calls : i > 0 /\ (s.calls[i].item = k => i = at)
  BY <1>1 DEF Distinct, k
<1>13. OpenItems(t, 0) = open \union {k}
  BY <1>5, <1>11, <1>12 DEF OpenItems, open, k
<1>14. SecretItems(t, 0) = secret \ {k}
  BY <1>5, <1>11, <1>12 DEF SecretItems, secret, k
<1>15. Distinct(t)
  BY SMTT(20), <1>1, <1>5, <1>11 DEF Distinct
<1>16. Kept(p, t, 0, whole)
  BY <1>10, <1>13, <1>14, <1>15 DEF Kept, SameButEvents
<1>17. k \in OpenItems(t, 0)
  BY <1>13
<1> QED
  BY <1>6, <1>16, <1>17 DEF k

\* A call nobody heard of is listed.
LEMMA KeptListed ==
    ASSUME NEW p \in Seq(Events), NEW s, NEW whole, Kept(p, s, 0, whole), NEW index \in Nat,
           \A i \in DOMAIN s.calls : s.calls[i].index # index
    PROVE  /\ Kept(p, Listed(s, index), 0, whole)
           /\ \E i \in DOMAIN Listed(s, index).calls : Listed(s, index).calls[i].index = index
<1> DEFINE k == NewItem(s)
           new == [index |-> index, item |-> k, named |-> FALSE, announced |-> FALSE]
           more == Append(s.calls, new)
           t == [s EXCEPT !.texts = Append(s.texts, <<>>), !.calls = more]
           N == Len(s.calls)
<1>1. /\ s \in StateRecords /\ Distinct(s) /\ p \o s.pending \in Seq(Events)
      /\ Len(s.texts) \in Nat /\ DOMAIN s.texts = 1 .. Len(s.texts)
      /\ OpenItems(s, 0) \subseteq DOMAIN s.texts
  BY ItemsOfKept
<1>2. N \in Nat /\ DOMAIN s.calls = 1 .. N /\ s.calls \in Seq(CallRecords)
      /\ s.texts \in Seq(Seq(Nat))
  BY <1>1, StateFields, LenProperties
<1>3. k = Len(s.texts) + 1 /\ k \in Nat /\ k \notin DOMAIN s.texts /\ k # 0
  BY <1>1 DEF NewItem
<1> HIDE DEF k
<1>4. /\ new \in CallRecords /\ new.index = index /\ new.item = k /\ new.announced = FALSE
  BY <1>3 DEF CallRecords
<1> HIDE DEF new
<1>5. /\ more \in Seq(CallRecords) /\ DOMAIN more = 1 .. (N + 1)
      /\ (\A i \in 1 .. N : more[i] = s.calls[i]) /\ more[N + 1] = new
  <2>1. /\ more \in Seq(CallRecords) /\ Len(more) = N + 1
        /\ (\A i \in 1 .. N : more[i] = s.calls[i]) /\ more[N + 1] = new
    BY <1>2, <1>4, AppendProperties
  <2> QED
    BY <2>1, LenProperties
<1> HIDE DEF N, more
<1>6. /\ Append(s.texts, <<>>) \in Seq(Seq(Nat))
      /\ DOMAIN Append(s.texts, <<>>) = DOMAIN s.texts \union {k}
  <2>1. <<>> \in Seq(Nat)
    BY EmptySeq
  <2>2. Append(s.texts, <<>>) \in Seq(Seq(Nat)) /\ Len(Append(s.texts, <<>>)) = Len(s.texts) + 1
    BY <1>2, <2>1, AppendProperties
  <2>3. DOMAIN Append(s.texts, <<>>) = 1 .. (Len(s.texts) + 1)
    BY <2>2, LenProperties
  <2> QED
    BY <1>1, <1>3, <2>2, <2>3
<1>7. /\ t \in StateRecords /\ t.texts = Append(s.texts, <<>>) /\ t.calls = more
      /\ t.message = s.message /\ t.reasoning = s.reasoning /\ t.given = s.given
      /\ t.output = s.output /\ t.index = s.index /\ t.pending = s.pending
  BY <1>1, <1>5, <1>6 DEF StateRecords
<1>8. Listed(s, index) = t
  BY DEF more, new, k, Listed
<1> HIDE DEF t
<1>9. WireTrue(p \o s.pending, Append(s.texts, <<>>), s.given, s.output, s.index,
               OpenItems(s, 0), SecretItems(s, 0) \union {k}, whole)
  <2>1. WireTrue(p \o s.pending, s.texts, s.given, s.output, s.index, OpenItems(s, 0),
                 SecretItems(s, 0), whole)
    BY DEF Kept
  <2>2. WireTrue(p \o s.pending, Append(s.texts, <<>>), s.given, s.output, s.index,
                 OpenItems(s, 0), SecretItems(s, 0) \union {Len(s.texts) + 1}, whole)
    BY <1>1, <1>2, <2>1, WireNew, Zenon
  <2> QED
    BY <1>3, <2>2
<1>10. \A i \in DOMAIN t.calls : i > 0 /\ ((i \in DOMAIN s.calls /\ t.calls[i] = s.calls[i])
                                          \/ (i = N + 1 /\ t.calls[i] = new))
  BY <1>2, <1>5, <1>7
<1>11. /\ DOMAIN s.calls \subseteq DOMAIN t.calls
       /\ \A i \in DOMAIN s.calls : i > 0 /\ t.calls[i] = s.calls[i]
       /\ N + 1 \in DOMAIN t.calls /\ t.calls[N + 1] = new /\ N + 1 > 0
  BY <1>2, <1>5, <1>7
<1>12. OpenItems(t, 0) = OpenItems(s, 0)
  BY <1>4, <1>7, <1>10, <1>11 DEF OpenItems
<1>13. SecretItems(t, 0) = SecretItems(s, 0) \union {k}
  BY <1>4, <1>7, <1>10, <1>11 DEF SecretItems
<1>14. s.message # k /\ s.reasoning # k
  <2>1. /\ s.message # 0 => s.message \in OpenItems(s, 0)
        /\ s.reasoning # 0 => s.reasoning \in OpenItems(s, 0)
    BY DEF OpenItems
  <2> QED
    BY <1>1, <1>3, <2>1
<1>15. Distinct(t)
  <2>1. t.message = t.reasoning => t.message = 0
    BY <1>1, <1>7 DEF Distinct
  <2>2. \A i \in DOMAIN s.calls :
            /\ s.calls[i].item \in DOMAIN s.texts
            /\ s.calls[i].item # s.message /\ s.calls[i].item # s.reasoning
            /\ s.calls[i].item # k
    BY <1>1, <1>3 DEF Distinct
  <2>3. \A i \in DOMAIN t.calls :
            /\ t.calls[i].item \in DOMAIN t.texts
            /\ t.calls[i].item # t.message /\ t.calls[i].item # t.reasoning
    <3> SUFFICES ASSUME NEW i \in DOMAIN t.calls
                 PROVE  /\ t.calls[i].item \in DOMAIN t.texts
                        /\ t.calls[i].item # t.message /\ t.calls[i].item # t.reasoning
      OBVIOUS
    <3>1. CASE i \in DOMAIN s.calls
      BY <1>6, <1>7, <1>11, <2>2, <3>1
    <3>2. CASE i \notin DOMAIN s.calls
      <4>1. t.calls[i].item = k
        BY <1>4, <1>10, <3>2
      <4> QED
        BY <1>6, <1>7, <1>14, <4>1
    <3> QED
      BY <3>1, <3>2
  <2>4. \A i, j \in DOMAIN t.calls :
            t.calls[i].index = t.calls[j].index \/ t.calls[i].item = t.calls[j].item => i = j
    <3> SUFFICES ASSUME NEW i \in DOMAIN t.calls, NEW j \in DOMAIN t.calls,
                        t.calls[i].index = t.calls[j].index \/ t.calls[i].item = t.calls[j].item
                 PROVE  i = j
      OBVIOUS
    <3>1. CASE i \in DOMAIN s.calls /\ j \in DOMAIN s.calls
      BY <1>1, <1>11, <3>1 DEF Distinct
    <3>2. CASE i \in DOMAIN s.calls /\ j \notin DOMAIN s.calls
      BY <1>4, <1>10, <1>11, <2>2, <3>2
    <3>3. CASE i \notin DOMAIN s.calls /\ j \in DOMAIN s.calls
      BY <1>4, <1>10, <1>11, <2>2, <3>3
    <3>4. CASE i \notin DOMAIN s.calls /\ j \notin DOMAIN s.calls
      BY <1>10, <3>4
    <3> QED
      BY <3>1, <3>2, <3>3, <3>4
  <2> QED
    BY <2>1, <2>3, <2>4 DEF Distinct
<1>16. Kept(p, t, 0, whole)
  BY <1>7, <1>9, <1>12, <1>13, <1>15 DEF Kept
<1> QED
  BY <1>4, <1>8, <1>11, <1>16

\* A delta of a call: it is listed when it is new, announced with its first name or arguments,
\* and its arguments are added.
LEMMA KeptAddCall ==
    ASSUME NEW p \in Seq(Events), NEW s, NEW whole, Kept(p, s, 0, whole), NEW index \in Nat,
           NEW parts
    PROVE  Kept(p, AddCall(s, index, parts), 0, whole)
<1> DEFINE before == FinishReasoning(s)
           known == {i \in DOMAIN before.calls : before.calls[i].index = index}
           listed == IF known # {} THEN before ELSE Listed(before, index)
           at == CHOOSE i \in DOMAIN listed.calls : listed.calls[i].index = index
           call == listed.calls[at]
           b == call.named \/ "name" \in parts
           named == Named(listed, at, b)
           opened == IF parts = {} \/ call.announced THEN named
                     ELSE Emit([named EXCEPT !.calls[at].announced = TRUE], "added", call.item, <<>>)
<1>1. AddCall(s, index, parts) =
          IF "arguments" \in parts THEN Delta(opened, call.item) ELSE opened
  BY DEF AddCall, Listed, Named
<1>2. Kept(p, before, 0, whole)
  BY KeptFinishReasoning
<1> HIDE DEF before
<1>3. Kept(p, listed, 0, whole) /\ \E i \in DOMAIN listed.calls : listed.calls[i].index = index
  <2>1. CASE known # {}
    BY <1>2, <2>1
  <2>2. CASE known = {}
    <3>1. \A i \in DOMAIN before.calls : before.calls[i].index # index
      BY <2>2
    <3> QED
      BY <1>2, <2>2, <3>1, KeptListed
  <2> QED
    BY <2>1, <2>2
<1> HIDE DEF listed
<1>4. at \in DOMAIN listed.calls
  BY <1>3
<1> HIDE DEF at
<1>5. b \in BOOLEAN /\ call.announced \in BOOLEAN
  <2>1. listed.calls[at] \in CallRecords
    BY <1>3, <1>4, ItemsOfKept, StateFields, LenProperties, ElementOfSeq
  <2> QED
    BY <2>1 DEF CallRecords
<1> HIDE DEF b
<1>6. /\ Kept(p, named, 0, whole) /\ DOMAIN named.calls = DOMAIN listed.calls
      /\ named.calls[at].item = call.item /\ named.calls[at].announced = call.announced
  BY <1>3, <1>4, <1>5, KeptNamed
<1> HIDE DEF named
<1>7. Kept(p, opened, 0, whole)
      /\ (parts # {} => call.item \in OpenItems(opened, 0))
  <2>1. CASE parts = {}
    BY <1>6, <2>1
  <2>2. CASE parts # {} /\ call.announced
    <3>1. at \in {j \in DOMAIN named.calls : j > 0 /\ named.calls[j].announced}
      <4>1. DOMAIN named.calls = 1 .. Len(named.calls) /\ Len(named.calls) \in Nat
        BY <1>6, ItemsOfKept, StateFields, LenProperties
      <4>2. at \in DOMAIN named.calls /\ at > 0
        BY <1>4, <1>6, <4>1
      <4>3. named.calls[at].announced
        BY <1>6, <2>2
      <4> QED
        BY <4>2, <4>3
    <3>2. call.item \in OpenItems(named, 0)
      BY <1>6, <3>1 DEF OpenItems
    <3> QED
      BY <1>6, <2>2, <3>2
  <2>3. CASE parts # {} /\ ~call.announced
    <3>1. at \in DOMAIN named.calls /\ ~named.calls[at].announced
      BY <1>4, <1>6, <2>3
    <3>2. opened = Announced(named, at)
      BY <1>6, <2>3 DEF Announced
    <3> HIDE DEF opened
    <3>3. Kept(p, opened, 0, whole) /\ named.calls[at].item \in OpenItems(opened, 0)
      BY <1>6, <3>1, <3>2, KeptAnnounced
    <3> QED
      BY <1>6, <3>3
  <2> QED
    BY <1>5, <2>1, <2>2, <2>3
<1> HIDE DEF opened, call
<1>8. CASE "arguments" \in parts
  BY <1>1, <1>7, <1>8, DeltaStaysOpen
<1>9. CASE "arguments" \notin parts
  BY <1>1, <1>7, <1>9
<1> QED
  BY <1>8, <1>9

\* The calls that are kept are some of the first n, each of them once.
SomeOf(calls, n) ==
    {q \in Seq(CallRecords) :
        /\ \A i \in DOMAIN q : \E j \in 1 .. n : q[i] = calls[j]
        /\ \A i, j \in DOMAIN q : q[i].index = q[j].index \/ q[i].item = q[j].item => i = j}

\* The next call, when it is kept.
LEMMA OneMoreKept ==
    ASSUME NEW calls \in Seq(CallRecords), NEW n \in 1 .. Len(calls), NEW q \in SomeOf(calls, n - 1),
           \A i, j \in DOMAIN calls :
               calls[i].index = calls[j].index \/ calls[i].item = calls[j].item => i = j
    PROVE  Append(q, calls[n]) \in SomeOf(calls, n) /\ q \in SomeOf(calls, n)
<1> DEFINE c == calls[n]
           v == Append(q, c)
           M == Len(q)
<1>1. /\ DOMAIN calls = 1 .. Len(calls) /\ Len(calls) \in Nat /\ c \in CallRecords
      /\ q \in Seq(CallRecords)
  BY LenProperties, ElementOfSeq DEF SomeOf
<1>2. /\ M \in Nat /\ DOMAIN q = 1 .. M /\ v \in Seq(CallRecords) /\ DOMAIN v = 1 .. (M + 1)
      /\ (\A i \in 1 .. M : v[i] = q[i]) /\ v[M + 1] = c
  <2>1. /\ v \in Seq(CallRecords) /\ Len(v) = M + 1
        /\ (\A i \in 1 .. M : v[i] = q[i]) /\ v[M + 1] = c
    BY <1>1, AppendProperties
  <2> QED
    BY <1>1, <2>1, LenProperties
<1> HIDE DEF v, M
<1>3. \A i \in DOMAIN q : \E j \in 1 .. (n - 1) : q[i] = calls[j]
  BY DEF SomeOf
<1>4. \A j \in 1 .. (n - 1) : j \in DOMAIN calls /\ j # n
  BY <1>1
<1>5. n \in DOMAIN calls /\ \A j \in 1 .. (n - 1) : j \in 1 .. n
  BY <1>1
<1>6. \A i \in DOMAIN q : q[i].index # c.index /\ q[i].item # c.item
  <2> SUFFICES ASSUME NEW i \in DOMAIN q PROVE q[i].index # c.index /\ q[i].item # c.item
    OBVIOUS
  <2>1. PICK j \in 1 .. (n - 1) : q[i] = calls[j]
    BY <1>3
  <2>2. j \in DOMAIN calls /\ j # n
    BY <1>4
  <2>3. calls[j].index # calls[n].index /\ calls[j].item # calls[n].item
    BY <1>5, <2>2
  <2> QED
    BY <2>1, <2>3
<1>7. \A i \in DOMAIN v : (i \in DOMAIN q /\ v[i] = q[i]) \/ (i = M + 1 /\ v[i] = c)
  BY <1>2
<1>8. \A i \in DOMAIN v : \E j \in 1 .. n : v[i] = calls[j]
  <2> SUFFICES ASSUME NEW i \in DOMAIN v PROVE \E j \in 1 .. n : v[i] = calls[j]
    OBVIOUS
  <2>1. CASE i \in DOMAIN q /\ v[i] = q[i]
    <3>1. PICK j \in 1 .. (n - 1) : q[i] = calls[j]
      BY <1>3, <2>1
    <3> QED
      BY <1>5, <2>1, <3>1
  <2>2. CASE v[i] = c
    <3>1. n \in 1 .. n
      OBVIOUS
    <3> QED
      BY <2>2, <3>1
  <2> QED
    BY <1>7, <2>1, <2>2
<1>9. \A i, j \in DOMAIN q : q[i].index = q[j].index \/ q[i].item = q[j].item => i = j
  BY DEF SomeOf
<1>10. \A i, j \in DOMAIN v : v[i].index = v[j].index \/ v[i].item = v[j].item => i = j
  <2> HIDE DEF c
  <2> QED
    BY <1>6, <1>7, <1>9
<1>11. \A i \in DOMAIN q : \E j \in 1 .. n : q[i] = calls[j]
  BY <1>3, <1>5
<1>12. q \in SomeOf(calls, n)
  BY <1>1, <1>9, <1>11 DEF SomeOf
<1>13. v \in SomeOf(calls, n)
  BY <1>2, <1>8, <1>10 DEF SomeOf
<1> QED
  BY <1>12, <1>13 DEF v

\* Calls the request does not allow are dropped, for a note.
LEMMA KeptApplyAllowed ==
    ASSUME NEW p \in Seq(Events), NEW s, Kept(p, s, 0, Whole)
    PROVE  Kept(p, ApplyAllowed(s), 0, Whole)
<1> DEFINE N == Len(s.calls)
           calls == s.calls
           Rec(f) == f = [n \in 0 .. N |->
                             IF n = 0 THEN <<>>
                             ELSE IF Allowed(s.calls[n]) THEN Append(f[n - 1], s.calls[n])
                                  ELSE f[n - 1]]
           kept == CHOOSE f : Rec(f)
           S == [n \in 0 .. N |-> SomeOf(s.calls, n)]
           F == [n \in 1 .. N |-> [q \in Seq(CallRecords) |->
                    IF Allowed(s.calls[n]) THEN Append(q, s.calls[n]) ELSE q]]
<1>1. CASE \A i \in DOMAIN s.calls : Allowed(s.calls[i])
  BY <1>1 DEF ApplyAllowed
<1>2. CASE ~\A i \in DOMAIN s.calls : Allowed(s.calls[i])
  <2>1. ApplyAllowed(s) = AddText([s EXCEPT !.calls = kept[N]])
    BY <1>2 DEF ApplyAllowed
  <2>2. ~Whole
    BY <1>2 DEF Allowed, Whole
  <2>3. s \in StateRecords /\ Distinct(s) /\ calls \in Seq(CallRecords)
    BY ItemsOfKept, StateFields
  <2>4. N \in Nat /\ DOMAIN calls = 1 .. N
    BY <2>3, LenProperties
  <2>5. \A i, j \in DOMAIN calls :
            calls[i].index = calls[j].index \/ calls[i].item = calls[j].item => i = j
    BY <2>3 DEF Distinct
  <2>6. ASSUME NEW n \in 1 .. N, NEW q \in S[n - 1]
        PROVE  q \in Seq(CallRecords)
               /\ (IF Allowed(s.calls[n]) THEN Append(q, s.calls[n]) ELSE q) \in S[n]
    <3>1. n - 1 \in 0 .. N /\ n \in 0 .. N
      BY <2>4
    <3>2. q \in SomeOf(calls, n - 1)
      BY <2>6, <3>1
    <3>3. q \in Seq(CallRecords)
      BY <3>2 DEF SomeOf
    <3>4. Append(q, calls[n]) \in SomeOf(calls, n) /\ q \in SomeOf(calls, n)
      BY <2>3, <2>4, <2>5, <3>2, OneMoreKept
    <3> QED
      BY <3>1, <3>3, <3>4
  <2>7. <<>> \in S[0]
    <3>1. <<>> \in Seq(CallRecords) /\ DOMAIN <<>> = {}
      BY EmptySeq
    <3>2. <<>> \in SomeOf(calls, 0)
      BY <3>1 DEF SomeOf
    <3> QED
      BY <2>4, <3>2
  <2>8. \A n \in 1 .. N : \A q \in S[n - 1] : F[n][q] \in S[n]
    <3> SUFFICES ASSUME NEW n \in 1 .. N, NEW q \in S[n - 1] PROVE F[n][q] \in S[n]
      OBVIOUS
    <3> HIDE DEF S
    <3>1. q \in Seq(CallRecords)
      BY <2>6
    <3>2. F[n][q] = IF Allowed(s.calls[n]) THEN Append(q, s.calls[n]) ELSE q
      BY <3>1
    <3> HIDE DEF F
    <3> QED
      BY ZenonT(30), <2>6, <3>2
  <2>9. \E g : Rec(g)
    <3> HIDE DEF S
    <3> DEFINE G == F
    <3> HIDE DEF G
    <3>1. \A n \in 1 .. N : \A q \in S[n - 1] : G[n][q] \in S[n]
      BY <2>8 DEF G
    <3>2. PICK g : Iteration(G, <<>>, S, N, g)
      <4> HIDE DEF N
      <4> QED
        BY <2>4, <2>7, <3>1, Iterates
    <3>3. ASSUME NEW n \in 0 .. N
          PROVE  Iterated(G, <<>>, g, n) =
                     IF n = 0 THEN <<>>
                     ELSE IF Allowed(s.calls[n]) THEN Append(g[n - 1], s.calls[n]) ELSE g[n - 1]
      <4>1. CASE n = 0
        BY <4>1 DEF Iterated
      <4>2. CASE n # 0
        <5>1. n \in 1 .. N /\ n - 1 \in 0 .. N
          BY <2>4, <4>2
        <5>2. g[n - 1] \in S[n - 1]
          BY <3>2, <5>1 DEF Iteration
        <5>3. g[n - 1] \in Seq(CallRecords)
          BY <2>6, <5>1, <5>2
        <5>4. G[n][g[n - 1]] = IF Allowed(s.calls[n]) THEN Append(g[n - 1], s.calls[n]) ELSE g[n - 1]
          BY <5>1, <5>3 DEF G
        <5> QED
          BY <4>2, <5>4 DEF Iterated
      <4> QED
        BY <4>1, <4>2
    <3>4. Rec(g)
      BY <3>2, <3>3 DEF Iteration
    <3> QED
      BY <3>4
  <2>10. Rec(kept)
    <3> HIDE DEF Rec
    <3> QED
      BY <2>9
  <2>11. \A n \in 0 .. N : kept[n] =
             IF n = 0 THEN <<>>
             ELSE IF Allowed(s.calls[n]) THEN Append(kept[n - 1], s.calls[n]) ELSE kept[n - 1]
    <3> HIDE DEF kept
    <3> QED
      BY <2>10
  <2> HIDE DEF kept, Rec, F
  <2>12. kept[N] \in S[N]
    <3>1. kept[0] \in S[0]
      <4>1. kept[0] = <<>>
        BY <2>4, <2>11
      <4> QED
        BY <2>7, <4>1
    <3>2. \A n \in 1 .. N : kept[n - 1] \in S[n - 1] => kept[n] \in S[n]
      <4> HIDE DEF S
      <4> SUFFICES ASSUME NEW n \in 1 .. N, kept[n - 1] \in S[n - 1] PROVE kept[n] \in S[n]
        OBVIOUS
      <4>1. kept[n] = IF Allowed(s.calls[n]) THEN Append(kept[n - 1], s.calls[n]) ELSE kept[n - 1]
        BY <2>4, <2>11
      <4> QED
        BY <2>6, <4>1
    <3> HIDE DEF S
    <3> QED
      BY <2>4, <3>1, <3>2, IteratesStay
  <2> DEFINE q == kept[N]
             t == [s EXCEPT !.calls = q]
  <2>13. q \in SomeOf(calls, N)
    BY <2>4, <2>12
  <2> HIDE DEF q, S
  <2>14. /\ q \in Seq(CallRecords)
         /\ \A i \in DOMAIN q : \E j \in DOMAIN s.calls : q[i] = s.calls[j]
         /\ \A i, j \in DOMAIN q : q[i].index = q[j].index \/ q[i].item = q[j].item => i = j
    BY <2>4, <2>13 DEF SomeOf
  <2>15. /\ t \in StateRecords /\ t.calls = q /\ SameWire(s, t)
         /\ t.message = s.message /\ t.reasoning = s.reasoning
    BY <2>3, <2>14 DEF StateRecords, SameWire
  <2> HIDE DEF t
  <2>16. \A j \in DOMAIN s.calls : j > 0
    BY <2>4
  <2>17. OpenItems(t, 0) \subseteq OpenItems(s, 0)
    BY <2>14, <2>15, <2>16 DEF OpenItems
  <2>18. SecretItems(t, 0) \subseteq SecretItems(s, 0)
    BY <2>14, <2>15, <2>16 DEF SecretItems
  <2>19. Distinct(t)
    <3>1. \A j \in DOMAIN s.calls :
              /\ s.calls[j].item \in DOMAIN s.texts
              /\ s.calls[j].item # s.message /\ s.calls[j].item # s.reasoning
      BY <2>3 DEF Distinct
    <3>2. \A i \in DOMAIN t.calls :
              /\ t.calls[i].item \in DOMAIN t.texts
              /\ t.calls[i].item # t.message /\ t.calls[i].item # t.reasoning
      BY <2>14, <2>15, <3>1 DEF SameWire
    <3>3. t.message = t.reasoning => t.message = 0
      BY <2>3, <2>15 DEF Distinct
    <3> QED
      BY <2>14, <2>15, <3>2, <3>3 DEF Distinct
  <2>20. WireTrue(p \o s.pending, s.texts, s.given, s.output, s.index, OpenItems(t, 0),
                  SecretItems(t, 0), Whole)
    <3>1. WireTrue(p \o s.pending, s.texts, s.given, s.output, s.index, OpenItems(s, 0),
                   SecretItems(s, 0), Whole)
      BY DEF Kept
    <3> QED
      BY <2>2, <2>17, <2>18, <3>1, WireFewer
  <2>21. Kept(p, t, 0, Whole)
    BY <2>15, <2>19, <2>20 DEF Kept, SameWire
  <2>22. Kept(p, AddText(t), 0, Whole)
    BY <2>21, KeptAddText
  <2> QED
    BY <2>1, <2>22 DEF t, q
<1> QED
  BY <1>1, <1>2

-------------------------------------------------------------------------------
(* What the upstream sends *)

\* A delta of a chat stream.
LEMMA KeptDecodeChat ==
    ASSUME NEW p \in Seq(Events), NEW s, NEW whole, Kept(p, s, 0, whole), NEW delta \in ChatDeltas
    PROVE  Kept(p, DecodeChat(s, delta), 0, whole)
<1>1. \/ delta.op \in {"reasoning", "text", "end"}
      \/ delta.op = "call" /\ delta.call \in Nat
  <2>1. \/ delta \in {Plainly("reasoning"), Plainly("text"), Plainly("end")}
        \/ delta \in OfCalls("call", SUBSET {"name", "arguments"})
    BY DEF ChatDeltas
  <2>2. CASE delta \in {Plainly("reasoning"), Plainly("text"), Plainly("end")}
    BY <2>2 DEF Plainly
  <2>3. CASE delta \in OfCalls("call", SUBSET {"name", "arguments"})
    <3>1. delta.op = "call" /\ delta.call \in Calls
      BY <2>3 DEF OfCalls
    <3> QED
      BY <3>1, ItemsAssumption
  <2> QED
    BY <2>1, <2>2, <2>3
<1>2. CASE delta.op = "reasoning"
  BY <1>2, KeptAddReasoning DEF DecodeChat
<1>3. CASE delta.op = "end"
  BY <1>3, KeptFinishReasoning DEF DecodeChat
<1>4. CASE delta.op = "text"
  BY <1>4, KeptAddText DEF DecodeChat
<1>5. CASE delta.op = "call" /\ delta.call \in Nat
  BY <1>5, KeptAddCall DEF DecodeChat
<1> QED
  BY <1>1, <1>2, <1>3, <1>4, <1>5

\* A chunk of a chat stream.
LEMMA KeptDecoded ==
    ASSUME NEW p \in Seq(Events), NEW s, NEW whole, Kept(p, s, 0, whole), NEW chunk \in ChatChunks
    PROVE  Kept(p, Decoded(s, chunk), 0, whole)
<1> DEFINE N == Len(chunk)
           Rec(f) == f = [n \in 0 .. N |-> IF n = 0 THEN s ELSE DecodeChat(f[n - 1], chunk[n])]
           after == CHOOSE f : Rec(f)
           Good == {x \in StateRecords : Kept(p, x, 0, whole)}
           S == [n \in 0 .. N |-> Good]
           F == [n \in 1 .. N |-> [x \in StateRecords |-> DecodeChat(x, chunk[n])]]
<1>1. Decoded(s, chunk) = after[N]
  BY DEF Decoded
<1>2. N \in Nat /\ \A n \in 1 .. N : chunk[n] \in ChatDeltas
  <2>1. PICK m \in 0 .. MaxChunk : chunk \in [1 .. m -> ChatDeltas]
    BY DEF ChatChunks, SeqOf
  <2>2. chunk \in Seq(ChatDeltas)
    <3>1. m \in Nat
      BY ItemsAssumption
    <3> QED
      BY <2>1, <3>1, SeqDef
  <2> QED
    BY <2>2, LenProperties, ElementOfSeq
<1>3. ASSUME NEW n \in 1 .. N, NEW x \in Good PROVE DecodeChat(x, chunk[n]) \in Good
  <2>1. Kept(p, DecodeChat(x, chunk[n]), 0, whole)
    BY <1>2, KeptDecodeChat
  <2> QED
    BY <2>1, ItemsOfKept
<1>4. s \in Good /\ Good \subseteq StateRecords
  BY ItemsOfKept
<1> HIDE DEF Good
<1>5. \A n \in 0 .. N : S[n] = Good
  OBVIOUS
<1> HIDE DEF S
<1>6. \A n \in 1 .. N : \A x \in S[n - 1] : F[n][x] \in S[n]
  <2> SUFFICES ASSUME NEW n \in 1 .. N, NEW x \in S[n - 1] PROVE F[n][x] \in S[n]
    OBVIOUS
  <2>1. n - 1 \in 0 .. N /\ n \in 0 .. N
    BY <1>2
  <2>2. x \in Good /\ x \in StateRecords
    BY <1>4, <1>5, <2>1
  <2>3. F[n][x] = DecodeChat(x, chunk[n])
    BY <2>2
  <2> HIDE DEF F
  <2> QED
    BY <1>3, <1>5, <2>1, <2>2, <2>3
<1>7. \E g : Rec(g)
  <2> DEFINE G == F
  <2> HIDE DEF G
  <2>1. \A n \in 1 .. N : \A x \in S[n - 1] : G[n][x] \in S[n]
    BY <1>6 DEF G
  <2>2. PICK g : Iteration(G, s, S, N, g)
    <3>1. s \in S[0]
      BY <1>2, <1>4, <1>5
    <3> HIDE DEF N
    <3> QED
      BY <1>2, <2>1, <3>1, Iterates
  <2>3. ASSUME NEW n \in 0 .. N
        PROVE  Iterated(G, s, g, n) = IF n = 0 THEN s ELSE DecodeChat(g[n - 1], chunk[n])
    <3>1. CASE n = 0
      BY <3>1 DEF Iterated
    <3>2. CASE n # 0
      <4>1. n \in 1 .. N /\ n - 1 \in 0 .. N
        BY <1>2, <3>2
      <4>2. g[n - 1] \in StateRecords
        BY <4>1, <2>2, <1>4, <1>5 DEF Iteration
      <4>3. G[n][g[n - 1]] = DecodeChat(g[n - 1], chunk[n])
        BY <4>1, <4>2 DEF G
      <4> QED
        BY <3>2, <4>3 DEF Iterated
    <3> QED
      BY <3>1, <3>2
  <2>4. Rec(g)
    BY <2>2, <2>3 DEF Iteration
  <2> QED
    BY <2>4
<1>8. Rec(after)
  <2> HIDE DEF Rec
  <2> QED
    BY <1>7
<1>9. \A n \in 0 .. N : after[n] = IF n = 0 THEN s ELSE DecodeChat(after[n - 1], chunk[n])
  <2> HIDE DEF after
  <2> QED
    BY <1>8
<1> HIDE DEF after, Rec, F
<1>10. after[N] \in S[N]
  <2>1. after[0] \in S[0]
    BY <1>2, <1>4, <1>5, <1>9
  <2>2. \A n \in 1 .. N : after[n - 1] \in S[n - 1] => after[n] \in S[n]
    <3> SUFFICES ASSUME NEW n \in 1 .. N, after[n - 1] \in S[n - 1] PROVE after[n] \in S[n]
      OBVIOUS
    <3>1. n \in 0 .. N /\ n - 1 \in 0 .. N /\ n # 0
      BY <1>2
    <3>2. after[n] = DecodeChat(after[n - 1], chunk[n])
      BY <1>9, <3>1
    <3> QED
      BY <1>3, <1>5, <3>1, <3>2
  <2> HIDE DEF N
  <2> QED
    BY <1>2, <2>1, <2>2, IteratesStay
<1>11. after[N] \in Good
  BY <1>2, <1>5, <1>10
<1> QED
  BY <1>1, <1>11 DEF Good

\* An event of a native engine.
LEMMA KeptDecodeNative ==
    ASSUME NEW p \in Seq(Events), NEW s, NEW whole, Kept(p, s, 0, whole), NEW chunk \in NativeEvents
    PROVE  Kept(p, DecodeNative(s, chunk[1]), 0, whole)
<1> DEFINE e == chunk[1]
           ids == IF e.op \in {"announce", "arguments"} /\ ~Contains(s.native, e.call)
                  THEN Append(s.native, e.call) ELSE s.native
           known == [s EXCEPT !.native = ids]
           at == CHOOSE i \in DOMAIN ids : ids[i] = e.call
<1>1. \/ e.op \in {"reasoning", "text"}
      \/ e.op \in {"announce", "arguments"} /\ e.call \in Nat
  <2>1. PICK d \in {Plainly("reasoning"), Plainly("text")} \union OfCalls("announce", {{}})
                   \union OfCalls("arguments", {{}, {"arguments"}}) : chunk = <<d>>
    BY Zenon DEF NativeEvents
  <2>2. e = d
    BY <2>1
  <2>3. CASE d \in {Plainly("reasoning"), Plainly("text")}
    BY <2>2, <2>3 DEF Plainly
  <2>4. CASE d \in OfCalls("announce", {{}})
    <3>1. d.op = "announce" /\ d.call \in Calls
      BY <2>4 DEF OfCalls
    <3> QED
      BY <2>2, <3>1, ItemsAssumption
  <2>5. CASE d \in OfCalls("arguments", {{}, {"arguments"}})
    <3>1. d.op = "arguments" /\ d.call \in Calls
      BY <2>5 DEF OfCalls
    <3> QED
      BY <2>2, <3>1, ItemsAssumption
  <2> QED
    BY <2>1, <2>3, <2>4, <2>5
<1> HIDE DEF e
<1>2. s \in StateRecords /\ s.native \in Seq(Nat)
  BY ItemsOfKept, StateFields
<1>3. ids \in Seq(Nat)
  BY <1>1, <1>2, AppendProperties
<1>4. e.op = "arguments" => \E i \in DOMAIN ids : ids[i] = e.call
  <2> SUFFICES ASSUME e.op = "arguments" PROVE \E i \in DOMAIN ids : ids[i] = e.call
    OBVIOUS
  <2>1. CASE Contains(s.native, e.call)
    <3>1. ids = s.native
      BY <2>1
    <3>2. DOMAIN s.native = 1 .. Len(s.native)
      BY <1>2, LenProperties
    <3> HIDE DEF ids
    <3> QED
      BY <2>1, <3>1, <3>2 DEF Contains
  <2>2. CASE ~Contains(s.native, e.call)
    <3>1. ids = Append(s.native, e.call) /\ e.call \in Nat
      BY <1>1, <2>2
    <3>2. /\ Len(ids) = Len(s.native) + 1 /\ ids[Len(s.native) + 1] = e.call
          /\ Len(s.native) \in Nat
      BY <1>2, <3>1, AppendProperties, LenProperties
    <3>3. DOMAIN ids = 1 .. Len(ids)
      BY <1>3, LenProperties
    <3> HIDE DEF ids
    <3>4. Len(s.native) + 1 \in DOMAIN ids
      BY <3>2, <3>3
    <3> QED
      BY <3>2, <3>4
  <2> QED
    BY <2>1, <2>2
<1> HIDE DEF ids
<1>5. Kept(p, known, 0, whole)
  <2>1. /\ known \in StateRecords /\ SameRoles(s, known) /\ SameWire(s, known)
    BY <1>2, <1>3 DEF StateRecords, SameRoles, SameWire
  <2> HIDE DEF known
  <2>2. OpenItems(known, 0) = OpenItems(s, 0) /\ SecretItems(known, 0) = SecretItems(s, 0)
        /\ Distinct(known)
    BY <2>1, RolesKept, ItemsOfKept
  <2> QED
    BY <2>1, <2>2 DEF Kept, SameWire
<1>6. CASE e.op = "text"
  <2>1. DecodeNative(s, e) = AddText(s)
    BY <1>6 DEF DecodeNative
  <2> QED
    BY <2>1, KeptAddText DEF e
<1>7. CASE e.op = "reasoning"
  <2> DEFINE r == AddReasoning(s)
  <2>1. DecodeNative(s, e) = Emit(r, "summary", r.reasoning, <<r.given>>)
    BY <1>7 DEF DecodeNative
  <2>2. Kept(p, r, 0, whole) /\ r.reasoning \in OpenItems(r, 0)
    BY KeptAddReasoning
  <2> HIDE DEF r
  <2>3. <<r.given>> \in Seq(Nat)
    <3>1. r.given \in Nat
      BY <2>2, ItemsOfKept, StateFields
    <3> QED
      BY <3>1
  <2>4. "summary" \in ItemWords /\ "summary" \notin {"added", "delta", "done"}
    BY DEF ItemWords
  <2>5. Kept(p, Emit(r, "summary", r.reasoning, <<r.given>>), 0, whole)
    BY <2>2, <2>3, <2>4, KeptEmit
  <2> QED
    BY <2>1, <2>5 DEF e
<1>8. CASE e.op = "announce"
  <2>1. DecodeNative(s, e) = known
    BY <1>8 DEF DecodeNative, ids
  <2> QED
    BY <1>5, <2>1 DEF e
<1>9. CASE e.op = "arguments"
  <2>1. DecodeNative(s, e) = AddCall(known, at - 1, {"name"} \union e.parts)
    BY <1>9 DEF DecodeNative, ids
  <2>2. at \in DOMAIN ids
    BY <1>4, <1>9
  <2>3. at - 1 \in Nat
    <3>1. DOMAIN ids = 1 .. Len(ids) /\ Len(ids) \in Nat
      BY <1>3, LenProperties
    <3> HIDE DEF at
    <3> QED
      BY <2>2, <3>1
  <2> HIDE DEF at, known
  <2> QED
    BY <1>5, <2>1, <2>3, KeptAddCall DEF e
<1> QED
  BY <1>1, <1>6, <1>7, <1>8, <1>9 DEF e

-------------------------------------------------------------------------------
(* The steps *)

\* The state is stored without the events it made.
LEMMA DrainedFields ==
    ASSUME NEW s \in StateRecords
    PROVE  /\ Drained(s) \in StateRecords /\ Drained(s).pending = <<>>
           /\ SameButEvents(s, Drained(s))
<1>1. <<>> \in Seq(ItemEvents)
  BY EmptySeq
<1>2. Drained(s) = [s EXCEPT !.pending = <<>>]
  BY DEF Drained
<1> QED
  BY <1>1, <1>2 DEF StateRecords, SameButEvents

\* What is kept while it is made is kept when it is sent, and no completion is among it.
LEMMA SentIsKept ==
    ASSUME NEW p \in Seq(Events), NEW s, NEW whole, Kept(p, s, 0, whole)
    PROVE  /\ Kept(p \o s.pending, Drained(s), 0, whole)
           /\ p \o s.pending \in Seq(Events)
           /\ \A i \in DOMAIN (p \o s.pending) :
                 (p \o s.pending)[i].kind = "completed" => \E j \in DOMAIN p : p[j].kind = "completed"
<1> DEFINE w == p \o s.pending
           t == Drained(s)
<1>1. s \in StateRecords /\ Distinct(s) /\ w \in Seq(Events)
  BY ItemsOfKept
<1>2. t \in StateRecords /\ t.pending = <<>> /\ SameButEvents(s, t)
  BY <1>1, DrainedFields
<1> HIDE DEF t
<1>3. SameRoles(s, t)
  BY <1>2 DEF SameButEvents, SameRoles
<1>4. OpenItems(t, 0) = OpenItems(s, 0) /\ SecretItems(t, 0) = SecretItems(s, 0) /\ Distinct(t)
  BY <1>1, <1>3, RolesKept
<1>5. WireTrue(w, s.texts, s.given, s.output, s.index, OpenItems(s, 0), SecretItems(s, 0), whole)
  BY DEF Kept
<1>6. \A i \in DOMAIN w : w[i].kind = "completed" => \E j \in DOMAIN p : p[j].kind = "completed"
  <2>1. s.pending \in Seq(ItemEvents) /\ s.pending \in Seq(Events)
    BY <1>1, StateFields
  <2>2. /\ Len(p) \in Nat /\ DOMAIN p = 1 .. Len(p)
        /\ Len(s.pending) \in Nat /\ DOMAIN w = 1 .. Len(w)
    BY <1>1, <2>1, LenProperties
  <2>3. /\ Len(w) = Len(p) + Len(s.pending)
        /\ \A i \in 1 .. Len(p) + Len(s.pending) :
              w[i] = IF i <= Len(p) THEN p[i] ELSE s.pending[i - Len(p)]
    BY <2>1, ConcatProperties
  <2> HIDE DEF w
  <2> SUFFICES ASSUME NEW i \in DOMAIN w, w[i].kind = "completed"
               PROVE  \E j \in DOMAIN p : p[j].kind = "completed"
    OBVIOUS
  <2>4. i \in 1 .. Len(p) + Len(s.pending)
    BY <2>2, <2>3
  <2>5. CASE i <= Len(p)
    <3>1. i \in DOMAIN p /\ w[i] = p[i]
      BY <2>2, <2>3, <2>4, <2>5
    <3> QED
      BY <3>1
  <2>6. CASE ~(i <= Len(p))
    <3>1. i - Len(p) \in 1 .. Len(s.pending) /\ w[i] = s.pending[i - Len(p)]
      BY <2>2, <2>3, <2>4, <2>6
    <3>2. w[i] \in ItemEvents
      BY <2>1, <3>1, ElementOfSeq
    <3> QED
      BY <3>2 DEF ItemEvents, ItemWords
  <2> QED
    BY <2>5, <2>6
<1>7. w \o <<>> = w
  BY <1>1, ConcatEmptySeq
<1> HIDE DEF w
<1>8. WireTrue(w \o t.pending, t.texts, t.given, t.output, t.index, OpenItems(t, 0),
               SecretItems(t, 0), whole)
  BY <1>2, <1>4, <1>5, <1>7 DEF SameButEvents
<1>9. Kept(w, t, 0, whole)
  BY <1>2, <1>4, <1>8 DEF Kept
<1> QED
  BY <1>1, <1>6, <1>9 DEF w, t

\* What is stored has nothing to send.
LEMMA StoredIsDrained ==
    ASSUME NEW s \in StateRecords, s.pending = <<>>
    PROVE  Drained(s) = s
BY DEF Drained, StateRecords

\* The client is told of an end of the response.
LEMMA ToldIsKept ==
    ASSUME NEW p \in Seq(Events), NEW s, NEW whole, Kept(p, s, 0, whole), s.pending = <<>>,
           NEW kind \in {"completed", "failed"}, NEW n \in Nat
    PROVE  LET t == Make([s EXCEPT !.seq = n], kind, 0, 0, <<>>)
           IN  /\ Kept(p \o t.pending, Drained(t), 0, whole)
               /\ SameButEvents(s, Drained(t)) /\ Drained(t).pending = <<>>
               /\ \E e \in Events : e.kind = kind /\ p \o t.pending = Append(p, e)
<1> DEFINE t == Make([s EXCEPT !.seq = n], kind, 0, 0, <<>>)
           x == [s EXCEPT !.seq = n]
           e == Event(kind, 0, 0, <<>>, n + 1)
           u == [s EXCEPT !.seq = n + 1]
<1>1. s \in StateRecords /\ Distinct(s) /\ p \o s.pending \in Seq(Events)
      /\ 0 \notin DOMAIN s.texts /\ OpenItems(s, 0) \intersect SecretItems(s, 0) = {}
  BY ItemsOfKept
<1>2. e \in Events /\ e.kind = kind /\ e.item = 0
  BY EmptySeq DEF Event, Events, Words
<1>3. t.pending = Append(<<>>, e) /\ Drained(t) = u
  BY <1>1 DEF Make, Drained, StateRecords
<1> HIDE DEF e, t
<1>4. p \o s.pending = p /\ p \o Append(<<>>, e) = Append(p, e)
  <2>1. <<>> \in Seq(Events) /\ p \o <<>> = p
    BY EmptySeq, ConcatEmptySeq
  <2>2. p \o Append(<<>>, e) = Append(p \o <<>>, e)
    BY <1>2, <2>1, OneMore
  <2> QED
    BY <2>1, <2>2
<1>5. u \in StateRecords /\ SameButEvents(s, u) /\ u.pending = <<>> /\ SameRoles(s, u)
  <2>1. n + 1 \in Nat /\ s \in StateRecords
    BY <1>1
  <2>2. u \in StateRecords /\ SameButEvents(s, u) /\ u.pending = s.pending
    BY <2>1 DEF StateRecords, SameButEvents
  <2> HIDE DEF u
  <2> QED
    BY <2>2 DEF SameButEvents, SameRoles
<1> HIDE DEF u
<1>6. OpenItems(u, 0) = OpenItems(s, 0) /\ SecretItems(u, 0) = SecretItems(s, 0) /\ Distinct(u)
  BY <1>1, <1>5, RolesKept
<1>7. WireTrue(p, s.texts, s.given, s.output, s.index, OpenItems(s, 0), SecretItems(s, 0), whole)
  BY <1>4 DEF Kept
<1>8. WireTrue(Append(p, e), s.texts, s.given, s.output, s.index, OpenItems(s, 0),
               SecretItems(s, 0), whole)
  <2>1. e.item \in OpenItems(s, 0) \union {0} /\ e.kind \notin {"added", "delta", "done"}
    BY <1>2
  <2> QED
    BY <1>1, <1>2, <1>7, <2>1, WireInside
<1>9. Append(p, e) \o <<>> = Append(p, e)
  BY <1>2, AppendProperties, ConcatEmptySeq
<1>10. Kept(Append(p, e), u, 0, whole)
  BY <1>5, <1>6, <1>8, <1>9 DEF Kept, SameButEvents
<1> QED
  BY <1>2, <1>3, <1>4, <1>5, <1>10 DEF t

\* A turn begins with two events about the response.
LEMMA ItemsInvInit ==
    ItemsInit => ItemsInv
<1> SUFFICES ASSUME ItemsInit PROVE ItemsInv
  OBVIOUS
<1>1. state = Fresh /\ turn \in Turns /\ step = "reading"
      /\ sent = <<Event("created", 0, 0, <<>>, 1), Event("in_progress", 0, 0, <<>>, 2)>>
  BY DEF ItemsInit
<1>2. Event("created", 0, 0, <<>>, 1) \in Events /\ Event("in_progress", 0, 0, <<>>, 2) \in Events
  BY EmptySeq DEF Event, Events, Words
<1>3. sent \in Seq(Events) /\ DOMAIN sent = 1 .. 2
  BY <1>1, <1>2
<1>4. \A i \in DOMAIN sent :
          /\ sent[i].item = 0 /\ sent[i].kind # "done" /\ sent[i].kind # "completed"
          /\ sent[i].kind # "added"
  <2>1. sent[1] = Event("created", 0, 0, <<>>, 1) /\ sent[2] = Event("in_progress", 0, 0, <<>>, 2)
    BY <1>1
  <2>2. \A i \in DOMAIN sent : i = 1 \/ i = 2
    BY <1>3
  <2> QED
    BY <2>1, <2>2 DEF Event
<1>5. /\ state \in StateRecords /\ state.pending = <<>> /\ state.texts = <<>> /\ state.calls = <<>>
      /\ state.output = <<>> /\ state.index = 0 /\ state.message = 0 /\ state.reasoning = 0
      /\ state.given = 0
  BY <1>1, EmptySeq DEF Fresh, StateRecords
<1>6. DOMAIN <<>> = {} /\ Len(<<>>) = 0 /\ sent \o <<>> = sent
  BY <1>3, EmptySeq, ConcatEmptySeq
<1>7. OpenItems(state, 0) = {} /\ SecretItems(state, 0) = {}
  BY <1>5, <1>6 DEF OpenItems, SecretItems
<1>8. Distinct(state)
  BY <1>5, <1>6 DEF Distinct
<1>9. TextsTrue(sent, <<>>, 0)
  BY <1>4, <1>6 DEF TextsTrue
<1>10. OutputTrue(sent, <<>>, 0)
  BY <1>4, <1>6 DEF OutputTrue
<1>11. PhasesTrue(sent, <<>>, {}, {}, Whole)
  BY <1>4, <1>6 DEF PhasesTrue
<1>12. Kept(sent, state, 0, Whole)
  BY <1>5, <1>6, <1>7, <1>8, <1>9, <1>10, <1>11 DEF Kept, WireTrue
<1>13. ~Completed
  BY <1>4 DEF Completed
<1>14. state = Drained(state)
  BY <1>5, StoredIsDrained
<1>15. ItemsTypes
  BY <1>1, <1>3, <1>5 DEF ItemsTypes
<1>16. StreamedTurn
  BY <1>1, <1>12, <1>13 DEF StreamedTurn
<1>17. BufferedTurn
  <2>1. sent \in Seq(Events) /\ state \in StateRecords /\ Kept(sent, state, 0, Whole)
        /\ state = Drained(state)
    BY <1>3, <1>5, <1>12, <1>14
  <2>2. \E p \in Seq(Events), s \in StateRecords :
            Kept(p, s, 0, Whole) /\ state = Drained(s) /\ (step = "reading" => p = sent /\ s = state)
    BY <2>1
  <2>3. \A i \in DOMAIN sent :
            sent[i].item = 0 /\ sent[i].kind # "done" /\ sent[i].kind # "completed"
    BY <1>4
  <2> QED
    BY <1>1, <2>2, <2>3 DEF BufferedTurn
<1> QED
  BY <1>15, <1>16, <1>17 DEF ItemsInv

\* What a streamed response sends.
LEMMA StreamedSends ==
    ASSUME ItemsInv, turn.transport # "buffered", NEW s, Kept(sent, s, 0, Whole), Send(s),
           UNCHANGED turn
    PROVE  /\ Kept(sent', state', 0, Whole') /\ sent' \in Seq(Events)
           /\ state' = Drained(s) /\ state'.pending = <<>>
           /\ Completed' => Completed
<1>1. sent \in Seq(Events)
  BY DEF ItemsInv, ItemsTypes
<1>2. PICK p : p = sent
  OBVIOUS
<1>3. PICK whole : whole = Whole
  OBVIOUS
<1>4. /\ Kept(p \o s.pending, Drained(s), 0, whole) /\ p \o s.pending \in Seq(Events)
      /\ \A i \in DOMAIN (p \o s.pending) :
            (p \o s.pending)[i].kind = "completed" => \E j \in DOMAIN p : p[j].kind = "completed"
  BY <1>1, <1>2, <1>3, SentIsKept
<1>5. sent' = p \o s.pending /\ state' = Drained(s)
  BY <1>2 DEF Send
<1>6. Whole' = whole
  BY <1>3 DEF Whole
<1>7. state'.pending = <<>>
  BY <1>5, ItemsOfKept, DrainedFields, <1>1
<1>8. Completed' => Completed
  BY <1>2, <1>4, <1>5 DEF Completed
<1> QED
  BY <1>4, <1>5, <1>6, <1>7, <1>8

\* A chunk is read.
LEMMA ReadChunkKeeps ==
    ASSUME ItemsInv, ReadChunk
    PROVE  ItemsInv'
<1>1. turn.transport # "buffered" /\ step = "reading" /\ UNCHANGED <<turn, step>>
  BY DEF ReadChunk
<1>2. Kept(sent, state, 0, Whole) /\ sent \in Seq(Events) /\ ~Completed
  BY <1>1 DEF ItemsInv, ItemsTypes, StreamedTurn
<1>3. PICK chunk \in IF turn.native THEN NativeEvents ELSE ChatChunks :
          Send(IF turn.native THEN DecodeNative(state, chunk[1]) ELSE Decoded(state, chunk))
  BY DEF ReadChunk
<1>4. PICK s : /\ s = (IF turn.native THEN DecodeNative(state, chunk[1]) ELSE Decoded(state, chunk))
               /\ Send(s)
  BY <1>3
<1>5. Kept(sent, s, 0, Whole)
  <2>1. CASE turn.native
    BY <1>2, <1>4, <2>1, KeptDecodeNative
  <2>2. CASE ~turn.native
    BY <1>2, <1>4, <2>2, KeptDecoded
  <2> QED
    BY <2>1, <2>2
<1>6. /\ Kept(sent', state', 0, Whole') /\ sent' \in Seq(Events) /\ state'.pending = <<>>
      /\ Completed' => Completed
  BY <1>1, <1>4, <1>5, StreamedSends
<1>7. ItemsTypes'
  BY <1>1, <1>6 DEF ItemsInv, ItemsTypes
<1>8. StreamedTurn'
  BY <1>1, <1>2, <1>6 DEF StreamedTurn
<1>9. BufferedTurn'
  BY <1>1 DEF BufferedTurn
<1> QED
  BY <1>7, <1>8, <1>9 DEF ItemsInv

\* The items are closed: none is left.
LEMMA CloseItemsKeeps ==
    ASSUME ItemsInv, CloseItems
    PROVE  ItemsInv'
<1>1. turn.transport # "buffered" /\ step = "reading" /\ step' = "closed" /\ UNCHANGED turn
  BY DEF CloseItems
<1>2. Kept(sent, state, 0, Whole) /\ sent \in Seq(Events) /\ ~Completed
  BY <1>1 DEF ItemsInv, ItemsTypes, StreamedTurn
<1> DEFINE kept == IF turn.transport = "http" THEN ApplyAllowed(state) ELSE state
           reasoned == FinishReasoning(kept)
           called == FinishCalls(reasoned)
<1>3. PICK s : s = FinishMessage(called) /\ Send(s)
  BY DEF CloseItems
<1>4. Kept(sent, kept, 0, Whole)
  BY <1>2, KeptApplyAllowed
<1> HIDE DEF kept
<1>5. Kept(sent, reasoned, 0, Whole) /\ reasoned.reasoning = 0
  BY <1>2, <1>4, KeptFinishReasoning
<1> HIDE DEF reasoned
<1>6. Kept(sent, called, 0, Whole) /\ called.reasoning = 0 /\ called.calls = <<>>
  BY <1>2, <1>5, KeptFinishCalls
<1> HIDE DEF called
<1>7. Kept(sent, s, 0, Whole) /\ Finished(s)
  BY <1>2, <1>3, <1>6, KeptFinishMessage DEF Finished
<1>8. /\ Kept(sent', state', 0, Whole') /\ sent' \in Seq(Events) /\ state'.pending = <<>>
      /\ state' = Drained(s) /\ (Completed' => Completed)
  BY <1>1, <1>3, <1>7, StreamedSends
<1>9. Finished(state')
  BY <1>7, <1>8, <1>2, ItemsOfKept, DrainedFields DEF Finished, SameButEvents
<1>10. ItemsTypes'
  BY <1>1, <1>8 DEF ItemsInv, ItemsTypes
<1>11. StreamedTurn'
  BY <1>1, <1>2, <1>8, <1>9 DEF StreamedTurn
<1>12. BufferedTurn'
  BY <1>1 DEF BufferedTurn
<1> QED
  BY <1>10, <1>11, <1>12 DEF ItemsInv

\* The end of the response is told.
LEMMA TellingKeeps ==
    ASSUME ItemsInv, turn.transport # "buffered", UNCHANGED turn,
           NEW n \in Nat, NEW kind \in {"completed", "failed"},
           Send(Make([state EXCEPT !.seq = n], kind, 0, 0, <<>>))
    PROVE  /\ Kept(sent', state', 0, Whole') /\ sent' \in Seq(Events) /\ state'.pending = <<>>
           /\ Finished(state) => Finished(state')
           /\ kind = "failed" => (Completed' => Completed)
<1>1. Kept(sent, state, 0, Whole) /\ sent \in Seq(Events) /\ state.pending = <<>>
  BY DEF ItemsInv, ItemsTypes, StreamedTurn
<1>2. PICK p, s, whole : p = sent /\ s = state /\ whole = Whole
  OBVIOUS
<1>3. PICK t : t = Make([s EXCEPT !.seq = n], kind, 0, 0, <<>>)
  OBVIOUS
<1>4. /\ Kept(p \o t.pending, Drained(t), 0, whole)
      /\ SameButEvents(s, Drained(t)) /\ Drained(t).pending = <<>>
      /\ \E e \in Events : e.kind = kind /\ p \o t.pending = Append(p, e)
  BY <1>1, <1>2, <1>3, ToldIsKept
<1>5. sent' = p \o t.pending /\ state' = Drained(t)
  BY <1>2, <1>3 DEF Send
<1>6. Whole' = whole
  BY <1>2 DEF Whole
<1>7. PICK e \in Events : e.kind = kind /\ sent' = Append(p, e)
  BY <1>4, <1>5
<1>8. PICK N \in Nat : /\ DOMAIN p = 1 .. N /\ DOMAIN Append(p, e) = 1 .. (N + 1)
                       /\ (\A i \in 1 .. N : Append(p, e)[i] = p[i]) /\ Append(p, e)[N + 1] = e
  BY <1>1, <1>2, Appended
<1>9. sent' \in Seq(Events)
  BY <1>1, <1>2, <1>7, Appended
<1>10. ASSUME kind = "failed", Completed' PROVE Completed
  <2>1. PICK i \in DOMAIN sent' : sent'[i].kind = "completed"
    BY <1>10 DEF Completed
  <2>2. i \in 1 .. (N + 1) /\ i # N + 1
    BY <1>7, <1>8, <1>10, <2>1
  <2>3. i \in DOMAIN p /\ p[i] = sent'[i]
    BY <1>7, <1>8, <2>2
  <2> QED
    BY <1>2, <2>1, <2>3 DEF Completed
<1>11. Finished(state) => Finished(state')
  BY <1>2, <1>4, <1>5 DEF Finished, SameButEvents
<1> QED
  BY <1>4, <1>5, <1>6, <1>9, <1>10, <1>11

\* The response is completed.
LEMMA CompleteKeeps ==
    ASSUME ItemsInv, Complete
    PROVE  ItemsInv'
<1>1. step = "closed" /\ step' = "told" /\ UNCHANGED turn
      /\ Send(Make(state, "completed", 0, 0, <<>>))
  BY DEF Complete
<1>2. turn.transport # "buffered"
  BY <1>1 DEF ItemsInv, BufferedTurn
<1>3. Kept(sent, state, 0, Whole) /\ sent \in Seq(Events) /\ Finished(state)
  BY <1>1, <1>2 DEF ItemsInv, ItemsTypes, StreamedTurn
<1>4. state \in StateRecords
  BY <1>3, ItemsOfKept
<1>5. state.seq \in Nat /\ [state EXCEPT !.seq = state.seq] = state
  BY <1>4 DEF StateRecords
<1>6. "completed" \in {"completed", "failed"}
      /\ Send(Make([state EXCEPT !.seq = state.seq], "completed", 0, 0, <<>>))
  BY <1>1, <1>5
<1>7. PICK n \in Nat : n = state.seq
  BY <1>5
<1>8. Send(Make([state EXCEPT !.seq = n], "completed", 0, 0, <<>>))
  BY <1>6, <1>7
<1>9. /\ Kept(sent', state', 0, Whole') /\ sent' \in Seq(Events) /\ state'.pending = <<>>
      /\ Finished(state) => Finished(state')
  BY <1>1, <1>2, <1>6, <1>8, TellingKeeps
<1>10. ItemsTypes'
  BY <1>1, <1>9 DEF ItemsInv, ItemsTypes
<1>11. StreamedTurn'
  BY <1>1, <1>3, <1>9 DEF StreamedTurn
<1>12. BufferedTurn'
  BY <1>1, <1>2 DEF BufferedTurn
<1> QED
  BY <1>10, <1>11, <1>12 DEF ItemsInv

\* The response has failed.
LEMMA TellFailureKeeps ==
    ASSUME ItemsInv, TellFailure
    PROVE  ItemsInv'
<1>1. turn.transport # "buffered" /\ step' = "ended" /\ UNCHANGED turn
      /\ Send(Make(IF turn.transport = "socket" THEN [state EXCEPT !.seq = 0] ELSE state,
                   "failed", 0, 0, <<>>))
  BY DEF TellFailure
<1>2. Kept(sent, state, 0, Whole) /\ sent \in Seq(Events) /\ (Completed => Finished(state))
  BY <1>1 DEF ItemsInv, ItemsTypes, StreamedTurn
<1>3. state \in StateRecords
  BY <1>2, ItemsOfKept
<1>4. state.seq \in Nat /\ [state EXCEPT !.seq = state.seq] = state
  BY <1>3 DEF StateRecords
<1>5. PICK n \in Nat : n = IF turn.transport = "socket" THEN 0 ELSE state.seq
  BY <1>4
<1>6. [state EXCEPT !.seq = n] =
          IF turn.transport = "socket" THEN [state EXCEPT !.seq = 0] ELSE state
  BY <1>4, <1>5
<1>7. Send(Make([state EXCEPT !.seq = n], "failed", 0, 0, <<>>)) /\ "failed" \in {"completed", "failed"}
  BY <1>1, <1>6
<1>8. /\ Kept(sent', state', 0, Whole') /\ sent' \in Seq(Events) /\ state'.pending = <<>>
      /\ Finished(state) => Finished(state')
      /\ Completed' => Completed
  BY <1>1, <1>7, TellingKeeps
<1>9. ItemsTypes'
  BY <1>1, <1>8 DEF ItemsInv, ItemsTypes
<1>10. StreamedTurn'
  BY <1>1, <1>2, <1>8 DEF StreamedTurn
<1>11. BufferedTurn'
  BY <1>1 DEF BufferedTurn
<1> QED
  BY <1>9, <1>10, <1>11 DEF ItemsInv

\* A response that is not streamed is made in one step.
LEMMA CompleteBufferedKeeps ==
    ASSUME ItemsInv, CompleteBuffered
    PROVE  ItemsInv'
<1>1. turn.transport = "buffered" /\ step = "reading" /\ step' = "told" /\ UNCHANGED <<turn, sent>>
  BY DEF CompleteBuffered
<1>2. Kept(sent, state, 0, Whole) /\ sent \in Seq(Events)
  BY <1>1 DEF ItemsInv, ItemsTypes, BufferedTurn
<1>3. PICK parts \in ChatChunks :
          LET decoded == Decoded(state, parts)
              reasoned == IF \E i \in DOMAIN parts : parts[i].op = "reasoning"
                          THEN FinishReasoning(decoded) ELSE decoded
          IN  state' = Drained(FinishMessage(FinishCalls(ApplyAllowed(reasoned))))
  BY DEF CompleteBuffered
<1> DEFINE decoded == Decoded(state, parts)
           reasoned == IF \E i \in DOMAIN parts : parts[i].op = "reasoning"
                       THEN FinishReasoning(decoded) ELSE decoded
           applied == ApplyAllowed(reasoned)
           called == FinishCalls(applied)
<1>4. state' = Drained(FinishMessage(called))
  BY <1>3
<1>5. Kept(sent, decoded, 0, Whole)
  BY <1>2, KeptDecoded
<1> HIDE DEF decoded
<1>6. Kept(sent, reasoned, 0, Whole)
  BY <1>2, <1>5, KeptFinishReasoning
<1> HIDE DEF reasoned
<1>7. Kept(sent, applied, 0, Whole)
  BY <1>2, <1>6, KeptApplyAllowed
<1> HIDE DEF applied
<1>8. Kept(sent, called, 0, Whole)
  BY <1>2, <1>7, KeptFinishCalls
<1> HIDE DEF called
<1>9. Kept(sent, FinishMessage(called), 0, Whole)
  BY <1>2, <1>8, KeptFinishMessage
<1>10. PICK p, s, whole : p = sent /\ s = FinishMessage(called) /\ whole = Whole
  OBVIOUS
<1>11. Kept(p, s, 0, whole) /\ p \in Seq(Events) /\ s \in StateRecords /\ state' = Drained(s)
  BY <1>2, <1>4, <1>9, <1>10, ItemsOfKept
<1>12. Whole' = whole
  BY <1>1, <1>10 DEF Whole
<1>13. state'.pending = <<>>
  BY <1>11, DrainedFields
<1>14. ItemsTypes'
  BY <1>1, <1>2, <1>13 DEF ItemsInv, ItemsTypes
<1>15. StreamedTurn'
  BY <1>1 DEF StreamedTurn
<1>16. BufferedTurn'
  <2>1. \A i \in DOMAIN sent :
            sent[i].item = 0 /\ sent[i].kind # "done" /\ sent[i].kind # "completed"
    BY <1>1 DEF ItemsInv, BufferedTurn
  <2>2. \E q \in Seq(Events), t \in StateRecords :
            Kept(q, t, 0, Whole') /\ state' = Drained(t) /\ (step' = "reading" => q = sent' /\ t = state')
    BY <1>1, <1>11, <1>12
  <2> QED
    BY <1>1, <2>1, <2>2 DEF BufferedTurn
<1> QED
  BY <1>14, <1>15, <1>16 DEF ItemsInv

\* Every step.
LEMMA ItemsInvStep ==
    ItemsInv /\ [ItemsNext]_ivars => ItemsInv'
<1> SUFFICES ASSUME ItemsInv, [ItemsNext]_ivars PROVE ItemsInv'
  OBVIOUS
<1>1. CASE ReadChunk
  BY <1>1, ReadChunkKeeps
<1>2. CASE CloseItems
  BY <1>2, CloseItemsKeeps
<1>3. CASE Complete
  BY <1>3, CompleteKeeps
<1>4. CASE TellFailure
  BY <1>4, TellFailureKeeps
<1>5. CASE CompleteBuffered
  BY <1>5, CompleteBufferedKeeps
<1>6. CASE UNCHANGED ivars
  BY <1>6 DEF ivars, ItemsInv, ItemsTypes, StreamedTurn, BufferedTurn, Completed, Finished, Whole
<1> QED
  BY <1>1, <1>2, <1>3, <1>4, <1>5, <1>6 DEF ItemsNext

-------------------------------------------------------------------------------
(* The theorems *)

\* A function whose domain begins at 1 and whose values are in S is a sequence of S.
LEMMA IsSeqOf ==
    ASSUME NEW S, NEW q, NEW n \in Nat, q = [i \in 1 .. n |-> q[i]], \A i \in 1 .. n : q[i] \in S
    PROVE  q \in Seq(S)
<1>1. q \in [1 .. n -> S]
  OBVIOUS
<1> QED
  BY <1>1, SeqDef

\* The types that Kept gives.
LEMMA TypesOfKept ==
    ASSUME NEW p, NEW s, NEW whole, Kept(p, s, 0, whole)
    PROVE  /\ s.message \in {0} \union 1 .. Len(s.texts)
           /\ s.reasoning \in {0} \union 1 .. Len(s.texts)
           /\ s.calls \in Seq([index : Nat, item : 1 .. Len(s.texts),
                               named : BOOLEAN, announced : BOOLEAN])
           /\ \A i, j \in DOMAIN s.calls : s.calls[i].index = s.calls[j].index => i = j
           /\ s.texts \in Seq(Seq(1 .. s.given))
           /\ s.index = Len(s.output)
<1>1. /\ s \in StateRecords /\ Distinct(s)
      /\ TextsTrue(p \o s.pending, s.texts, s.given)
      /\ OutputTrue(p \o s.pending, s.output, s.index)
      /\ OpenItems(s, 0) \subseteq DOMAIN s.texts
  BY DEF Kept, WireTrue, PhasesTrue
<1>2. /\ s.texts \in Seq(Seq(Nat)) /\ s.calls \in Seq(CallRecords)
      /\ s.message \in Nat /\ s.reasoning \in Nat /\ s.given \in Nat
  BY <1>1 DEF StateRecords
<1>3. DOMAIN s.texts = 1 .. Len(s.texts) /\ Len(s.texts) \in Nat
      /\ s.texts = [k \in 1 .. Len(s.texts) |-> s.texts[k]]
  BY <1>2, LenProperties
<1>4. DOMAIN s.calls = 1 .. Len(s.calls) /\ Len(s.calls) \in Nat
      /\ s.calls = [i \in 1 .. Len(s.calls) |-> s.calls[i]]
  BY <1>2, LenProperties
<1>5. s.message \in {0} \union 1 .. Len(s.texts) /\ s.reasoning \in {0} \union 1 .. Len(s.texts)
  <2>1. \A k \in {s.message, s.reasoning} \ {0} : k \in DOMAIN s.texts
    BY <1>1 DEF OpenItems
  <2> QED
    BY <2>1, <1>3
<1>6. s.texts \in Seq(Seq(1 .. s.given))
  <2>1. \A k \in 1 .. Len(s.texts) : s.texts[k] \in Seq(1 .. s.given)
    BY <1>1, <1>3 DEF TextsTrue
  <2> QED
    BY <2>1, <1>3, SeqDef
<1>7. s.calls \in Seq([index : Nat, item : 1 .. Len(s.texts), named : BOOLEAN, announced : BOOLEAN])
  <2>1. \A i \in 1 .. Len(s.calls) :
            s.calls[i] \in [index : Nat, item : 1 .. Len(s.texts), named : BOOLEAN, announced : BOOLEAN]
    <3> SUFFICES ASSUME NEW i \in 1 .. Len(s.calls)
                 PROVE  s.calls[i] \in [index : Nat, item : 1 .. Len(s.texts),
                                        named : BOOLEAN, announced : BOOLEAN]
      OBVIOUS
    <3>1. PICK call : call = s.calls[i]
      OBVIOUS
    <3>2. call \in CallRecords
      BY <1>2, <1>4, <3>1
    <3>3. call.item \in 1 .. Len(s.texts)
      BY <1>1, <1>3, <1>4, <3>1 DEF Distinct
    <3> QED
      BY <3>1, <3>2, <3>3 DEF CallRecords
  <2> HIDE DEF CallRecords
  <2> QED
    BY <2>1, <1>4, IsSeqOf
<1>8. \A i, j \in DOMAIN s.calls : s.calls[i].index = s.calls[j].index => i = j
  BY <1>1 DEF Distinct
<1>9. s.index = Len(s.output)
  BY <1>1 DEF OutputTrue
<1> QED
  BY <1>5, <1>6, <1>7, <1>8, <1>9

\* The invariant gives the types.
LEMMA InvGivesTypes ==
    ItemsInv => ItemsTypeOK
<1> SUFFICES ASSUME ItemsInv PROVE ItemsTypeOK
  OBVIOUS
<1>1. ItemsTypes
  BY DEF ItemsInv
<1>2. \E p, s : /\ Kept(p, s, 0, Whole)
                /\ state.message = s.message /\ state.reasoning = s.reasoning
                /\ state.calls = s.calls /\ state.texts = s.texts /\ state.given = s.given
                /\ state.index = s.index /\ state.output = s.output
  <2>1. CASE turn.transport # "buffered"
    <3>1. Kept(sent, state, 0, Whole)
      BY <2>1 DEF ItemsInv, StreamedTurn
    <3> QED
      BY <3>1
  <2>2. CASE turn.transport = "buffered"
    <3>1. \E p \in Seq(Events), s \in StateRecords : Kept(p, s, 0, Whole) /\ state = Drained(s)
      BY <2>2 DEF ItemsInv, BufferedTurn
    <3>2. PICK p \in Seq(Events), s \in StateRecords : Kept(p, s, 0, Whole) /\ state = Drained(s)
      BY <3>1
    <3>3. SameButEvents(s, Drained(s))
      BY <3>2, DrainedFields
    <3> QED
      BY <3>2, <3>3 DEF SameButEvents
  <2> QED
    BY <2>1, <2>2
<1>3. PICK p, s : /\ Kept(p, s, 0, Whole)
                  /\ state.message = s.message /\ state.reasoning = s.reasoning
                  /\ state.calls = s.calls /\ state.texts = s.texts /\ state.given = s.given
                  /\ state.index = s.index /\ state.output = s.output
  BY <1>2
<1>4. /\ s.message \in {0} \union 1 .. Len(s.texts)
      /\ s.reasoning \in {0} \union 1 .. Len(s.texts)
      /\ s.calls \in Seq([index : Nat, item : 1 .. Len(s.texts), named : BOOLEAN, announced : BOOLEAN])
      /\ \A i, j \in DOMAIN s.calls : s.calls[i].index = s.calls[j].index => i = j
      /\ s.texts \in Seq(Seq(1 .. s.given))
      /\ s.index = Len(s.output)
  BY <1>3, TypesOfKept
<1> QED
  BY <1>1, <1>3, <1>4 DEF ItemsTypeOK, ItemsTypes, ItemsMade

\* What a streamed turn has sent.
LEMMA StreamedWire ==
    ASSUME ItemsInv, turn.transport # "buffered"
    PROVE  /\ WireTrue(sent, state.texts, state.given, state.output, state.index,
                       OpenItems(state, 0), SecretItems(state, 0), Whole)
           /\ DOMAIN state.texts = ItemsMade /\ ItemsMade \subseteq Nat \ {0}
           /\ sent \in Seq(Events) /\ DOMAIN sent \subseteq Nat /\ IsFiniteSet(DOMAIN sent)
<1>1. Kept(sent, state, 0, Whole) /\ sent \in Seq(Events) /\ state.pending = <<>>
  BY DEF ItemsInv, StreamedTurn, ItemsTypes
<1>2. sent \o <<>> = sent
  BY <1>1, ConcatEmptySeq
<1>3. state.texts \in Seq(Seq(Nat))
  BY <1>1 DEF Kept, StateRecords
<1>4. DOMAIN state.texts = 1 .. Len(state.texts) /\ Len(state.texts) \in Nat
  BY <1>3, LenProperties
<1>5. DOMAIN sent = 1 .. Len(sent) /\ Len(sent) \in Nat
  BY <1>1, LenProperties
<1>6. IsFiniteSet(1 .. Len(sent))
  BY <1>5, FS_Interval
<1> QED
  BY <1>1, <1>2, <1>4, <1>5, <1>6 DEF Kept, ItemsMade

\* A response that is not streamed tells of no item.
LEMMA BufferedTellsNothing ==
    ASSUME ItemsInv, turn.transport = "buffered"
    PROVE  \A i \in DOMAIN sent :
              sent[i].item = 0 /\ sent[i].kind # "done" /\ sent[i].kind # "completed"
BY DEF ItemsInv, BufferedTurn

\* The invariant keeps the events of an item inside it.
LEMMA InvGivesInside ==
    ItemsInv => EventsAreInsideTheirItem
<1> SUFFICES ASSUME ItemsInv, NEW item \in ItemsMade, NEW i \in DOMAIN sent, sent[i].item = item
             PROVE  /\ Cardinality(FramesOf("added", item)) = 1
                    /\ Cardinality(FramesOf("done", item)) <= 1
                    /\ \A a \in FramesOf("added", item) : a <= i
                    /\ \A d \in FramesOf("done", item) : i <= d
  BY DEF EventsAreInsideTheirItem
<1>1. turn.transport # "buffered"
  <2>1. item # 0
    BY DEF ItemsMade
  <2> QED
    BY <2>1, BufferedTellsNothing
<1>2. PhasesTrue(sent, state.texts, OpenItems(state, 0), SecretItems(state, 0), Whole)
      /\ item \in DOMAIN state.texts /\ DOMAIN sent \subseteq Nat
  BY <1>1, StreamedWire DEF WireTrue
<1>3. ItemOpen(sent, item) \/ Closed(sent, item)
  BY <1>2 DEF PhasesTrue, Hidden
<1>4. PICK a : BeginsAt(sent, item, a)
  BY <1>3 DEF ItemOpen, Closed, Begun
<1>5. FramesOf("added", item) = {a}
  BY <1>4 DEF BeginsAt, FramesOf
<1>6. Cardinality(FramesOf("added", item)) = 1
  BY <1>5, FS_Singleton
<1>7. \A b \in FramesOf("added", item) : b <= i
  BY <1>4, <1>5 DEF BeginsAt
<1>8. Cardinality(FramesOf("done", item)) <= 1 /\ \A d \in FramesOf("done", item) : i <= d
  <2>1. CASE ItemOpen(sent, item)
    <3>1. FramesOf("done", item) = {}
      BY <2>1 DEF ItemOpen, FramesOf
    <3> QED
      BY <3>1, FS_EmptySet
  <2>2. CASE Closed(sent, item)
    <3>1. PICK d : EndsAt(sent, item, d)
      BY <2>2 DEF Closed
    <3>2. FramesOf("done", item) = {d}
      BY <3>1 DEF EndsAt, FramesOf
    <3>3. i <= d
      BY <3>1 DEF EndsAt
    <3>4. Cardinality({d}) = 1
      BY FS_Singleton
    <3>5. Cardinality(FramesOf("done", item)) <= 1
      BY <3>2, <3>4
    <3> QED
      BY <3>2, <3>3, <3>5
  <2> QED
    BY <1>3, <2>1, <2>2
<1> QED
  BY <1>6, <1>7, <1>8

\* The invariant makes the deltas add up.
LEMMA InvGivesSums ==
    ItemsInv => DeltasAddUp
<1> SUFFICES ASSUME ItemsInv, NEW item \in ItemsMade, NEW d \in FramesOf("done", item)
             PROVE  /\ AddedUp(sent, item) = sent[d].text
                    /\ \A i \in DOMAIN state.output :
                          state.output[i].item = item => state.output[i].text = sent[d].text
  BY DEF DeltasAddUp
<1>1. d \in DOMAIN sent /\ sent[d].kind = "done" /\ sent[d].item = item
  BY DEF FramesOf
<1>2. turn.transport # "buffered"
  BY <1>1, BufferedTellsNothing
<1>3. TextsTrue(sent, state.texts, state.given) /\ OutputTrue(sent, state.output, state.index)
      /\ item \in DOMAIN state.texts
  BY <1>2, StreamedWire DEF WireTrue
<1>4. AddedUp(sent, item) = state.texts[item] /\ sent[d].text = state.texts[item]
  BY <1>1, <1>3 DEF TextsTrue
<1>5. ASSUME NEW i \in DOMAIN state.output, state.output[i].item = item
      PROVE  state.output[i].text = sent[d].text
  <2>1. PICK e \in DOMAIN sent : sent[e].kind = "done" /\ sent[e].index + 1 = i
    BY <1>3 DEF OutputTrue
  <2>2. state.output[i] = [item |-> sent[e].item, text |-> sent[e].text]
    BY <1>3, <2>1 DEF OutputTrue
  <2>3. sent[e].item = item /\ state.output[i].text = sent[e].text
    BY <1>5, <2>2
  <2>4. sent[e].text = state.texts[item]
    BY <1>3, <2>1, <2>3 DEF TextsTrue
  <2> QED
    BY <1>4, <2>3, <2>4
<1> QED
  BY <1>4, <1>5

\* The invariant makes the output what ended.
LEMMA InvGivesOutput ==
    ItemsInv => OutputIsWhatEnded
<1> DEFINE Ends == {i \in DOMAIN sent : sent[i].kind = "done"}
<1> SUFFICES ASSUME ItemsInv, Completed
             PROVE  /\ {sent[d].index + 1 : d \in Ends} = DOMAIN state.output
                    /\ \A d \in Ends : state.output[sent[d].index + 1].item = sent[d].item
                    /\ \A d, e \in Ends : d < e => sent[d].index < sent[e].index
                    /\ ~turn.limited =>
                          \A i \in DOMAIN sent : sent[i].item \in {sent[d].item : d \in Ends} \union {0}
  BY DEF OutputIsWhatEnded, Completed
<1>1. turn.transport # "buffered"
  BY BufferedTellsNothing DEF Completed
<1>2. /\ OutputTrue(sent, state.output, state.index)
      /\ PhasesTrue(sent, state.texts, OpenItems(state, 0), SecretItems(state, 0), Whole)
  BY <1>1, StreamedWire DEF WireTrue
<1>3. Finished(state)
  BY <1>1 DEF ItemsInv, StreamedTurn
<1>4. OpenItems(state, 0) = {}
  <2>1. state.calls = <<>> /\ DOMAIN <<>> = {}
    BY <1>3, EmptySeq DEF Finished
  <2> QED
    BY <1>3, <2>1 DEF Finished, OpenItems
<1>5. {sent[d].index + 1 : d \in Ends} = DOMAIN state.output
  <2>1. \A d \in Ends : sent[d].index + 1 \in DOMAIN state.output
    BY <1>2 DEF OutputTrue
  <2>2. \A i \in DOMAIN state.output : \E d \in Ends : sent[d].index + 1 = i
    BY <1>2 DEF OutputTrue
  <2> QED
    BY <2>1, <2>2
<1>6. \A d \in Ends : state.output[sent[d].index + 1].item = sent[d].item
  <2> SUFFICES ASSUME NEW d \in Ends PROVE state.output[sent[d].index + 1].item = sent[d].item
    OBVIOUS
  <2>1. d \in DOMAIN sent /\ sent[d].kind = "done"
    OBVIOUS
  <2>2. state.output[sent[d].index + 1] = [item |-> sent[d].item, text |-> sent[d].text]
    BY <1>2, <2>1 DEF OutputTrue
  <2> QED
    BY <2>2
<1>7. \A d, e \in Ends : d < e => sent[d].index < sent[e].index
  BY <1>2 DEF OutputTrue
<1>8. ASSUME ~turn.limited, NEW i \in DOMAIN sent, sent[i].item # 0
      PROVE  sent[i].item \in {sent[d].item : d \in Ends}
  <2>1. PICK k : k = sent[i].item
    OBVIOUS
  <2>2. k \in DOMAIN state.texts
    BY <1>2, <1>8, <2>1 DEF PhasesTrue
  <2>3. ~Hidden(sent, k)
    BY <1>8, <2>1 DEF Hidden
  <2>4. ~ItemOpen(sent, k)
    BY <1>2, <1>4, <1>8, <2>2 DEF PhasesTrue, Whole
  <2>5. Closed(sent, k)
    BY <1>2, <2>2, <2>3, <2>4 DEF PhasesTrue
  <2>6. PICK d : EndsAt(sent, k, d)
    BY <2>5 DEF Closed
  <2> QED
    BY <2>1, <2>6 DEF EndsAt
<1> QED
  BY <1>5, <1>6, <1>7, <1>8

\* Every state of a response has its types: an item open is one that was made, no two calls
\* have one index, every delta of a text was received, and nothing waits to be sent.
THEOREM ItemsTypeCorrect == ItemsSpec => []ItemsTypeOK
<1> QED
  BY ItemsInvInit, ItemsInvStep, InvGivesTypes, PTL DEF ItemsSpec

\* The events of an item lie between its announcement and its end, whatever else is open:
\* reasoning, a message and any number of calls whose deltas alternate (translator.py).
THEOREM EventsAreInside == ItemsSpec => []EventsAreInsideTheirItem
<1> QED
  BY ItemsInvInit, ItemsInvStep, InvGivesInside, PTL DEF ItemsSpec

\* The deltas of an item add up to the text it ends with, which the output carries.
THEOREM DeltasAreTheText == ItemsSpec => []DeltasAddUp
<1> QED
  BY ItemsInvInit, ItemsInvStep, InvGivesSums, PTL DEF ItemsSpec

\* When the response is completed its output is what the client saw end, at the index and in
\* the order it was told, and nothing it saw begin is missing but a call that is not allowed.
THEOREM CompletedOutput == ItemsSpec => []OutputIsWhatEnded
<1> QED
  BY ItemsInvInit, ItemsInvStep, InvGivesOutput, PTL DEF ItemsSpec

===============================================================================
