-------------------------- MODULE AgentSlots_proofs --------------------------
(***************************************************************************)
(* Type correctness of AgentSlots, the accounting and the capacity of its  *)
(* slots, who returns each slot, and how often and until when a request    *)
(* reaches the LLM, for every set of operations, every number of tokens,   *)
(* stoppers and generations and every capacity.                            *)
(***************************************************************************)
EXTENDS AgentSlots, FiniteSetTheorems, TLAPS

(* The counter never goes below zero.                                      *)
LEMMA DecrementedRange ==
    ASSUME NEW n \in 0..Capacity PROVE Decremented(n) \in 0..Capacity
BY SlotAssumption DEF Decremented

(* finish_operation keeps the registry's records well typed.               *)
LEMMA FinishedAsType ==
    ASSUME NEW op \in Operations, NEW outcome \in Finished
    PROVE  FinishedAs(op, outcome) \in Operations
BY DEF FinishedAs, Operations, Finished, Unfinished

(* What finish_operation leaves: a final outcome and no timer of its own.  *)
LEMMA FinishedAsFields ==
    ASSUME NEW op \in Operations, NEW outcome \in Finished
    PROVE  LET r == FinishedAs(op, outcome) IN
             /\ r.status = IF op.status \in Unfinished THEN outcome ELSE op.status
             /\ r.token = op.token /\ (r.timer => op.timer)
BY DEF FinishedAs, Operations, Finished, Unfinished

(* The records an operation starts from are well typed.                    *)
LEMMA EmptyRecords == 0 \in Gens /\ Idle \in Handlers /\ NoOp \in Operations
BY SlotAssumption DEF Idle, NoOp, Handlers, Operations, Gens, MaxIdleRetries

(* Every variable keeps its type, and the slot counter stays between zero  *)
(* and the capacity: an acceptance checks it, a return never goes below.   *)
THEOREM TypeCorrect == Spec => []TypeOK
<1>1. Init => TypeOK
  <2> SUFFICES ASSUME Init PROVE TypeOK
    OBVIOUS
  <2>1. ops \in [Ops -> Operations] /\ handler \in [Ops -> Handlers]
    BY EmptyRecords DEF Init
  <2>2. /\ spent \in [Ops -> SUBSET Tokens] /\ contacts \in [Ops -> Nat]
        /\ stopGen \in [Stoppers -> Gens]
    BY EmptyRecords DEF Init
  <2>3. config \in Gens /\ latest \in Gens /\ overlap \in BOOLEAN /\ starting \in BOOLEAN
    BY EmptyRecords DEF Init
  <2>4. active \in 0..Capacity
    BY SlotAssumption DEF Init
  <2>5. gapHit \subseteq Ops
    BY Zenon DEF Init
  <2> QED BY <2>1, <2>2, <2>3, <2>4, <2>5 DEF TypeOK
<1>2. TypeOK /\ [Next]_vars => TypeOK'
  <2> SUFFICES ASSUME TypeOK, [Next]_vars PROVE TypeOK'
    OBVIOUS
  <2> USE SlotAssumption, EmptyRecords DEF TypeOK
  <2>1. ASSUME NEW g \in Gens, StartServer(g) PROVE TypeOK'
    BY <2>1 DEF StartServer
  <2>22. CASE StartReady \/ StartFails
    BY <2>22 DEF StartReady, StartFails
  <2>2. ASSUME NEW s \in Stoppers, StopBegin(s) PROVE TypeOK'
    <3>1. ops' \in [Ops -> Operations]
      BY <2>2, FinishedAsType DEF StopBegin, FenceOperations, Finished
    <3> QED BY <2>2, <3>1 DEF StopBegin, FenceOperations
  <2>3. ASSUME NEW s \in Stoppers, StopEnd(s) PROVE TypeOK'
    BY <2>3 DEF StopEnd
  <2>4. ASSUME NEW o \in ReservedOps, NEW t \in Tokens, TryReserve(o, t) PROVE TypeOK'
    <3>1. o \in Ops BY DEF Ops
    <3>2. ops' \in [Ops -> Operations]
      BY <2>4, <3>1 DEF TryReserve, Operations, Unfinished
    <3>3. active' \in 0..Capacity BY <2>4 DEF TryReserve, SlotFree
    <3> QED BY <2>4, <3>1, <3>2, <3>3 DEF TryReserve
  <2>5. ASSUME NEW o \in ReservedOps, NEW t \in Tokens, Consume(o, t) PROVE TypeOK'
    <3>1. o \in Ops BY DEF Ops
    <3>2. ops' \in [Ops -> Operations]
      BY <2>5, <3>1 DEF Consume, Operations, Unfinished
    <3>3. handler' \in [Ops -> Handlers]
      BY <2>5, <3>1 DEF Consume, Handlers, Idle
    <3> QED BY <2>5, <3>2, <3>3 DEF Consume
  <2>6. ASSUME NEW o \in Ops, ReleaseSlot(o)
        PROVE  ops' \in [Ops -> Operations] /\ active' \in 0..Capacity
    BY <2>6, FinishedAsType, DecrementedRange DEF ReleaseSlot, Finished
  <2>7. ASSUME NEW o \in Ops PROVE WithGap(o) \subseteq Ops
    BY <2>7 DEF WithGap
  <2>8. ASSUME NEW o \in Ops, NEW t \in Tokens, CancelOperation(o, t) PROVE TypeOK'
    <3>1. CASE ReleaseSlot(o) /\ UNCHANGED gapHit
      BY <2>8, <3>1, <2>6 DEF CancelOperation
    <3>2. CASE /\ ops' = [ops EXCEPT ![o].status = "cancelling"]
               /\ gapHit' = WithGap(o) /\ UNCHANGED active
      <4>1. ops' \in [Ops -> Operations] BY <3>2 DEF Operations, Unfinished
      <4> QED BY <2>8, <3>2, <4>1, <2>7 DEF CancelOperation
    <3> QED BY <2>8, <3>1, <3>2 DEF CancelOperation
  <2>9. ASSUME NEW o \in Ops, ExpireReservation(o) PROVE TypeOK'
    <3>1. CASE Pending(o)
      BY <2>9, <3>1, <2>6 DEF ExpireReservation
    <3>2. CASE ~Pending(o)
      <4>1. ops' \in [Ops -> Operations]
        <5>1. ops' = [ops EXCEPT ![o].timer = FALSE]
          BY <2>9, <3>2 DEF ExpireReservation
        <5>2. [ops[o] EXCEPT !.timer = FALSE] \in Operations
          BY DEF Operations
        <5> QED BY <5>1, <5>2
      <4> QED BY <2>9, <3>2, <4>1, <2>7 DEF ExpireReservation
    <3> QED BY <3>1, <3>2
  <2>10. ASSUME NEW o \in Ops, BindAndContact(o)
         PROVE  /\ ops' \in [Ops -> Operations]
                /\ handler' \in [Ops -> Handlers]
                /\ contacts' \in [Ops -> Nat]
    <3>1. ops' \in [Ops -> Operations]
      BY <2>10 DEF BindAndContact, Operations
    <3>2. handler' \in [Ops -> Handlers]
      BY SMTT(20), <2>10 DEF BindAndContact, Handlers
    <3> QED BY <2>10, <3>1, <3>2 DEF BindAndContact
  <2>11. ASSUME NEW o \in Ops, Bind(o) \/ PlainResume(o) PROVE TypeOK'
    <3>1. CASE BindAndContact(o)
      BY <2>11, <3>1, <2>10 DEF Bind, PlainResume
    <3>2. CASE ~BindAndContact(o)
      <4>1. [handler EXCEPT ![o].pc = "closing", ![o].outcome = "cancelled"]
               \in [Ops -> Handlers]
        BY ZenonT(30) DEF Handlers
      <4>2. [handler EXCEPT ![o] = Idle] \in [Ops -> Handlers]
        OBVIOUS
      <4>3. handler' \in [Ops -> Handlers]
        BY <2>11, <3>2, <4>1, <4>2 DEF Bind, PlainResume
      <4> QED BY <2>11, <3>2, <4>3 DEF Bind, PlainResume
    <3> QED BY <3>1, <3>2
  <2>12. ASSUME NEW o \in Ops, AbandonBeforeBind(o) PROVE TypeOK'
    <3>1. handler' \in [Ops -> Handlers]
      BY <2>12 DEF AbandonBeforeBind
    <3> QED BY <2>12, <3>1 DEF AbandonBeforeBind
  <2>13. ASSUME NEW o \in Ops, NEW op \in Operations, SlotFree, TakeSlot(o, op)
         PROVE  /\ ops' \in [Ops -> Operations]
                /\ handler' \in [Ops -> Handlers]
                /\ contacts' \in [Ops -> Nat]
                /\ active' \in 0..Capacity
                /\ overlap' \in BOOLEAN
    <3>1. ops' \in [Ops -> Operations]
      BY <2>13 DEF TakeSlot, Operations, Unfinished
    <3>2. handler' \in [Ops -> Handlers]
      <4>1. PICK pc \in {"admitted", "running"} :
               handler' = [handler EXCEPT ![o] = [Idle EXCEPT !.pc = pc, !.gen = config]]
        BY <2>13 DEF TakeSlot
      <4>2. [Idle EXCEPT !.pc = pc, !.gen = config] \in Handlers
        BY DEF Handlers, Idle
      <4> QED BY <4>1, <4>2
    <3> QED BY <2>13, <3>1, <3>2 DEF TakeSlot, SlotFree
  <2>14. ASSUME NEW o \in PlainOps, PlainArrive(o) PROVE TypeOK'
    <3>1. o \in Ops BY DEF Ops
    <3> DEFINE op == [NoOp EXCEPT !.status = "queued", !.gen = config]
    <3>2. op \in Operations BY DEF NoOp, Operations, Unfinished
    <3> HIDE DEF op
    <3>3. CASE SlotFree /\ TakeSlot(o, op)
      BY <2>14, <3>1, <3>2, <3>3, <2>13 DEF PlainArrive
    <3>4. CASE ~SlotFree
      <4>1. ops' \in [Ops -> Operations]
        BY <2>14, <3>1, <3>2, <3>4 DEF PlainArrive, op
      <4>2. handler' \in [Ops -> Handlers]
        <5> DEFINE h == [Idle EXCEPT !.pc = "waiting", !.gen = config]
        <5>1. h \in Handlers BY DEF Handlers, Idle
        <5> HIDE DEF h
        <5>2. handler' = [handler EXCEPT ![o] = h]
          BY <2>14, <3>4 DEF PlainArrive, h
        <5> QED BY <3>1, <5>1, <5>2
      <4> QED BY <2>14, <3>4, <4>1, <4>2 DEF PlainArrive
    <3> QED BY <2>14, <3>3, <3>4 DEF PlainArrive, op
  <2>15. ASSUME NEW o \in Ops, PlainAdmit(o) PROVE TypeOK'
    BY <2>15, <2>13 DEF PlainAdmit
  <2>16. ASSUME NEW o \in Ops, PlainGiveUp(o) PROVE TypeOK'
    <3>1. ops' \in [Ops -> Operations]
      BY <2>16, FinishedAsType DEF PlainGiveUp, Finished
    <3>2. handler' \in [Ops -> Handlers]
      BY <2>16 DEF PlainGiveUp
    <3> QED BY <2>16, <3>1, <3>2 DEF PlainGiveUp
  <2>17. ASSUME NEW o \in Ops, NEW outcome \in Finished,
                UpstreamEnds(o, outcome) \/ Interrupted(o)
         PROVE  TypeOK'
    <3>1. handler' \in [Ops -> Handlers]
      <4>1. PICK c \in Finished :
               handler' = [handler EXCEPT ![o].pc = "closing", ![o].outcome = c]
        BY <2>17 DEF UpstreamEnds, Interrupted, Finished
      <4>2. [handler[o] EXCEPT !.pc = "closing", !.outcome = c] \in Handlers
        BY DEF Handlers, Finished
      <4> QED BY <4>1, <4>2
    <3> QED BY <2>17, <3>1 DEF UpstreamEnds, Interrupted
  <2>18. ASSUME NEW o \in Ops, ConnectionFinished(o) PROVE TypeOK'
    <3>1. handler[o].outcome \in Finished BY DEF Handlers, Finished
    <3>2. ops' \in [Ops -> Operations]
      BY <2>18, <3>1, FinishedAsType DEF ConnectionFinished
    <3>3. handler' \in [Ops -> Handlers]
      BY <2>18 DEF ConnectionFinished
    <3> QED BY <2>18, <3>2, <3>3, DecrementedRange DEF ConnectionFinished
  <2>19. CASE UNCHANGED vars
    BY <2>19 DEF vars
  <2>20. "cancelled" \in Finished BY DEF Finished
  <2>21. ASSUME NEW o \in Ops, IdleRetry(o) PROVE TypeOK'
    <3>1. handler' \in [Ops -> Handlers]
      <4>1. [handler[o] EXCEPT !.retries = @ + 1] \in Handlers
        BY SMTT(20), <2>21 DEF IdleRetry, Replayable, Handlers, MaxIdleRetries
      <4> QED BY <2>21, <4>1 DEF IdleRetry
    <3> QED BY <2>21, <3>1 DEF IdleRetry
  <2> QED
    BY <2>1, <2>2, <2>3, <2>4, <2>5, <2>8, <2>9, <2>11, <2>12, <2>14, <2>15, <2>16,
       <2>17, <2>18, <2>19, <2>20, <2>21, <2>22
    DEF Next, Process, Callers, Progress
<1> QED BY <1>1, <1>2, PTL DEF Spec

-------------------------------------------------------------------------------
(* What the registry and the dispatch coroutine of one operation tell of   *)
(* each other.                                                             *)
ShapeOf(o) ==
    /\ handler[o].gen <= latest
    /\ ops[o].status = "queued" => handler[o].pc = "waiting"
    /\ handler[o].pc = "waiting" => ops[o].status \in {"queued", "cancelling", "failed"}
    /\ handler[o].pc \notin {"idle", "waiting"} =>
          ops[o].status \in {"active", "cancelling", "failed"}
    /\ ops[o].timer => handler[o].pc \in {"idle", "consumed"}
    /\ handler[o].pc \in {"waiting", "admitted"} => ops[o].token = NoToken

Shape == config <= latest /\ \A o \in Ops : ShapeOf(o)

(* A step that touches one operation only preserves the shape of the rest. *)
LEMMA ShapeElsewhere ==
    ASSUME Shape, NEW o \in Ops, UNCHANGED <<config, latest>>,
           \A p \in Ops \ {o} : ops'[p] = ops[p] /\ handler'[p] = handler[p],
           ShapeOf(o)'
    PROVE  Shape'
<1>1. ASSUME NEW p \in Ops, p # o PROVE ShapeOf(p)'
  BY <1>1 DEF Shape, ShapeOf
<1> QED BY <1>1 DEF Shape

(* A released operation has no dispatch, so whatever it becomes fits. *)
LEMMA ReleaseShape ==
    ASSUME NEW o \in Ops, ops \in [Ops -> Operations], ReleaseSlot(o), ShapeOf(o),
           handler[o].pc = "idle", ops[o].status # "queued", UNCHANGED <<handler, latest>>
    PROVE  ShapeOf(o)'
<1>1. ops[o] \in Operations /\ ops'[o] = FinishedAs(ops[o], "cancelled")
  BY DEF ReleaseSlot
<1>2. ops'[o].status # "queued"
  BY <1>1 DEF FinishedAs, Operations, Unfinished
<1> QED BY <1>2 DEF ShapeOf

(* A slot taken without a reservation. *)
LEMMA TakeSlotShape ==
    ASSUME NEW o \in Ops, NEW op \in Operations, TakeSlot(o, op), op.token = NoToken, op.timer = FALSE,
           ops \in [Ops -> Operations], handler \in [Ops -> Handlers],
           config <= latest, UNCHANGED latest
    PROVE  ShapeOf(o)'
<1>1. PICK pc \in {"admitted", "running"} :
         handler' = [handler EXCEPT ![o] = [Idle EXCEPT !.pc = pc, !.gen = config]]
  BY DEF TakeSlot
<1>2. handler'[o].pc = pc /\ handler'[o].gen = config
  BY <1>1 DEF Idle
<1>3. ops'[o] = [op EXCEPT !.status = "active"]
  BY DEF TakeSlot
<1>4. ops'[o].status = "active" /\ ops'[o].token = NoToken /\ ops'[o].timer = FALSE
  BY <1>3 DEF Operations
<1> QED BY <1>2, <1>4 DEF ShapeOf

(* A dispatch under way belongs to an operation that has not been          *)
(* forgotten, its generation is not a future one, and a timer never        *)
(* outlives the moment a dispatch binds itself.                            *)
THEOREM ShapeCorrect == Spec => []Shape
<1>1. Init => Shape
  BY SlotAssumption DEF Init, Shape, ShapeOf, NoOp, Idle, Gens
<1>2. TypeOK /\ TypeOK' /\ Shape /\ [Next]_vars => Shape'
  <2> SUFFICES ASSUME TypeOK, TypeOK', Shape, [Next]_vars PROVE Shape'
    OBVIOUS
  <2> USE SlotAssumption
  <2>0. /\ config \in Nat /\ latest \in Nat /\ config <= latest
        /\ \A o \in Ops : ops[o] \in Operations /\ handler[o] \in Handlers /\ ShapeOf(o)
        /\ ops \in [Ops -> Operations] /\ handler \in [Ops -> Handlers]
    BY DEF TypeOK, Gens, Shape
  <2>1. ASSUME NEW g \in Gens, StartServer(g) PROVE Shape'
    BY <2>1, <2>0 DEF StartServer, Shape, ShapeOf, Handlers, Gens
  <2>18. CASE StartReady \/ StartFails
    BY <2>18, <2>0 DEF StartReady, StartFails, Shape, ShapeOf
  <2>2. ASSUME NEW s \in Stoppers, StopBegin(s) PROVE Shape'
    <3>1. ASSUME NEW o \in Ops PROVE ShapeOf(o)'
      BY <2>2, <2>0, <3>1
      DEF StopBegin, FenceOperations, FinishedAs, ShapeOf, Unfinished, Operations
    <3> QED BY <2>2, <2>0, <3>1 DEF StopBegin, Shape
  <2>3. ASSUME NEW s \in Stoppers, StopEnd(s) PROVE Shape'
    BY <2>3, <2>0 DEF StopEnd, Shape, ShapeOf, Gens
  <2>4. ASSUME NEW o \in ReservedOps, NEW t \in Tokens, TryReserve(o, t) PROVE Shape'
    <3>1. o \in Ops BY <2>4 DEF Ops
    <3>2. ShapeOf(o)' BY <2>4, <3>1, <2>0 DEF TryReserve, Reservable, ShapeOf, Operations, Handlers
    <3>3. /\ UNCHANGED <<config, latest>>
          /\ \A p \in Ops \ {o} : ops'[p] = ops[p] /\ handler'[p] = handler[p]
      BY <2>4, <3>1, <2>0 DEF TryReserve, Reservable
    <3> QED BY <3>1, <3>2, <3>3, ShapeElsewhere
  <2>5. ASSUME NEW o \in ReservedOps, NEW t \in Tokens, Consume(o, t) PROVE Shape'
    <3>1. o \in Ops BY <2>5 DEF Ops
    <3>2. ShapeOf(o)' BY <2>5, <3>1, <2>0 DEF Consume, Consumable, Idle, ShapeOf, Operations, Handlers
    <3>3. /\ UNCHANGED <<config, latest>>
          /\ \A p \in Ops \ {o} : ops'[p] = ops[p] /\ handler'[p] = handler[p]
      BY <2>5, <3>1, <2>0 DEF Consume, Consumable, Idle
    <3> QED BY <3>1, <3>2, <3>3, ShapeElsewhere
  <2>6. ASSUME NEW o \in Ops, NEW t \in Tokens, CancelOperation(o, t) PROVE Shape'
    <3>1. /\ o \in Ops /\ ShapeOf(o) /\ ops[o] \in Operations /\ handler[o] \in Handlers
          /\ ops \in [Ops -> Operations] /\ handler \in [Ops -> Handlers]
          /\ config \in Nat /\ latest \in Nat /\ config <= latest
      BY <2>6, <2>0 DEF Ops
    <3>2. ShapeOf(o)'
      <4>1. CASE Pending(o) /\ ops[o].token = t /\ ReleaseSlot(o)
        <5>1. handler[o].pc = "idle" /\ ops[o].status # "queued"
          BY <3>1, <4>1 DEF Pending, TaskDone, ShapeOf
        <5> QED BY <2>6, <3>1, <4>1, <5>1, ReleaseShape DEF CancelOperation
      <4>2. CASE /\ ops[o].status \in {"queued", "active"}
                 /\ ops' = [ops EXCEPT ![o].status = "cancelling"]
        BY <2>6, <3>1, <4>2 DEF CancelOperation, ShapeOf, Operations, Handlers
      <4> QED BY <2>6, <4>1, <4>2 DEF CancelOperation
    <3>3. /\ UNCHANGED <<config, latest>>
          /\ \A p \in Ops \ {o} : ops'[p] = ops[p] /\ handler'[p] = handler[p]
      BY <2>6, <3>1 DEF CancelOperation, ReleaseSlot
    <3> QED BY <3>1, <3>2, <3>3, ShapeElsewhere
  <2>7. ASSUME NEW o \in Ops, ExpireReservation(o) PROVE Shape'
    <3>1. /\ o \in Ops /\ ShapeOf(o) /\ ops[o] \in Operations /\ handler[o] \in Handlers
          /\ ops \in [Ops -> Operations] /\ handler \in [Ops -> Handlers]
          /\ config \in Nat /\ latest \in Nat /\ config <= latest
      BY <2>7, <2>0 DEF Ops
    <3>2. ShapeOf(o)'
      <4>1. CASE Pending(o)
        <5>1. handler[o].pc = "idle" /\ ops[o].status # "queued"
          BY <2>7, <3>1, <4>1 DEF Pending, TaskDone, ShapeOf, ExpireReservation
        <5> QED BY <2>7, <3>1, <4>1, <5>1, ReleaseShape DEF ExpireReservation
      <4>2. CASE ~Pending(o)
        BY <2>7, <3>1, <4>2 DEF ExpireReservation, ShapeOf, Operations, Handlers
      <4> QED BY <4>1, <4>2
    <3>3. /\ UNCHANGED <<config, latest>>
          /\ \A p \in Ops \ {o} : ops'[p] = ops[p] /\ handler'[p] = handler[p]
      BY <2>7, <3>1 DEF ExpireReservation, ReleaseSlot
    <3> QED BY <3>1, <3>2, <3>3, ShapeElsewhere
  <2>8. ASSUME NEW o \in Ops, Bind(o) \/ PlainResume(o) PROVE Shape'
    <3>1. /\ o \in Ops /\ ShapeOf(o) /\ ops[o] \in Operations /\ handler[o] \in Handlers
          /\ ops \in [Ops -> Operations] /\ handler \in [Ops -> Handlers]
          /\ config \in Nat /\ latest \in Nat /\ config <= latest
      BY <2>8, <2>0 DEF Ops
    <3>2. ShapeOf(o)'
      BY <2>8, <3>1 DEF Bind, PlainResume, BindAndContact, StillActive, Idle, ShapeOf, Operations, Handlers
    <3>3. /\ UNCHANGED <<config, latest>>
          /\ \A p \in Ops \ {o} : ops'[p] = ops[p] /\ handler'[p] = handler[p]
      BY <2>8, <3>1, <2>0 DEF Bind, PlainResume, BindAndContact, StillActive, Idle
    <3> QED BY <3>1, <3>2, <3>3, ShapeElsewhere
  <2>9. ASSUME NEW o \in Ops, AbandonBeforeBind(o) PROVE Shape'
    <3>1. /\ o \in Ops /\ ShapeOf(o) /\ ops[o] \in Operations /\ handler[o] \in Handlers
          /\ ops \in [Ops -> Operations] /\ handler \in [Ops -> Handlers]
          /\ config \in Nat /\ latest \in Nat /\ config <= latest
      BY <2>9, <2>0 DEF Ops
    <3>2. ShapeOf(o)'
      BY <2>9, <3>1 DEF AbandonBeforeBind, Idle, ShapeOf, Operations, Handlers
    <3>3. /\ UNCHANGED <<config, latest>>
          /\ \A p \in Ops \ {o} : ops'[p] = ops[p] /\ handler'[p] = handler[p]
      BY <2>9, <3>1, <2>0 DEF AbandonBeforeBind, Idle
    <3> QED BY <3>1, <3>2, <3>3, ShapeElsewhere
  <2>10. ASSUME NEW o \in PlainOps, PlainArrive(o) PROVE Shape'
    <3>1. /\ o \in Ops /\ ShapeOf(o) /\ ops[o] \in Operations /\ handler[o] \in Handlers
          /\ ops \in [Ops -> Operations] /\ handler \in [Ops -> Handlers]
          /\ config \in Nat /\ latest \in Nat /\ config <= latest
      BY <2>10, <2>0 DEF Ops
    <3> DEFINE op == [NoOp EXCEPT !.status = "queued", !.gen = config]
    <3>4. op \in Operations /\ op.token = NoToken /\ op.timer = FALSE
      BY <3>1, EmptyRecords DEF NoOp, Operations, Unfinished, TypeOK
    <3>2. ShapeOf(o)'
      <4>1. CASE TakeSlot(o, op)
        <5> HIDE DEF op
        <5> QED BY <2>10, <3>1, <3>4, <4>1, TakeSlotShape DEF PlainArrive
      <4>2. CASE /\ ops' = [ops EXCEPT ![o] = op]
                 /\ handler' = [handler EXCEPT ![o] = [Idle EXCEPT !.pc = "waiting",
                                                                   !.gen = config]]
        BY <2>10, <3>1, <4>2 DEF PlainArrive, NoOp, Idle, ShapeOf
      <4> QED BY <2>10, <4>1, <4>2 DEF PlainArrive
    <3>3. /\ UNCHANGED <<config, latest>>
          /\ \A p \in Ops \ {o} : ops'[p] = ops[p] /\ handler'[p] = handler[p]
      BY <2>10, <3>1 DEF PlainArrive, TakeSlot
    <3> QED BY <3>1, <3>2, <3>3, ShapeElsewhere
  <2>11. ASSUME NEW o \in Ops, PlainAdmit(o) PROVE Shape'
    <3>1. /\ o \in Ops /\ ShapeOf(o) /\ ops[o] \in Operations /\ handler[o] \in Handlers
          /\ ops \in [Ops -> Operations] /\ handler \in [Ops -> Handlers]
          /\ config \in Nat /\ latest \in Nat /\ config <= latest
      BY <2>11, <2>0 DEF Ops
    <3>2. ShapeOf(o)'
      <4>1. ops[o].token = NoToken /\ ops[o].timer = FALSE
        BY <2>11, <3>1 DEF PlainAdmit, ShapeOf, Operations
      <4> QED BY <2>11, <3>1, <4>1, TakeSlotShape DEF PlainAdmit
    <3>3. /\ UNCHANGED <<config, latest>>
          /\ \A p \in Ops \ {o} : ops'[p] = ops[p] /\ handler'[p] = handler[p]
      BY <2>11, <3>1 DEF PlainAdmit, TakeSlot
    <3> QED BY <3>1, <3>2, <3>3, ShapeElsewhere
  <2>12. ASSUME NEW o \in Ops, PlainGiveUp(o) PROVE Shape'
    <3>1. /\ o \in Ops /\ ShapeOf(o) /\ ops[o] \in Operations /\ handler[o] \in Handlers
          /\ ops \in [Ops -> Operations] /\ handler \in [Ops -> Handlers]
          /\ config \in Nat /\ latest \in Nat /\ config <= latest
      BY <2>12, <2>0 DEF Ops
    <3>4. PICK outcome \in Finished : ops' = [ops EXCEPT ![o] = FinishedAs(@, outcome)]
      BY <2>12 DEF PlainGiveUp, Finished
    <3>5. /\ ops'[o].status # "queued" /\ ops'[o].timer = FALSE
          /\ handler'[o] = Idle /\ handler' = [handler EXCEPT ![o] = Idle]
      BY <2>12, <3>1, <3>4, FinishedAsFields
      DEF PlainGiveUp, Unfinished, ShapeOf, Operations, Finished, FinishedAs
    <3>2. ShapeOf(o)'
      BY <2>12, <3>1, <3>5 DEF PlainGiveUp, Idle, ShapeOf
    <3>3. /\ UNCHANGED <<config, latest>>
          /\ \A p \in Ops \ {o} : ops'[p] = ops[p] /\ handler'[p] = handler[p]
      BY <2>12, <3>1, <2>0 DEF PlainGiveUp, FinishedAs, Unfinished, Idle
    <3> QED BY <3>1, <3>2, <3>3, ShapeElsewhere
  <2>13. ASSUME NEW o \in Ops, NEW outcome \in Finished, UpstreamEnds(o, outcome) \/ Interrupted(o) PROVE Shape'
    <3>1. o \in Ops BY <2>13 DEF Ops
    <3>2. ShapeOf(o)' BY <2>13, <3>1, <2>0 DEF UpstreamEnds, Interrupted, ShapeOf, Operations, Handlers
    <3>3. /\ UNCHANGED <<config, latest>>
          /\ \A p \in Ops \ {o} : ops'[p] = ops[p] /\ handler'[p] = handler[p]
      BY <2>13, <3>1, <2>0 DEF UpstreamEnds, Interrupted
    <3> QED BY <3>1, <3>2, <3>3, ShapeElsewhere
  <2>14. ASSUME NEW o \in Ops, ConnectionFinished(o) PROVE Shape'
    <3>1. /\ o \in Ops /\ ShapeOf(o) /\ ops[o] \in Operations /\ handler[o] \in Handlers
          /\ ops \in [Ops -> Operations] /\ handler \in [Ops -> Handlers]
          /\ config \in Nat /\ latest \in Nat /\ config <= latest
      BY <2>14, <2>0 DEF Ops
    <3>2. ShapeOf(o)'
      BY <2>14, <3>1 DEF ConnectionFinished, FinishedAs, Unfinished, Idle, ShapeOf, Operations, Handlers
    <3>3. /\ UNCHANGED <<config, latest>>
          /\ \A p \in Ops \ {o} : ops'[p] = ops[p] /\ handler'[p] = handler[p]
      BY <2>14, <3>1, <2>0 DEF ConnectionFinished, FinishedAs, Unfinished, Idle
    <3> QED BY <3>1, <3>2, <3>3, ShapeElsewhere
  <2>15. CASE UNCHANGED vars
    BY <2>15, <2>0 DEF vars, Shape, ShapeOf, Gens
  <2>16. "cancelled" \in Finished BY DEF Finished
  <2>17. ASSUME NEW o \in Ops, IdleRetry(o) PROVE Shape'
    <3>1. o \in Ops BY <2>17 DEF Ops
    <3>2. ShapeOf(o)' BY <2>17, <3>1, <2>0 DEF IdleRetry, ShapeOf, Operations, Handlers
    <3>3. /\ UNCHANGED <<config, latest>>
          /\ \A p \in Ops \ {o} : ops'[p] = ops[p] /\ handler'[p] = handler[p]
      BY <2>17, <3>1, <2>0 DEF IdleRetry
    <3> QED BY <3>1, <3>2, <3>3, ShapeElsewhere
  <2> QED
    BY <2>1, <2>2, <2>3, <2>4, <2>5, <2>6, <2>7, <2>8, <2>9, <2>10, <2>11, <2>12,
       <2>13, <2>14, <2>15, <2>16, <2>17, <2>18
    DEF Next, Process, Callers, Progress
<1> QED BY <1>1, <1>2, TypeCorrect, PTL DEF Spec

-------------------------------------------------------------------------------
(* Slot accounting.  SlotAccounting alone is not inductive: a dispatch     *)
(* that closes returns a slot exactly when its generation is the one in    *)
(* place, so one must know that this is so exactly when it holds a slot.   *)
Occupies(o) == /\ handler[o].pc \in {"admitted", "running", "closing"}
               /\ handler[o].gen = config

HolderIsCurrent(o) ==
    Holds(o) => config # 0 /\ (handler[o].pc # "idle" => handler[o].gen = config)

OccupantHolds(o) == config # 0 /\ ~Stopping /\ Occupies(o) => Holds(o)

Accounting ==
    ~overlap => /\ active = Cardinality(Holders)
                /\ Unsettled => Holders = {}
                /\ \A o \in Ops : HolderIsCurrent(o) /\ OccupantHolds(o)

(* There are finitely many holders.                                        *)
LEMMA HoldersFinite == IsFiniteSet(Holders) /\ Cardinality(Holders) \in Nat
<1>1. Holders \subseteq Ops BY DEF Holders
<1> QED BY <1>1, SlotAssumption, FS_Subset, FS_CardinalityType

(* How the set of holders changes when one operation changes.              *)
LEMMA HoldersChange ==
    ASSUME NEW o \in Ops,
           \A p \in Ops \ {o} : ops'[p] = ops[p] /\ handler'[p] = handler[p]
    PROVE  /\ (Holds(o)' <=> Holds(o)) => Holders' = Holders
           /\ Holds(o)' /\ ~Holds(o) => Cardinality(Holders') = Cardinality(Holders) + 1
           /\ ~Holds(o)' /\ Holds(o) => Cardinality(Holders') = Cardinality(Holders) - 1
<1>1. \A p \in Ops \ {o} : Holds(p)' <=> Holds(p)
  BY DEF Holds
<1>2. ASSUME Holds(o)' <=> Holds(o) PROVE Holders' = Holders
  BY <1>1, <1>2 DEF Holders
<1>3. ASSUME Holds(o)', ~Holds(o)
      PROVE  Cardinality(Holders') = Cardinality(Holders) + 1
  <2>1. Holders' = Holders \union {o} /\ o \notin Holders
    BY <1>1, <1>3 DEF Holders
  <2> QED BY <2>1, HoldersFinite, FS_AddElement
<1>4. ASSUME ~Holds(o)', Holds(o)
      PROVE  Cardinality(Holders') = Cardinality(Holders) - 1
  <2>1. Holders' = Holders \ {o} /\ o \in Holders
    BY <1>1, <1>4 DEF Holders
  <2> QED BY <2>1, HoldersFinite, FS_RemoveElement
<1> QED BY <1>2, <1>3, <1>4

(* The steps of one operation: nothing changes hands, a slot is taken      *)
(* while nobody starts or stops the process, or the operation's slot is returned.    *)
LEMMA AccountingStep ==
    ASSUME NEW o \in Ops, ~overlap, Accounting, UNCHANGED <<config, starting, stopGen>>,
           \A p \in Ops \ {o} : ops'[p] = ops[p] /\ handler'[p] = handler[p],
           HolderIsCurrent(o)', OccupantHolds(o)',
           \/ (Holds(o)' <=> Holds(o)) /\ active' = active
           \/ Holds(o)' /\ ~Holds(o) /\ ~Unsettled /\ active' = active + 1
           \/ ~Holds(o)' /\ Holds(o) /\ active' = Decremented(active)
    PROVE  Accounting'
<1>1. /\ active = Cardinality(Holders) /\ (Unsettled => Holders = {})
      /\ \A p \in Ops : HolderIsCurrent(p) /\ OccupantHolds(p)
  BY DEF Accounting
<1>2. (Stopping' <=> Stopping) /\ (Unsettled' <=> Unsettled)
  BY DEF Stopping, Unsettled
<1>3. \A p \in Ops : HolderIsCurrent(p)' /\ OccupantHolds(p)'
  BY <1>1, <1>2 DEF HolderIsCurrent, OccupantHolds, Occupies, Holds
<1>4. CASE (Holds(o)' <=> Holds(o)) /\ active' = active
  <2>1. Holders' = Holders BY <1>4, HoldersChange
  <2> QED BY <1>1, <1>2, <1>3, <1>4, <2>1 DEF Accounting
<1>5. CASE Holds(o)' /\ ~Holds(o) /\ ~Unsettled /\ active' = active + 1
  <2>1. active' = Cardinality(Holders') BY <1>1, <1>5, HoldersChange
  <2> QED BY <1>2, <1>3, <1>5, <2>1 DEF Accounting
<1>6. CASE ~Holds(o)' /\ Holds(o) /\ active' = Decremented(active)
  <2>1. o \in Holders BY <1>6 DEF Holders
  <2>2. Cardinality(Holders) # 0 BY <2>1, HoldersFinite, FS_EmptySet
  <2>3. active' = Cardinality(Holders')
    BY <1>1, <1>6, <2>2, HoldersFinite, HoldersChange DEF Decremented
  <2> QED BY <1>1, <1>2, <1>3, <2>1, <2>3 DEF Accounting
<1> QED BY <1>4, <1>5, <1>6

(* The counter agrees with the holders on every path: the three inductive  *)
(* invariants together give the property the runs check.                   *)
THEOREM AccountingCorrect == Spec => []Accounting
<1>1. Init => Accounting
  <2> SUFFICES ASSUME Init PROVE Accounting
    OBVIOUS
  <2>1. \A o \in Ops : ops[o].status = "absent" /\ handler[o].pc = "idle"
    BY DEF Init, NoOp, Idle
  <2>2. \A o \in Ops : ~Holds(o) /\ ~Occupies(o)
    BY <2>1 DEF Holds, Occupies
  <2>3. Holders = {} BY <2>2 DEF Holders
  <2>4. active = Cardinality(Holders) BY <2>3, FS_EmptySet DEF Init
  <2> QED BY <2>2, <2>3, <2>4 DEF Accounting, HolderIsCurrent, OccupantHolds
<1>2. TypeOK /\ Shape /\ Accounting /\ [Next]_vars => Accounting'
  <2> SUFFICES ASSUME TypeOK, Shape, Accounting, [Next]_vars, ~overlap, ~overlap'
               PROVE  Accounting'
    <3>1. overlap /\ [Next]_vars => overlap'
      BY DEF Next, vars, Process, Callers, Progress, StartServer, StartReady, StartFails, StopBegin,
             StopEnd, TryReserve, Consume, CancelOperation, ExpireReservation, Bind,
             AbandonBeforeBind, PlainArrive, PlainAdmit, PlainGiveUp, PlainResume,
             UpstreamEnds, Interrupted, IdleRetry, ConnectionFinished, TakeSlot
    <3> QED BY <3>1 DEF Accounting
  <2> USE SlotAssumption
  <2>0. /\ ~overlap /\ Accounting
        /\ active = Cardinality(Holders) /\ (Unsettled => Holders = {})
        /\ config \in Nat /\ latest \in Nat /\ config <= latest
        /\ \A o \in Ops : /\ ops[o] \in Operations /\ handler[o] \in Handlers /\ ShapeOf(o)
                          /\ HolderIsCurrent(o) /\ OccupantHolds(o)
        /\ ops \in [Ops -> Operations] /\ handler \in [Ops -> Handlers]
    BY DEF TypeOK, Gens, Shape, Accounting
  <2>1. ASSUME NEW g \in Gens, StartServer(g) \/ StartFails PROVE Accounting'
    <3>1. Holders = {}
      BY <2>0, <2>1 DEF StartServer, StartFails, Holders, HolderIsCurrent, Unsettled
    <3>2. Holders' = Holders /\ Stopping' = Stopping /\ active' = active
      BY <2>1 DEF StartServer, StartFails, Holders, Holds, Stopping
    <3>3. \A o \in Ops : ~Holds(o)'
      BY <3>1, <3>2 DEF Holders
    <3>4. \A o \in Ops : config' = 0 \/ ~Occupies(o)'
      BY <2>0, <2>1 DEF StartServer, StartFails, Occupies, ShapeOf, Gens, Handlers
    <3> QED BY <2>0, <3>1, <3>2, <3>3, <3>4 DEF Accounting, HolderIsCurrent, OccupantHolds
  <2>19. CASE StartReady
    <3>1. /\ Holders' = Holders /\ active' = active /\ (Unsettled' => Unsettled)
          /\ \A o \in Ops : HolderIsCurrent(o)' /\ OccupantHolds(o)'
      BY <2>0, <2>19 DEF StartReady, Holders, Holds, Unsettled, Stopping, HolderIsCurrent,
                         OccupantHolds, Occupies
    <3> QED BY <2>0, <3>1 DEF Accounting
  <2>2. ASSUME NEW s \in Stoppers, StopBegin(s) PROVE Accounting'
    <3>1. \A o \in Ops : ~Holds(o)'
      BY <2>2, <2>0
      DEF StopBegin, FenceOperations, FinishedAs, Holds, Unfinished, Operations
    <3>2. Holders' = {} BY <3>1 DEF Holders
    <3>3. active' = 0 /\ Cardinality({}) = 0 BY <2>2, FS_EmptySet DEF StopBegin, FenceOperations
    <3>4. Stopping' BY <2>2, <2>0 DEF StopBegin, Stopping, TypeOK
    <3> QED BY <3>1, <3>2, <3>3, <3>4 DEF Accounting, HolderIsCurrent, OccupantHolds
  <2>3. ASSUME NEW s \in Stoppers, StopEnd(s) PROVE Accounting'
    <3>1. Holders' = Holders /\ Holders = {} /\ active' = active
      BY <2>3, <2>0 DEF StopEnd, Holders, Holds, Stopping, Unsettled
    <3>2. \A o \in Ops : ~Holds(o)' BY <3>1 DEF Holders
    <3>3. config' = 0 BY <2>3 DEF StopEnd
    <3> QED BY <2>0, <3>1, <3>2, <3>3 DEF Accounting, HolderIsCurrent, OccupantHolds
  <2>4. ASSUME NEW o \in ReservedOps, NEW t \in Tokens, TryReserve(o, t) PROVE Accounting'
    <3>1. o \in Ops /\ ShapeOf(o) /\ ops[o] \in Operations /\ handler[o] \in Handlers
      BY <2>4, <2>0 DEF Ops
    <3>4. ~Holds(o) /\ ~Unsettled /\ handler[o].pc = "idle"
      BY <2>0, <2>4, <3>1 DEF TryReserve, Reservable, Holds, ShapeOf, Handlers
    <3>5. Holds(o)' /\ handler'[o].pc = "idle"
      BY <2>0, <2>4, <3>1, <3>4 DEF TryReserve, Holds
    <3>2. HolderIsCurrent(o)' /\ OccupantHolds(o)'
      BY <2>4, <3>5 DEF TryReserve, HolderIsCurrent, OccupantHolds
    <3>3. Holds(o)' /\ ~Holds(o) /\ ~Unsettled /\ active' = active + 1
      BY <2>4, <3>4, <3>5 DEF TryReserve
    <3>8. /\ UNCHANGED <<config, starting, stopGen>>
          /\ \A p \in Ops \ {o} : ops'[p] = ops[p] /\ handler'[p] = handler[p]
      BY <2>4, <3>1, <2>0 DEF TryReserve
    <3> QED BY <3>1, <3>2, <3>3, <3>8, <2>0, AccountingStep
  <2>5. ASSUME NEW o \in ReservedOps, NEW t \in Tokens, Consume(o, t) PROVE Accounting'
    <3>1. o \in Ops /\ ShapeOf(o) /\ ops[o] \in Operations /\ handler[o] \in Handlers
      BY <2>5, <2>0 DEF Ops
    <3>4. Holds(o) BY <2>5 DEF Consume, Consumable, Holds
    <3>5. Holds(o)' BY <2>0, <2>5, <3>1 DEF Consume, Holds, Operations
    <3>2. HolderIsCurrent(o)' /\ OccupantHolds(o)'
      BY <2>0, <2>5, <3>1, <3>5 DEF Consume, HolderIsCurrent, OccupantHolds, Idle
    <3>3. (Holds(o)' <=> Holds(o)) /\ active' = active
      BY <2>5, <3>4, <3>5 DEF Consume
    <3>8. /\ UNCHANGED <<config, starting, stopGen>>
          /\ \A p \in Ops \ {o} : ops'[p] = ops[p] /\ handler'[p] = handler[p]
      BY <2>5, <3>1, <2>0 DEF Consume
    <3> QED BY <3>1, <3>2, <3>3, <3>8, <2>0, AccountingStep
  <2>6. ASSUME NEW o \in Ops, Pending(o), handler[o].pc = "idle", ReleaseSlot(o),
               UNCHANGED <<config, starting, stopGen, handler>>
        PROVE  Accounting'
    <3>1. o \in Ops /\ ShapeOf(o) /\ ops[o] \in Operations /\ handler[o] \in Handlers
      BY <2>6, <2>0 DEF Ops
    <3>4. Holds(o) BY <2>6 DEF Pending, Holds
    <3>5. ~Holds(o)'
      BY <2>0, <2>6, <3>1
      DEF ReleaseSlot, FinishedAs, Pending, Holds, Unfinished, Operations
    <3>2. HolderIsCurrent(o)' /\ OccupantHolds(o)'
      BY <2>6, <3>5 DEF HolderIsCurrent, OccupantHolds, Occupies
    <3>3. ~Holds(o)' /\ Holds(o) /\ active' = Decremented(active)
      BY <2>6, <3>4, <3>5 DEF ReleaseSlot
    <3>8. /\ UNCHANGED <<config, starting, stopGen>>
          /\ \A p \in Ops \ {o} : ops'[p] = ops[p] /\ handler'[p] = handler[p]
      BY <2>6, <3>1, <2>0 DEF ReleaseSlot
    <3> QED BY <3>1, <3>2, <3>3, <3>8, <2>0, AccountingStep
  <2>7. ASSUME NEW o \in Ops, NEW t \in Tokens, CancelOperation(o, t) PROVE Accounting'
    <3>1. o \in Ops /\ ShapeOf(o) /\ ops[o] \in Operations /\ handler[o] \in Handlers
      BY <2>7, <2>0 DEF Ops
    <3>4. CASE Pending(o) /\ ops[o].token = t /\ ReleaseSlot(o)
      <4>1. handler[o].pc = "idle"
        BY <3>1, <3>4 DEF Pending, TaskDone, ShapeOf
      <4> QED BY <2>7, <3>4, <4>1, <2>6 DEF CancelOperation
    <3>5. CASE /\ ops[o].status \in {"queued", "active"}
               /\ ops' = [ops EXCEPT ![o].status = "cancelling"] /\ UNCHANGED active
      <4>1. Holds(o)' <=> Holds(o)
        BY <2>0, <2>7, <3>1, <3>5 DEF CancelOperation, Holds, ShapeOf, Operations
      <4>2. HolderIsCurrent(o)' /\ OccupantHolds(o)'
        BY <2>0, <2>7, <4>1 DEF CancelOperation, HolderIsCurrent, OccupantHolds, Occupies,
                                Stopping
      <4>3. /\ UNCHANGED <<config, starting, stopGen>>
            /\ \A p \in Ops \ {o} : ops'[p] = ops[p] /\ handler'[p] = handler[p]
        BY <2>7, <3>5, <2>0 DEF CancelOperation
      <4> QED BY <2>0, <3>5, <4>1, <4>2, <4>3, AccountingStep
    <3> QED BY <2>7, <3>4, <3>5 DEF CancelOperation
  <2>8. ASSUME NEW o \in Ops, ExpireReservation(o) PROVE Accounting'
    <3>1. o \in Ops /\ ShapeOf(o) /\ ops[o] \in Operations /\ handler[o] \in Handlers
      BY <2>8, <2>0 DEF Ops
    <3>4. CASE Pending(o)
      <4>1. handler[o].pc = "idle"
        BY <2>8, <3>1, <3>4 DEF ExpireReservation, Pending, TaskDone, ShapeOf
      <4> QED BY <2>8, <3>4, <4>1, <2>6 DEF ExpireReservation
    <3>5. CASE ~Pending(o)
      <4>1. Holds(o)' <=> Holds(o)
        BY <2>0, <2>8, <3>1, <3>5 DEF ExpireReservation, Holds, Operations
      <4>2. HolderIsCurrent(o)' /\ OccupantHolds(o)'
        BY <2>0, <2>8, <4>1 DEF ExpireReservation, HolderIsCurrent, OccupantHolds, Occupies,
                                Stopping
      <4>3. /\ UNCHANGED <<config, starting, stopGen, active>>
            /\ \A p \in Ops \ {o} : ops'[p] = ops[p] /\ handler'[p] = handler[p]
        BY <2>8, <3>5, <2>0 DEF ExpireReservation
      <4> QED BY <2>0, <4>1, <4>2, <4>3, AccountingStep
    <3> QED BY <3>4, <3>5
  <2>9. ASSUME NEW o \in Ops, Bind(o) \/ PlainResume(o) PROVE Accounting'
    <3>1. o \in Ops /\ ShapeOf(o) /\ ops[o] \in Operations /\ handler[o] \in Handlers
      BY <2>9, <2>0 DEF Ops
    <3>4. Holds(o)' <=> Holds(o)
      BY <2>0, <2>9, <3>1 DEF Bind, PlainResume, BindAndContact, StillActive, Holds, Idle, Operations, Handlers
    <3>2. HolderIsCurrent(o)' /\ OccupantHolds(o)'
      BY <2>0, <2>9, <3>1, <3>4
      DEF Bind, PlainResume, BindAndContact, StillActive, Idle, Operations, Handlers, Holds, HolderIsCurrent, OccupantHolds, Occupies, Stopping
    <3>3. (Holds(o)' <=> Holds(o)) /\ active' = active
      BY <2>9, <3>4 DEF Bind, PlainResume, BindAndContact
    <3>8. /\ UNCHANGED <<config, starting, stopGen>>
          /\ \A p \in Ops \ {o} : ops'[p] = ops[p] /\ handler'[p] = handler[p]
      BY <2>9, <3>1, <2>0 DEF Bind, PlainResume, BindAndContact
    <3> QED BY <3>1, <3>2, <3>3, <3>8, <2>0, AccountingStep
  <2>10. ASSUME NEW o \in Ops, AbandonBeforeBind(o) PROVE Accounting'
    <3>1. o \in Ops /\ ShapeOf(o) /\ ops[o] \in Operations /\ handler[o] \in Handlers
      BY <2>10, <2>0 DEF Ops
    <3>4. Holds(o)' <=> Holds(o)
      BY <2>0, <2>10, <3>1 DEF AbandonBeforeBind, Holds, Idle, Handlers
    <3>2. HolderIsCurrent(o)' /\ OccupantHolds(o)'
      BY <2>0, <2>10, <3>1, <3>4
      DEF AbandonBeforeBind, Idle, Handlers, HolderIsCurrent, OccupantHolds, Occupies, Stopping
    <3>3. (Holds(o)' <=> Holds(o)) /\ active' = active
      BY <2>10, <3>4 DEF AbandonBeforeBind
    <3>8. /\ UNCHANGED <<config, starting, stopGen>>
          /\ \A p \in Ops \ {o} : ops'[p] = ops[p] /\ handler'[p] = handler[p]
      BY <2>10, <3>1, <2>0 DEF AbandonBeforeBind
    <3> QED BY <3>1, <3>2, <3>3, <3>8, <2>0, AccountingStep
  <2>11. ASSUME NEW o \in Ops, NEW op \in Operations, ~Holds(o), TakeSlot(o, op), config # 0,
                UNCHANGED <<config, starting, stopGen>>
         PROVE  Accounting'
    <3>1. o \in Ops /\ ShapeOf(o) /\ ops[o] \in Operations /\ handler[o] \in Handlers
      BY <2>11, <2>0 DEF Ops
    <3>4. PICK pc \in {"admitted", "running"} :
             handler' = [handler EXCEPT ![o] = [Idle EXCEPT !.pc = pc, !.gen = config]]
      BY <2>11 DEF TakeSlot
    <3>5. handler'[o].pc = pc /\ handler'[o].gen = config
      BY <2>0, <3>1, <3>4 DEF Idle
    <3>6. ops'[o].status = "active"
      BY <2>0, <2>11, <3>1 DEF TakeSlot, Operations
    <3>7. Holds(o)' BY <3>6 DEF Holds
    <3>2. HolderIsCurrent(o)' /\ OccupantHolds(o)'
      BY <2>11, <3>5, <3>7 DEF HolderIsCurrent, OccupantHolds
    <3>3. Holds(o)' /\ ~Holds(o) /\ ~Unsettled /\ active' = active + 1
      BY <2>0, <2>11, <3>7 DEF TakeSlot
    <3>8. /\ UNCHANGED <<config, starting, stopGen>>
          /\ \A p \in Ops \ {o} : ops'[p] = ops[p] /\ handler'[p] = handler[p]
      BY <2>11, <3>1, <2>0 DEF TakeSlot
    <3> QED BY <3>1, <3>2, <3>3, <3>8, <2>0, AccountingStep
  <2>12. ASSUME NEW o \in PlainOps, PlainArrive(o) PROVE Accounting'
    <3>1. o \in Ops /\ ShapeOf(o) /\ ops[o] \in Operations /\ handler[o] \in Handlers
      BY <2>12, <2>0 DEF Ops
    <3> DEFINE op == [NoOp EXCEPT !.status = "queued", !.gen = config]
    <3>4. op \in Operations BY EmptyRecords DEF NoOp, Operations, Unfinished, TypeOK
    <3>5. ~Holds(o) BY <2>12 DEF PlainArrive, Holds
    <3>6. CASE TakeSlot(o, op)
      <4> HIDE DEF op
      <4> QED BY <2>12, <3>1, <3>4, <3>5, <3>6, <2>11 DEF PlainArrive
    <3>7. CASE /\ ops' = [ops EXCEPT ![o] = op] /\ UNCHANGED active
               /\ handler' = [handler EXCEPT ![o] = [Idle EXCEPT !.pc = "waiting",
                                                                 !.gen = config]]
      <4>1. ~Holds(o)' BY <2>0, <3>1, <3>7 DEF Holds, NoOp
      <4>2. HolderIsCurrent(o)' /\ OccupantHolds(o)'
        BY <2>0, <3>1, <3>7, <4>1 DEF HolderIsCurrent, OccupantHolds, Occupies, Idle
      <4>3. /\ UNCHANGED <<config, starting, stopGen>>
            /\ \A p \in Ops \ {o} : ops'[p] = ops[p] /\ handler'[p] = handler[p]
        BY <2>12, <2>0, <3>7 DEF PlainArrive
      <4> QED BY <2>0, <3>1, <3>5, <3>7, <4>1, <4>2, <4>3, AccountingStep
    <3> QED BY <2>12, <3>6, <3>7 DEF PlainArrive
  <2>13. ASSUME NEW o \in Ops, PlainAdmit(o) PROVE Accounting'
    <3>1. ~Holds(o) /\ ops[o] \in Operations BY <2>0, <2>13 DEF PlainAdmit, Holds
    <3> QED BY <2>13, <3>1, <2>11 DEF PlainAdmit, OwnProcess
  <2>14. ASSUME NEW o \in Ops, PlainGiveUp(o) PROVE Accounting'
    <3>1. o \in Ops /\ ShapeOf(o) /\ ops[o] \in Operations /\ handler[o] \in Handlers
      BY <2>14, <2>0 DEF Ops
    <3>5. PICK outcome \in Finished : ops' = [ops EXCEPT ![o] = FinishedAs(@, outcome)]
      BY <2>14 DEF PlainGiveUp, Finished
    <3>6. ops[o].status \in {"queued", "cancelling", "failed"} /\ handler[o].pc = "waiting"
      BY <2>14, <3>1 DEF PlainGiveUp, ShapeOf
    <3>7. ops'[o].status \in Finished
      BY <2>0, <3>1, <3>5, <3>6, FinishedAsFields DEF Unfinished, Finished
    <3>4. Holds(o)' <=> Holds(o)
      BY <3>6, <3>7 DEF Holds, Finished
    <3>2. HolderIsCurrent(o)' /\ OccupantHolds(o)'
      BY <2>0, <2>14, <3>1, <3>4
      DEF PlainGiveUp, Idle, Handlers, HolderIsCurrent, OccupantHolds, Occupies, Stopping
    <3>3. (Holds(o)' <=> Holds(o)) /\ active' = active
      BY <2>14, <3>4 DEF PlainGiveUp
    <3>8. /\ UNCHANGED <<config, starting, stopGen>>
          /\ \A p \in Ops \ {o} : ops'[p] = ops[p] /\ handler'[p] = handler[p]
      BY <2>14, <3>1, <2>0 DEF PlainGiveUp
    <3> QED BY <3>1, <3>2, <3>3, <3>8, <2>0, AccountingStep
  <2>15. ASSUME NEW o \in Ops, NEW outcome \in Finished,
                UpstreamEnds(o, outcome) \/ Interrupted(o) \/ IdleRetry(o)
         PROVE  Accounting'
    <3>1. o \in Ops /\ ShapeOf(o) /\ ops[o] \in Operations /\ handler[o] \in Handlers
      BY <2>15, <2>0 DEF Ops
    <3>4. Holds(o)' <=> Holds(o)
      BY <2>0, <2>15, <3>1 DEF UpstreamEnds, Interrupted, IdleRetry, Holds, Handlers
    <3>2. HolderIsCurrent(o)' /\ OccupantHolds(o)'
      BY <2>0, <2>15, <3>1, <3>4
      DEF UpstreamEnds, Interrupted, IdleRetry, Handlers, Holds, HolderIsCurrent, OccupantHolds, Occupies, Stopping
    <3>3. (Holds(o)' <=> Holds(o)) /\ active' = active
      BY <2>15, <3>4 DEF UpstreamEnds, Interrupted, IdleRetry
    <3>8. /\ UNCHANGED <<config, starting, stopGen>>
          /\ \A p \in Ops \ {o} : ops'[p] = ops[p] /\ handler'[p] = handler[p]
      BY <2>15, <3>1, <2>0 DEF UpstreamEnds, Interrupted, IdleRetry
    <3> QED BY <3>1, <3>2, <3>3, <3>8, <2>0, AccountingStep
  <2>16. ASSUME NEW o \in Ops, ConnectionFinished(o) PROVE Accounting'
    <3>1. o \in Ops /\ ShapeOf(o) /\ ops[o] \in Operations /\ handler[o] \in Handlers
      BY <2>16, <2>0 DEF Ops
    <3>4. ops[o].status \in {"active", "cancelling", "failed"}
      BY <2>16, <3>1 DEF ConnectionFinished, ShapeOf
    <3>5. ~Holds(o)'
      BY <2>0, <2>16, <3>1, <3>4
      DEF ConnectionFinished, FinishedAs, Holds, Unfinished, Operations, Handlers
    <3>6. handler'[o].pc = "idle" BY <2>0, <2>16, <3>1 DEF ConnectionFinished, Idle
    <3>2. HolderIsCurrent(o)' /\ OccupantHolds(o)'
      BY <3>5, <3>6 DEF HolderIsCurrent, OccupantHolds, Occupies
    <3>3. \/ (Holds(o)' <=> Holds(o)) /\ active' = active
          \/ ~Holds(o)' /\ Holds(o) /\ active' = Decremented(active)
      <4>1. CASE Holds(o)
        <5>1. OwnSlot(o) BY <2>0, <2>16, <3>1, <4>1 DEF OwnSlot, HolderIsCurrent, ConnectionFinished
        <5> QED BY <2>16, <3>5, <4>1, <5>1 DEF ConnectionFinished
      <4>2. CASE ~Holds(o) /\ OwnSlot(o)
        <5>1. Stopping BY <2>0, <2>16, <3>1, <4>2 DEF OwnSlot, OccupantHolds, Occupies, ConnectionFinished
        <5>2. active = 0 BY <2>0, <5>1, FS_EmptySet DEF Unsettled
        <5> QED BY <2>16, <3>5, <4>2, <5>2 DEF ConnectionFinished, Decremented
      <4>3. CASE ~Holds(o) /\ ~OwnSlot(o)
        BY <2>16, <3>5, <4>3 DEF ConnectionFinished
      <4> QED BY <4>1, <4>2, <4>3
    <3>8. /\ UNCHANGED <<config, starting, stopGen>>
          /\ \A p \in Ops \ {o} : ops'[p] = ops[p] /\ handler'[p] = handler[p]
      BY <2>16, <3>1, <2>0 DEF ConnectionFinished
    <3> QED BY <3>1, <3>2, <3>3, <3>8, <2>0, AccountingStep
  <2>17. CASE UNCHANGED vars
    BY <2>17 DEF vars, Accounting, Holders, Holds, Stopping, Unsettled, HolderIsCurrent, OccupantHolds,
                 Occupies
  <2>18. "cancelled" \in Finished /\ 0 \in Gens BY EmptyRecords DEF Finished
  <2> QED
    BY <2>1, <2>2, <2>3, <2>4, <2>5, <2>7, <2>8, <2>9, <2>10, <2>12, <2>13, <2>14, <2>15,
       <2>16, <2>17, <2>18, <2>19
    DEF Next, Process, Callers, Progress
<1> QED BY <1>1, <1>2, TypeCorrect, ShapeCorrect, PTL DEF Spec

(* The slot counter is the number of operations that hold a slot, whatever *)
(* the order of timers, cancellations, stops and finishing dispatches, as  *)
(* long as no slot was taken during a start or a stop.                     *)
THEOREM SlotAccountingCorrect == Spec => []SlotAccounting
<1>1. Accounting => SlotAccounting
  BY DEF Accounting, SlotAccounting
<1> QED BY <1>1, AccountingCorrect, PTL
-------------------------------------------------------------------------------
(* The capacity of the LLM.  While nobody stops the process, the requests  *)
(* it serves hold slots, and the accounting bounds those.  A stop takes    *)
(* the slots away before the process is gone: from then on no request is   *)
(* added to those that were running.                                       *)
Serving == {o \in Ops : handler[o].pc = "running" /\ handler[o].gen = config}

(* A dispatch under way was routed to a process. *)
DispatchHasProcess == \A o \in Ops : handler[o].pc # "idle" => handler[o].gen # 0

(* Every dispatch begins under the generation that is in place.            *)
THEOREM DispatchHasProcessAlways == Spec => []DispatchHasProcess
<1>1. Init => DispatchHasProcess BY DEF Init, DispatchHasProcess, Idle
<1>2. TypeOK /\ DispatchHasProcess /\ [Next]_vars => DispatchHasProcess'
  <2> SUFFICES ASSUME TypeOK, DispatchHasProcess, [Next]_vars PROVE DispatchHasProcess'
    OBVIOUS
  <2>0. handler \in [Ops -> Handlers] BY DEF TypeOK
  <2>1. CASE UNCHANGED handler BY <2>1 DEF DispatchHasProcess
  <2>2. ASSUME NEW o \in Ops, \A p \in Ops \ {o} : handler'[p] = handler[p],
               handler'[o].pc # "idle" => handler'[o].gen # 0
        PROVE  DispatchHasProcess'
    BY <2>2 DEF DispatchHasProcess
  <2>3. ASSUME NEW o \in ReservedOps, NEW t \in Tokens, Consume(o, t) PROVE DispatchHasProcess'
    <3>1. o \in Ops BY DEF Ops
    <3>2. handler'[o].gen = config /\ config # 0 BY <2>0, <2>3, <3>1 DEF Consume, Idle
    <3> QED BY <2>0, <2>2, <2>3, <3>1, <3>2 DEF Consume
  <2>4. ASSUME NEW o \in Ops, NEW op, TakeSlot(o, op), config # 0 PROVE DispatchHasProcess'
    <3>1. handler'[o].gen = config BY <2>0, <2>4 DEF TakeSlot, Idle
    <3> QED BY <2>0, <2>2, <2>4, <3>1 DEF TakeSlot
  <2>5. ASSUME NEW o \in PlainOps, PlainArrive(o) PROVE DispatchHasProcess'
    <3>1. o \in Ops /\ config # 0 BY <2>5 DEF Ops, PlainArrive
    <3>2. CASE handler' = [handler EXCEPT ![o] = [Idle EXCEPT !.pc = "waiting", !.gen = config]]
      <4>1. handler'[o].gen = config BY <2>0, <3>1, <3>2 DEF Idle
      <4> QED BY <2>2, <3>1, <3>2, <4>1
    <3> QED BY <2>4, <2>5, <3>1, <3>2 DEF PlainArrive
  <2>6. ASSUME NEW o \in Ops, PlainAdmit(o) PROVE DispatchHasProcess'
    BY <2>4, <2>6 DEF PlainAdmit, OwnProcess
  <2>7. ASSUME NEW o \in Ops, handler' = [handler EXCEPT ![o] = Idle] PROVE DispatchHasProcess'
    <3>1. handler'[o].pc = "idle" BY <2>0, <2>7 DEF Idle
    <3> QED BY <2>2, <2>7, <3>1
  <2>8. ASSUME NEW o \in Ops, handler[o].pc # "idle", handler'[o].gen = handler[o].gen,
               \A p \in Ops \ {o} : handler'[p] = handler[p]
        PROVE  DispatchHasProcess'
    BY <2>2, <2>8 DEF DispatchHasProcess
  <2>9. ASSUME NEW o \in Ops, Bind(o) \/ PlainResume(o) PROVE DispatchHasProcess'
    <3>1. CASE handler' = [handler EXCEPT ![o] = Idle] BY <2>7, <3>1
    <3>2. CASE handler' # [handler EXCEPT ![o] = Idle]
      <4>1. /\ handler[o].pc # "idle" /\ handler'[o].gen = handler[o].gen
            /\ \A p \in Ops \ {o} : handler'[p] = handler[p]
        BY <2>0, <2>9, <3>2 DEF Bind, PlainResume, BindAndContact, Handlers
      <4> QED BY <2>8, <4>1
    <3> QED BY <3>1, <3>2
  <2>10. ASSUME NEW o \in Ops, IdleRetry(o) \/ Interrupted(o)
                  \/ \E outcome \in Finished : UpstreamEnds(o, outcome)
         PROVE  DispatchHasProcess'
    <3>1. /\ handler[o].pc # "idle" /\ handler'[o].gen = handler[o].gen
          /\ \A p \in Ops \ {o} : handler'[p] = handler[p]
      BY <2>0, <2>10 DEF IdleRetry, Interrupted, UpstreamEnds, Handlers
    <3> QED BY <2>8, <3>1
  <2>11. ASSUME NEW o \in Ops, AbandonBeforeBind(o) \/ PlainGiveUp(o) \/ ConnectionFinished(o)
         PROVE  DispatchHasProcess'
    BY <2>7, <2>11 DEF AbandonBeforeBind, PlainGiveUp, ConnectionFinished
  <2>12. CASE Process
    BY <2>1, <2>12 DEF Process, StartServer, StartReady, StartFails, StopBegin, StopEnd
  <2>13. ASSUME NEW o \in ReservedOps, NEW t \in Tokens, TryReserve(o, t) PROVE DispatchHasProcess'
    BY <2>1, <2>13 DEF TryReserve
  <2>14. ASSUME NEW o \in Ops, NEW t \in Tokens, CancelOperation(o, t) PROVE DispatchHasProcess'
    BY <2>1, <2>14 DEF CancelOperation
  <2>15. ASSUME NEW o \in Ops, ExpireReservation(o) PROVE DispatchHasProcess'
    BY <2>1, <2>15 DEF ExpireReservation
  <2> QED BY <2>1, <2>3, <2>5, <2>6, <2>9, <2>10, <2>11, <2>12, <2>13, <2>14, <2>15
          DEF vars, Next, Callers, Progress
<1> QED BY <1>1, <1>2, TypeCorrect, PTL DEF Spec

(* Outside of a stop, the requests that are served hold slots. *)
LEMMA ServingHold ==
    ASSUME TypeOK, Accounting, DispatchHasProcess, ~overlap, ~Stopping
    PROVE  Cardinality(Serving) <= Capacity
<1>1. Serving \subseteq Holders
  BY DEF Serving, Holders, Accounting, OccupantHolds, Occupies, DispatchHasProcess
<1>2. Cardinality(Serving) <= Cardinality(Holders) /\ Cardinality(Serving) \in Nat
  BY <1>1, HoldersFinite, FS_Subset, FS_CardinalityType
<1>3. Cardinality(Holders) \in 0..Capacity BY DEF Accounting, TypeOK
<1> QED BY <1>2, <1>3, SlotAssumption

(* During a stop, no request comes to be served. *)
LEMMA StopAddsNone ==
    ASSUME TypeOK, Shape, Accounting, DispatchHasProcess, Stopping, Next, ~overlap, ~overlap'
    PROVE  Serving' \subseteq Serving
<1>0. /\ handler \in [Ops -> Handlers] /\ config \in Nat /\ latest \in Nat
      /\ \A o \in Ops : ~Holds(o) /\ handler[o].gen <= latest
      /\ \A o \in Ops : handler[o].gen \in Nat
  BY SlotAssumption DEF TypeOK, Gens, Accounting, Unsettled, Holders, Shape, ShapeOf, Handlers
<1>1. ASSUME NEW o \in Ops, NEW op PROVE ~TakeSlot(o, op)
  BY DEF TakeSlot, Unsettled
<1>2. ASSUME NEW o \in Ops PROVE ~StillActive(o)
  BY <1>0 DEF StillActive, Holds
<1>3. CASE UNCHANGED <<config, handler>> BY <1>3 DEF Serving
<1>4. CASE Process
  <2>1. CASE \E g \in Gens : StartServer(g)
    BY <1>0, <2>1 DEF StartServer, Serving, Gens
  <2>2. CASE \E s \in Stoppers : StopEnd(s)
    BY <2>2 DEF StopEnd, Serving, DispatchHasProcess
  <2>3. CASE StartFails BY <2>3 DEF StartFails, Serving, DispatchHasProcess
  <2>4. CASE StartReady \/ \E s \in Stoppers : StopBegin(s)
    BY <1>3, <2>4 DEF StartReady, StopBegin
  <2> QED BY <1>4, <2>1, <2>2, <2>3, <2>4 DEF Process
<1>5. ASSUME NEW o \in Ops, UNCHANGED config, \A p \in Ops \ {o} : handler'[p] = handler[p],
             handler'[o].pc # "running"
      PROVE  Serving' \subseteq Serving
  BY <1>5 DEF Serving
<1>6. CASE Callers
  <2>1. ASSUME NEW o \in ReservedOps, NEW t \in Tokens, Consume(o, t)
        PROVE  Serving' \subseteq Serving
    <3>1. o \in Ops BY DEF Ops
    <3>2. handler'[o].pc = "consumed" BY <1>0, <2>1, <3>1 DEF Consume, Idle
    <3> QED BY <1>5, <2>1, <3>1, <3>2 DEF Consume
  <2>2. ASSUME NEW o \in ReservedOps, NEW t \in Tokens, TryReserve(o, t)
        PROVE  Serving' \subseteq Serving
    BY <1>3, <2>2 DEF TryReserve
  <2>3. ASSUME NEW o \in Ops, NEW t \in Tokens, CancelOperation(o, t)
        PROVE  Serving' \subseteq Serving
    BY <1>3, <2>3 DEF CancelOperation
  <2>4. ASSUME NEW o \in PlainOps, PlainArrive(o) PROVE Serving' \subseteq Serving
    <3>1. o \in Ops BY DEF Ops
    <3>2. handler' = [handler EXCEPT ![o] = [Idle EXCEPT !.pc = "waiting", !.gen = config]]
      BY <1>1, <2>4, <3>1 DEF PlainArrive
    <3>3. handler'[o].pc = "waiting" BY <1>0, <3>1, <3>2 DEF Idle
    <3> QED BY <1>5, <2>4, <3>1, <3>2, <3>3 DEF PlainArrive
  <2> QED BY <1>6, <2>1, <2>2, <2>3, <2>4 DEF Callers
<1>7. ASSUME NEW o \in Ops, Progress(o) PROVE Serving' \subseteq Serving
  <2>1. CASE ExpireReservation(o) BY <1>3, <2>1 DEF ExpireReservation
  <2>2. CASE PlainAdmit(o) BY <1>1, <2>2 DEF PlainAdmit
  <2>3. CASE Bind(o) \/ AbandonBeforeBind(o) \/ PlainGiveUp(o) \/ ConnectionFinished(o)
    <3>1. handler' = [handler EXCEPT ![o] = Idle] /\ UNCHANGED config
      BY <1>2, <2>3 DEF Bind, AbandonBeforeBind, PlainGiveUp, ConnectionFinished
    <3>2. handler'[o].pc = "idle" BY <1>0, <3>1 DEF Idle
    <3> QED BY <1>5, <3>1, <3>2
  <2>4. CASE PlainResume(o) \/ Interrupted(o) \/ \E outcome \in Finished : UpstreamEnds(o, outcome)
    <3>1. /\ handler'[o].pc = "closing" /\ UNCHANGED config
          /\ \A p \in Ops \ {o} : handler'[p] = handler[p]
      BY <1>0, <1>2, <2>4 DEF PlainResume, Interrupted, UpstreamEnds, Handlers
    <3> QED BY <1>5, <3>1
  <2>5. CASE IdleRetry(o)
    <3>1. /\ handler'[o].pc = handler[o].pc /\ handler'[o].gen = handler[o].gen
          /\ \A p \in Ops \ {o} : handler'[p] = handler[p]
      BY <1>0, <2>5 DEF IdleRetry, Handlers
    <3> QED BY <2>5, <3>1 DEF IdleRetry, Serving
  <2> QED BY <1>7, <2>1, <2>2, <2>3, <2>4, <2>5 DEF Progress
<1> QED BY <1>4, <1>6, <1>7 DEF Next

(* The LLM never serves more requests of the generation in place than its  *)
(* capacity, as long as no slot was taken during a start or a stop: the    *)
(* guard of try_reserve and _connection_started holds on every path that   *)
(* returns a slot, through stops and restarts.                             *)
THEOREM CapacityCorrect == Spec => []CapacityRespected
<1>1. TypeOK /\ Accounting /\ DispatchHasProcess /\ ~Stopping => CapacityRespected
  BY ServingHold DEF CapacityRespected, Serving
<1>4. (TypeOK /\ Accounting /\ DispatchHasProcess /\ ~Stopping => CapacityRespected)'
  BY <1>1, PTL
<1>2. Init => ~Stopping BY DEF Init, Stopping
<1>3. /\ TypeOK /\ Shape /\ Accounting /\ DispatchHasProcess /\ CapacityRespected
      /\ TypeOK' /\ Accounting' /\ DispatchHasProcess'
      /\ [Next]_vars
      => CapacityRespected'
  <2> SUFFICES ASSUME TypeOK, Shape, Accounting, DispatchHasProcess, CapacityRespected,
                      TypeOK', Accounting', DispatchHasProcess', [Next]_vars, ~overlap'
               PROVE  Cardinality(Serving') <= Capacity
    BY DEF CapacityRespected, Serving
  <2>1. CASE ~Stopping'
    BY <1>4, <2>1 DEF CapacityRespected, Serving
  <2>2. ~overlap
    BY DEF Next, vars, Process, Callers, Progress, StartServer, StartReady, StartFails, StopBegin,
           StopEnd, TryReserve, Consume, CancelOperation, ExpireReservation, Bind,
           AbandonBeforeBind, PlainArrive, PlainAdmit, PlainGiveUp, PlainResume,
           UpstreamEnds, Interrupted, IdleRetry, ConnectionFinished, TakeSlot
  <2>3. Cardinality(Serving) <= Capacity BY <2>2 DEF CapacityRespected, Serving
  <2>4. CASE UNCHANGED <<config, handler>>
    <3>1. Serving' = Serving BY <2>4 DEF Serving
    <3> QED BY <2>3, <3>1
  <2>5. CASE Stopping /\ Next
    <3>1. Serving' \subseteq Serving BY <2>2, <2>5, StopAddsNone
    <3>2. IsFiniteSet(Serving)
      <4>1. Serving \subseteq Ops BY DEF Serving
      <4> QED BY <4>1, SlotAssumption, FS_Subset
    <3>3. /\ Cardinality(Serving') <= Cardinality(Serving)
          /\ Cardinality(Serving') \in Nat /\ Cardinality(Serving) \in Nat
      BY <3>1, <3>2, FS_Subset, FS_CardinalityType
    <3> QED BY <2>3, <3>3, SlotAssumption
  <2>6. CASE ~Stopping /\ Stopping' /\ Next
    <3>1. \E s \in Stoppers : StopBegin(s)
      BY <2>6 DEF Stopping, Next, Process, Callers, Progress, StartServer, StartReady, StartFails,
             StopEnd, TryReserve, Consume, CancelOperation, ExpireReservation, Bind,
             AbandonBeforeBind, PlainArrive, PlainAdmit, PlainGiveUp, PlainResume,
             UpstreamEnds, Interrupted, IdleRetry, ConnectionFinished
    <3>2. UNCHANGED <<config, handler>> BY <3>1 DEF StopBegin
    <3> QED BY <2>4, <3>2
  <2> QED BY <2>1, <2>4, <2>5, <2>6 DEF vars
<1> QED BY <1>1, <1>2, <1>3, TypeCorrect, ShapeCorrect, AccountingCorrect,
           DispatchHasProcessAlways, PTL DEF Spec
-------------------------------------------------------------------------------
(* Who returns a slot.  A reservation has its timer until a dispatch binds *)
(* itself; a dispatch that has bound itself returns the slot when it ends. *)
OwnerOf(o) ==
    /\ ops[o].status = "reserved" => ops[o].timer
    /\ ops[o].status = "active" =>
          \/ handler[o].pc \in {"idle", "consumed"} /\ ops[o].timer
          \/ handler[o].pc \in {"admitted", "running", "closing"}
    /\ ops[o].status = "cancelling" =>
          handler[o].pc \in {"waiting", "admitted", "running", "closing"}

(* Only reservations have timers.                                          *)
TimerHasToken(o) == ops[o].timer => ops[o].token # NoToken

Ownership == /\ \A o \in Ops : TimerHasToken(o)
             /\ \A o \in Ops \ gapHit : OwnerOf(o)

(* What has been sent to the LLM for an operation that is reserved: one    *)
(* request, once a dispatch consumed the reservation.                      *)
ReservedContacts(o) ==
    /\ contacts[o] <= 1
    /\ contacts[o] = 1 => ops[o].dispatched
    /\ ops[o].status \in {"absent", "reserved"} => ~ops[o].dispatched
    /\ ops[o].status # "queued"
    /\ handler[o].pc = "consumed" => ops[o].dispatched /\ contacts[o] = 0
    /\ handler[o].pc \in {"consumed", "running"} => handler[o].token # NoToken
    /\ handler[o].pc \notin {"waiting", "admitted"}

(* What has been sent to the LLM without a reservation: nothing before the *)
(* slot is taken, then one request and one more for each retry.            *)
PlainContacts(o) ==
    /\ contacts[o] <= 1 + MaxIdleRetries
    /\ ops[o].status = "absent" => contacts[o] = 0
    /\ ops[o].status # "reserved"
    /\ handler[o].pc # "consumed"
    /\ handler[o].pc \in {"waiting", "admitted"} => contacts[o] = 0 /\ handler[o].retries = 0
    /\ handler[o].pc = "running" => contacts[o] <= 1 + handler[o].retries

Contacting == /\ \A o \in ReservedOps : ReservedContacts(o)
              /\ \A o \in PlainOps : PlainContacts(o)

(* What one operation does next, by its callers or by itself.              *)
OperationStep(o) ==
    \/ o \in ReservedOps /\ \E t \in Tokens : TryReserve(o, t) \/ Consume(o, t)
    \/ \E t \in Tokens : CancelOperation(o, t)
    \/ o \in PlainOps /\ PlainArrive(o)
    \/ Progress(o)

(* A step is one of the process or one of an operation.                    *)
LEMMA StepsByOperation == Next => Process \/ \E o \in Ops : OperationStep(o)
BY DEF Next, Callers, OperationStep, Ops

(* A step of one operation leaves the others as they are.                  *)
LEMMA OthersUntouched ==
    ASSUME TypeOK, NEW o \in Ops, OperationStep(o)
    PROVE  /\ \A p \in Ops \ {o} : /\ ops'[p] = ops[p] /\ handler'[p] = handler[p]
                                   /\ contacts'[p] = contacts[p]
           /\ gapHit \subseteq gapHit'
<1>0. /\ handler \in [Ops -> Handlers] /\ ops \in [Ops -> Operations]
      /\ contacts \in [Ops -> Nat]
  BY DEF TypeOK
<1> DEFINE Rest == /\ \A p \in Ops \ {o} : /\ ops'[p] = ops[p] /\ handler'[p] = handler[p]
                                           /\ contacts'[p] = contacts[p]
                   /\ gapHit \subseteq gapHit'
<1>1. ASSUME NEW t \in Tokens, TryReserve(o, t) \/ Consume(o, t) PROVE Rest
  BY <1>0, <1>1 DEF TryReserve, Consume
<1>2. ASSUME NEW op, TakeSlot(o, op), UNCHANGED gapHit PROVE Rest
  BY <1>0, <1>2 DEF TakeSlot
<1>3. CASE PlainArrive(o) \/ PlainAdmit(o)
  <2>1. CASE PlainArrive(o) BY <1>0, <1>2, <2>1 DEF PlainArrive
  <2>2. CASE PlainAdmit(o) BY <1>2, <2>2 DEF PlainAdmit
  <2> QED BY <1>3, <2>1, <2>2
<1>4. CASE Bind(o) \/ PlainResume(o)
  BY <1>0, <1>4 DEF Bind, PlainResume, BindAndContact
<1>5. ASSUME NEW t \in Tokens, CancelOperation(o, t) PROVE Rest
  BY <1>0, <1>5 DEF CancelOperation, ReleaseSlot, WithGap
<1>6. CASE ExpireReservation(o)
  BY <1>0, <1>6 DEF ExpireReservation, ReleaseSlot, WithGap
<1>7. CASE AbandonBeforeBind(o) \/ PlainGiveUp(o) \/ ConnectionFinished(o)
  BY <1>0, <1>7 DEF AbandonBeforeBind, PlainGiveUp, ConnectionFinished
<1>8. CASE IdleRetry(o) \/ Interrupted(o)
  BY <1>0, <1>8 DEF IdleRetry, Interrupted
<1>9. ASSUME NEW outcome \in Finished, UpstreamEnds(o, outcome) PROVE Rest
  BY <1>0, <1>9 DEF UpstreamEnds
<1> QED BY <1>1, <1>3, <1>4, <1>5, <1>6, <1>7, <1>8, <1>9 DEF OperationStep, Progress

(* An operation that is being cancelled or is over. *)
IsEnding(o) == ops[o].status \in Finished \union {"cancelling"}

(* A dispatch sends a request to the LLM only while its operation is       *)
(* active, or in the very step that makes it active: never once it was     *)
(* cancelled, failed or completed, however late the dispatch comes.        *)
THEOREM NoContactAfterTheEnd ==
    Spec => [][\A o \in Ops : IsEnding(o) => contacts'[o] = contacts[o]]_vars
<1>1. TypeOK /\ [Next]_vars => [\A o \in Ops : IsEnding(o) => contacts'[o] = contacts[o]]_vars
  <2> USE DEF IsEnding
  <2> SUFFICES ASSUME TypeOK, Next, NEW p \in Ops, IsEnding(p)
               PROVE  contacts'[p] = contacts[p]
    OBVIOUS
  <2>0. contacts \in [Ops -> Nat] BY DEF TypeOK
  <2>1. CASE Process
    BY <2>1 DEF Process, StartServer, StartReady, StartFails, StopBegin, StopEnd
  <2>2. ASSUME NEW o \in Ops, o # p, OperationStep(o) PROVE contacts'[p] = contacts[p]
    BY <2>2, OthersUntouched
  <2>3. CASE OperationStep(p)
    <3>1. ops[p].status \notin {"absent", "queued", "active"} BY DEF Finished
    <3>2. CASE \/ \E t \in Tokens : TryReserve(p, t) \/ Consume(p, t) \/ CancelOperation(p, t)
               \/ ExpireReservation(p) \/ AbandonBeforeBind(p) \/ PlainGiveUp(p)
               \/ (\E outcome \in Finished : UpstreamEnds(p, outcome))
               \/ Interrupted(p) \/ ConnectionFinished(p)
      BY <3>2 DEF TryReserve, Consume, CancelOperation, ExpireReservation, AbandonBeforeBind,
                  PlainGiveUp, UpstreamEnds, Interrupted, ConnectionFinished
    <3>3. CASE Bind(p) \/ PlainResume(p)
      BY <3>1, <3>3 DEF Bind, PlainResume, StillActive
    <3>4. CASE PlainArrive(p) \/ PlainAdmit(p) \/ IdleRetry(p)
      BY <3>1, <3>4 DEF PlainArrive, PlainAdmit, IdleRetry
    <3> QED BY <2>3, <3>2, <3>3, <3>4 DEF OperationStep, Progress
  <2> QED BY <2>1, <2>2, <2>3, StepsByOperation
<1> QED BY <1>1, TypeCorrect, PTL DEF Spec

-------------------------------------------------------------------------------
(* What a step of the process leaves of an operation: a stop ends it, and  *)
(* nothing else touches it.                                                *)
LEMMA ProcessStep ==
    ASSUME TypeOK, Process, NEW o \in Ops
    PROVE  /\ UNCHANGED <<handler, contacts, gapHit>>
           /\ ops'[o] = ops[o] \/ ops'[o] = FinishedAs(ops[o], "failed")
BY DEF TypeOK, Process, StartServer, StartReady, StartFails, StopBegin, StopEnd, FenceOperations

(* An operation that has ended needs nobody to return its slot.            *)
LEMMA EndedNeedsNoOwner ==
    ASSUME TypeOK, NEW o \in Ops, NEW outcome \in Finished, TimerHasToken(o),
           \/ ops'[o] = FinishedAs(ops[o], outcome)
           \/ ops'[o].status \in Finished \union {"absent"} /\ ~ops'[o].timer
    PROVE  TimerHasToken(o)' /\ OwnerOf(o)'
<1>1. ops[o] \in Operations BY DEF TypeOK
<1>2. ops'[o].status \notin {"reserved", "active", "cancelling"}
  BY <1>1 DEF FinishedAs, Operations, Finished, Unfinished
<1>3. TimerHasToken(o)'
  BY <1>1 DEF FinishedAs, Operations, Finished, Unfinished, TimerHasToken
<1> QED BY <1>2, <1>3 DEF OwnerOf

(* What a dispatch that binds itself leaves: an active operation without a *)
(* timer, and a coroutine that will return the slot.                       *)
LEMMA BoundDispatch ==
    ASSUME TypeOK, NEW o \in Ops, StillActive(o), BindAndContact(o)
    PROVE  /\ ops'[o].status = "active" /\ ops'[o].timer = FALSE
           /\ ops'[o].dispatched = ops[o].dispatched
           /\ handler'[o].token = handler[o].token /\ handler'[o].retries = handler[o].retries
           /\ \/ handler'[o].pc = "running" /\ contacts'[o] = contacts[o] + 1
              \/ handler'[o].pc = "closing" /\ contacts'[o] = contacts[o]
<1>1. /\ ops[o] \in Operations /\ handler[o] \in Handlers
      /\ ops \in [Ops -> Operations] /\ handler \in [Ops -> Handlers]
      /\ contacts \in [Ops -> Nat]
  BY DEF TypeOK
<1>2. ops'[o].status = "active" /\ ops'[o].timer = FALSE /\ ops'[o].dispatched = ops[o].dispatched
  BY <1>1 DEF BindAndContact, StillActive, Operations
<1>3. handler'[o].token = handler[o].token /\ handler'[o].retries = handler[o].retries
  BY <1>1 DEF BindAndContact, Handlers
<1>4. \/ handler'[o].pc = "running" /\ contacts'[o] = contacts[o] + 1
      \/ handler'[o].pc = "closing" /\ contacts'[o] = contacts[o]
  BY <1>1 DEF BindAndContact, Handlers
<1> QED BY <1>2, <1>3, <1>4

(* What taking a slot without a reservation leaves.                        *)
LEMMA SlotTaken ==
    ASSUME TypeOK, NEW o \in Ops, NEW op \in Operations, TakeSlot(o, op)
    PROVE  /\ ops'[o].status = "active" /\ ops'[o].timer = op.timer
           /\ ops'[o].token = op.token
           /\ handler'[o].retries = 0
           /\ \/ handler'[o].pc = "running" /\ contacts'[o] = contacts[o] + 1
              \/ handler'[o].pc = "admitted" /\ contacts'[o] = contacts[o]
<1>1. /\ ops \in [Ops -> Operations] /\ handler \in [Ops -> Handlers]
      /\ contacts \in [Ops -> Nat]
  BY DEF TypeOK
<1>2. ops'[o] = [op EXCEPT !.status = "active"]
  BY <1>1 DEF TakeSlot
<1>3. ops'[o].status = "active" /\ ops'[o].timer = op.timer /\ ops'[o].token = op.token
  BY <1>2 DEF Operations
<1>4. /\ handler'[o].retries = 0
      /\ \/ handler'[o].pc = "running" /\ contacts'[o] = contacts[o] + 1
         \/ handler'[o].pc = "admitted" /\ contacts'[o] = contacts[o]
  BY <1>1 DEF TakeSlot, Idle
<1> QED BY <1>3, <1>4

(* A step of an operation leaves it an owner of its slot, unless it is one *)
(* of those that a cancellation or the timer hit between consume and bind. *)
LEMMA OwnershipStep ==
    ASSUME TypeOK, TypeOK', Shape, NEW o \in Ops, OperationStep(o), TimerHasToken(o),
           o \notin gapHit => OwnerOf(o)
    PROVE  TimerHasToken(o)' /\ (o \notin gapHit' => OwnerOf(o)')
<1>0. /\ ops[o] \in Operations /\ handler[o] \in Handlers
      /\ ops \in [Ops -> Operations] /\ handler \in [Ops -> Handlers]
      /\ NoToken \notin Tokens /\ ShapeOf(o)
  BY SlotAssumption DEF TypeOK, Shape
<1> DEFINE Kept == TimerHasToken(o)' /\ (o \notin gapHit' => OwnerOf(o)')
<1>1. ASSUME NEW t \in Tokens, TryReserve(o, t) PROVE Kept
  <2>1. ops'[o] = [status |-> "reserved", gen |-> config, token |-> t,
                   dispatched |-> FALSE, timer |-> TRUE]
    BY <1>0, <1>1 DEF TryReserve
  <2> QED BY <1>0, <2>1 DEF OwnerOf, TimerHasToken
<1>2. ASSUME NEW t \in Tokens, Consume(o, t) PROVE Kept
  <2>1. /\ ops'[o].status = "active" /\ ops'[o].timer = ops[o].timer
        /\ ops'[o].token = ops[o].token /\ gapHit' = gapHit
    BY <1>0, <1>2 DEF Consume, Operations
  <2>2. handler'[o].pc = "consumed"
    BY <1>0, <1>2 DEF Consume, Idle
  <2> QED BY <1>0, <1>2, <2>1, <2>2 DEF OwnerOf, TimerHasToken, Consume, Consumable
<1>3. ASSUME ReleaseSlot(o) PROVE Kept
  <2>1. ops'[o] = FinishedAs(ops[o], "cancelled")
    BY <1>0, <1>3 DEF ReleaseSlot
  <2> QED BY <2>1, EndedNeedsNoOwner DEF Finished
<1>4. ASSUME NEW t \in Tokens, CancelOperation(o, t) PROVE Kept
  <2>1. CASE ~(Pending(o) /\ ops[o].token = t) /\ ops[o].status \in {"queued", "active"}
             /\ ops' = [ops EXCEPT ![o].status = "cancelling"] /\ gapHit' = WithGap(o)
    <3>1. /\ ops'[o].status = "cancelling" /\ ops'[o].timer = ops[o].timer
          /\ ops'[o].token = ops[o].token /\ handler' = handler
      BY <1>0, <1>4, <2>1 DEF Operations, CancelOperation
    <3>2. CASE handler[o].pc = "consumed"
      BY <2>1, <3>1, <3>2 DEF WithGap, TimerHasToken
    <3>3. CASE handler[o].pc # "consumed"
      <4>1. gapHit' = gapHit BY <2>1, <3>3 DEF WithGap
      <4>2. o \notin gapHit => handler[o].pc # "idle"
        BY <1>0, <1>4, <2>1 DEF CancelOperation, TokenAccepted, Pending, TaskDone, ShapeOf,
           OwnerOf, TimerHasToken
      <4>3. handler[o].pc \in {"idle", "waiting", "admitted", "running", "closing"}
        BY <1>0, <3>3 DEF Handlers
      <4> QED BY <3>1, <4>1, <4>2, <4>3 DEF OwnerOf, TimerHasToken
    <3> QED BY <3>2, <3>3
  <2> QED BY <1>3, <1>4, <2>1 DEF CancelOperation
<1>5. ASSUME ExpireReservation(o) PROVE Kept
  <2>1. CASE Pending(o) BY <1>3, <1>5, <2>1 DEF ExpireReservation
  <2>2. CASE ~Pending(o)
    <3>1. /\ ops'[o].status = ops[o].status /\ ops'[o].timer = FALSE
          /\ handler' = handler /\ gapHit' = WithGap(o)
      BY <1>0, <1>5, <2>2 DEF ExpireReservation, Operations
    <3>2. CASE handler[o].pc = "consumed"
      BY <3>1, <3>2 DEF WithGap, TimerHasToken
    <3>3. CASE handler[o].pc # "consumed"
      <4>1. gapHit' = gapHit BY <3>1, <3>3 DEF WithGap
      <4>2. handler[o].pc = "idle" BY <1>0, <1>5, <3>3 DEF ShapeOf, ExpireReservation
      <4> QED BY <2>2, <3>1, <4>1, <4>2 DEF OwnerOf, TimerHasToken, Pending, TaskDone
    <3> QED BY <3>2, <3>3
  <2> QED BY <2>1, <2>2
<1>6. ASSUME Bind(o) \/ PlainResume(o) PROVE Kept
  <2>1. CASE StillActive(o) /\ BindAndContact(o)
    <3>1. /\ ops'[o].status = "active" /\ ops'[o].timer = FALSE
          /\ handler'[o].pc \in {"running", "closing"}
      BY <2>1, BoundDispatch
    <3> QED BY <3>1 DEF OwnerOf, TimerHasToken
  <2>2. CASE ~StillActive(o) /\ ops' = ops
    <3>1. gapHit' = gapHit /\ (handler'[o].pc = "idle" \/ handler'[o].pc = "closing")
      BY <1>0, <1>6, <2>2 DEF Bind, PlainResume, Idle, Handlers
    <3>2. o \notin gapHit => ops[o].status # "cancelling" \/ handler'[o].pc = "closing"
      BY <1>0, <1>6, <2>2 DEF Bind, PlainResume, OwnerOf, Handlers
    <3>3. TimerHasToken(o)' BY <2>2 DEF TimerHasToken
    <3>4. ops'[o].status # "active" BY <2>2 DEF StillActive
    <3>5. o \notin gapHit => (ops'[o].status = "reserved" => ops'[o].timer)
      BY <2>2 DEF OwnerOf
    <3> QED BY <2>2, <3>1, <3>2, <3>3, <3>4, <3>5 DEF OwnerOf
  <2> QED BY <1>6, <2>1, <2>2 DEF Bind, PlainResume
<1>7. ASSUME AbandonBeforeBind(o) PROVE Kept
  <2>1. /\ handler[o].pc = "consumed" /\ handler'[o].pc = "idle"
        /\ ops' = ops /\ gapHit' = gapHit
    BY <1>0, <1>7 DEF AbandonBeforeBind, Idle
  <2> QED BY <2>1 DEF OwnerOf, TimerHasToken
<1>8. ASSUME NEW op \in Operations, TakeSlot(o, op), ~op.timer PROVE Kept
  <2>1. /\ ops'[o].status = "active" /\ ops'[o].timer = op.timer
        /\ handler'[o].pc \in {"running", "admitted"}
    BY <1>8, SlotTaken
  <2> QED BY <1>8, <2>1 DEF OwnerOf, TimerHasToken
<1>9. ASSUME PlainArrive(o) PROVE Kept
  <2> DEFINE op == [NoOp EXCEPT !.status = "queued", !.gen = config]
  <2>1. op \in Operations /\ op.timer = FALSE /\ op.status = "queued"
    BY EmptyRecords DEF NoOp, Operations, Unfinished, TypeOK
  <2> HIDE DEF op
  <2>2. CASE TakeSlot(o, op) BY <1>8, <2>1, <2>2
  <2>3. CASE ops' = [ops EXCEPT ![o] = op]
    BY <1>0, <2>1, <2>3 DEF OwnerOf, TimerHasToken
  <2> QED BY <1>9, <2>2, <2>3 DEF PlainArrive, op
<1>10. ASSUME PlainAdmit(o) PROVE Kept
  <2>1. ~ops[o].timer BY <1>0, <1>10 DEF PlainAdmit, ShapeOf
  <2> QED BY <1>0, <1>8, <1>10, <2>1 DEF PlainAdmit
<1>11. ASSUME PlainGiveUp(o) \/ ConnectionFinished(o) PROVE Kept
  <2>1. PICK outcome \in Finished : ops'[o] = FinishedAs(ops[o], outcome)
    BY <1>0, <1>11 DEF PlainGiveUp, ConnectionFinished, Handlers, Finished
  <2> QED BY <2>1, EndedNeedsNoOwner
<1>12. ASSUME \/ IdleRetry(o) \/ Interrupted(o)
              \/ \E outcome \in Finished : UpstreamEnds(o, outcome)
       PROVE  Kept
  <2>1. /\ handler[o].pc \in {"admitted", "running"} /\ handler'[o].pc \in {"running", "closing"}
        /\ ops' = ops /\ gapHit' = gapHit
    BY <1>0, <1>12 DEF IdleRetry, Interrupted, UpstreamEnds, Handlers
  <2> QED BY <2>1 DEF OwnerOf, TimerHasToken
<1> QED BY <1>1, <1>2, <1>4, <1>5, <1>6, <1>7, <1>9, <1>10, <1>11, <1>12
    DEF OperationStep, Progress

(* Every held slot has somebody that will return it: the timer of its      *)
(* reservation, or the coroutine of its dispatch.                          *)
THEOREM HeldSlotsAreOwned == Spec => []HeldSlotHasOwner
<1>1. Init => Ownership
  BY DEF Init, Ownership, TimerHasToken, OwnerOf, NoOp
<1>2. TypeOK /\ TypeOK' /\ Shape /\ Ownership /\ [Next]_vars => Ownership'
  <2> SUFFICES ASSUME TypeOK, TypeOK', Shape, Ownership, [Next]_vars, NEW p \in Ops
               PROVE  TimerHasToken(p)' /\ (p \notin gapHit' => OwnerOf(p)')
    BY DEF Ownership
  <2>0. TimerHasToken(p) /\ (p \notin gapHit => OwnerOf(p))
    BY DEF Ownership
  <2>1. ASSUME UNCHANGED <<ops[p], handler[p]>>, gapHit \subseteq gapHit'
        PROVE  TimerHasToken(p)' /\ (p \notin gapHit' => OwnerOf(p)')
    BY <2>0, <2>1 DEF TimerHasToken, OwnerOf
  <2>2. CASE Process
    <3>1. /\ UNCHANGED <<handler, gapHit>>
          /\ ops'[p] = ops[p] \/ ops'[p] = FinishedAs(ops[p], "failed")
      BY <2>2, ProcessStep
    <3> QED BY <2>0, <2>1, <3>1, EndedNeedsNoOwner DEF Finished
  <2>3. ASSUME NEW o \in Ops, o # p, OperationStep(o)
        PROVE  TimerHasToken(p)' /\ (p \notin gapHit' => OwnerOf(p)')
    BY <2>1, <2>3, OthersUntouched
  <2>4. CASE OperationStep(p) BY <2>0, <2>4, OwnershipStep
  <2>5. CASE UNCHANGED vars BY <2>1, <2>5 DEF vars
  <2> QED BY <2>2, <2>3, <2>4, <2>5, StepsByOperation
<1>3. Ownership => HeldSlotHasOwner
  BY DEF Ownership, OwnerOf, HeldSlotHasOwner, Holds
<1> QED BY <1>1, <1>2, <1>3, TypeCorrect, ShapeCorrect, PTL DEF Spec

-------------------------------------------------------------------------------
(* A step of a reserved operation sends at most one request, and only for  *)
(* a reservation that was consumed just now.                               *)
LEMMA ReservedContactsStep ==
    ASSUME TypeOK, TypeOK', Shape, NEW o \in ReservedOps, OperationStep(o), ReservedContacts(o)
    PROVE  ReservedContacts(o)'
<1>0. /\ ops[o] \in Operations /\ handler[o] \in Handlers /\ contacts[o] \in Nat
      /\ ops \in [Ops -> Operations] /\ handler \in [Ops -> Handlers]
      /\ contacts \in [Ops -> Nat]
      /\ o \in Ops /\ o \notin PlainOps /\ NoToken \notin Tokens /\ ShapeOf(o)
  BY SlotAssumption DEF TypeOK, Shape, Ops
<1>1. ASSUME NEW t \in Tokens, TryReserve(o, t) PROVE ReservedContacts(o)'
  <2>1. /\ ops'[o].status = "reserved" /\ ops'[o].dispatched = FALSE
        /\ handler' = handler /\ contacts' = contacts
    BY <1>0, <1>1 DEF TryReserve
  <2>2. ~ops[o].dispatched /\ handler[o].pc \notin {"consumed", "running"}
    BY <1>0, <1>1 DEF TryReserve, Reservable, ReservedContacts, ShapeOf
  <2>3. contacts[o] <= 1 /\ contacts[o] # 1 /\ handler[o].pc \notin {"waiting", "admitted"}
    BY <2>2 DEF ReservedContacts
  <2> QED BY <2>1, <2>2, <2>3 DEF ReservedContacts
<1>2. ASSUME NEW t \in Tokens, Consume(o, t) PROVE ReservedContacts(o)'
  <2>1. /\ ops'[o].status = "active" /\ ops'[o].dispatched = TRUE /\ contacts' = contacts
    BY <1>0, <1>2 DEF Consume, Operations
  <2>2. handler'[o].pc = "consumed" /\ handler'[o].token # NoToken
    BY <1>0, <1>2 DEF Consume, Idle
  <2>3. contacts[o] = 0
    BY <1>0, <1>2 DEF Consume, Consumable, ReservedContacts
  <2> QED BY <2>1, <2>2, <2>3 DEF ReservedContacts
<1>3. ASSUME NEW outcome \in Finished, UNCHANGED contacts[o],
             ops'[o] = FinishedAs(ops[o], outcome),
             handler'[o] = handler[o] \/ handler'[o].pc = "idle"
      PROVE  ReservedContacts(o)'
  <2>1. /\ ops'[o].dispatched = ops[o].dispatched /\ ops'[o].status # "queued"
        /\ ops'[o].status \in {"absent", "reserved"} => ops[o].status = ops'[o].status
    BY <1>0, <1>3 DEF FinishedAs, Operations, Finished, Unfinished, ReservedContacts
  <2> QED BY <1>3, <2>1 DEF ReservedContacts
<1>4. ASSUME UNCHANGED <<contacts[o], handler[o]>>, ops'[o].dispatched = ops[o].dispatched,
             ops'[o].status = ops[o].status \/ ops'[o].status = "cancelling"
      PROVE  ReservedContacts(o)'
  BY <1>4 DEF ReservedContacts
<1>5. ASSUME NEW t \in Tokens, CancelOperation(o, t) PROVE ReservedContacts(o)'
  <2>1. CASE ReleaseSlot(o)
    BY <1>0, <1>3, <1>5, <2>1 DEF ReleaseSlot, CancelOperation, Finished
  <2>2. CASE ops' = [ops EXCEPT ![o].status = "cancelling"]
    <3>1. ops'[o].status = "cancelling" /\ ops'[o].dispatched = ops[o].dispatched
      BY <1>0, <2>2 DEF Operations
    <3> QED BY <1>4, <1>5, <3>1 DEF CancelOperation
  <2> QED BY <1>5, <2>1, <2>2 DEF CancelOperation
<1>6. ASSUME ExpireReservation(o) PROVE ReservedContacts(o)'
  <2>1. CASE ReleaseSlot(o)
    BY <1>0, <1>3, <1>6, <2>1 DEF ReleaseSlot, ExpireReservation, Finished
  <2>2. CASE ops' = [ops EXCEPT ![o].timer = FALSE]
    <3>1. ops'[o].status = ops[o].status /\ ops'[o].dispatched = ops[o].dispatched
      BY <1>0, <2>2 DEF Operations
    <3> QED BY <1>4, <1>6, <3>1 DEF ExpireReservation
  <2> QED BY <1>6, <2>1, <2>2 DEF ExpireReservation
<1>7. ASSUME Bind(o) PROVE ReservedContacts(o)'
  <2>1. contacts[o] = 0 /\ ops[o].dispatched /\ handler[o].pc = "consumed"
    BY <1>7 DEF Bind, ReservedContacts
  <2>2. CASE StillActive(o) /\ BindAndContact(o)
    <3>1. handler[o].token # NoToken BY <2>1 DEF ReservedContacts
    <3>2. /\ ops'[o].status = "active" /\ ops'[o].dispatched = ops[o].dispatched
          /\ handler'[o].token = handler[o].token /\ handler'[o].retries = handler[o].retries
          /\ \/ handler'[o].pc = "running" /\ contacts'[o] = contacts[o] + 1
             \/ handler'[o].pc = "closing" /\ contacts'[o] = contacts[o]
      BY <1>0, <2>2, BoundDispatch
    <3> QED BY <2>1, <3>1, <3>2 DEF ReservedContacts
  <2>3. CASE UNCHANGED <<ops, contacts>> /\ handler'[o].pc = "idle"
    BY <2>1, <2>3 DEF ReservedContacts
  <2> QED BY <1>0, <1>7, <2>2, <2>3 DEF Bind, Idle
<1>8. ASSUME UNCHANGED <<ops[o], contacts[o]>>, handler'[o].pc \in {"idle", "closing"}
      PROVE  ReservedContacts(o)'
  BY <1>8 DEF ReservedContacts
<1>9. ASSUME \/ AbandonBeforeBind(o) \/ Interrupted(o)
             \/ \E outcome \in Finished : UpstreamEnds(o, outcome)
      PROVE  ReservedContacts(o)'
  BY <1>0, <1>8, <1>9 DEF AbandonBeforeBind, Interrupted, UpstreamEnds, Idle, Handlers
<1>10. ~(PlainAdmit(o) \/ PlainGiveUp(o) \/ PlainResume(o) \/ IdleRetry(o))
  BY DEF PlainAdmit, PlainGiveUp, PlainResume, IdleRetry, Replayable, ReservedContacts
<1>11. ASSUME ConnectionFinished(o) PROVE ReservedContacts(o)'
  <2>1. handler[o].outcome \in Finished /\ ops'[o] = FinishedAs(ops[o], handler[o].outcome)
    BY <1>0, <1>11 DEF ConnectionFinished, Handlers, Finished
  <2>2. handler'[o].pc = "idle" /\ contacts' = contacts
    BY <1>0, <1>11 DEF ConnectionFinished, Idle
  <2> QED BY <1>3, <2>1, <2>2
<1> QED BY <1>0, <1>1, <1>2, <1>5, <1>6, <1>7, <1>9, <1>10, <1>11
    DEF OperationStep, Progress

(* A step of an operation that is not reserved sends its first request     *)
(* when it takes a slot, and one more per retry.                           *)
LEMMA PlainContactsStep ==
    ASSUME TypeOK, TypeOK', Shape, NEW o \in PlainOps, OperationStep(o), PlainContacts(o)
    PROVE  PlainContacts(o)'
<1>0. /\ ops[o] \in Operations /\ handler[o] \in Handlers /\ contacts[o] \in Nat
      /\ ops \in [Ops -> Operations] /\ handler \in [Ops -> Handlers]
      /\ contacts \in [Ops -> Nat]
      /\ o \in Ops /\ o \notin ReservedOps /\ ShapeOf(o)
      /\ handler[o].retries \in {0, 1} /\ MaxIdleRetries = 1
  BY SlotAssumption DEF TypeOK, Shape, Ops, Handlers, MaxIdleRetries
<1>1. ~\E t \in Tokens : Consume(o, t)
  BY DEF Consume, Consumable, PlainContacts
<1>2. ASSUME UNCHANGED <<contacts[o], handler[o]>>, ops'[o].status \notin {"absent", "reserved"}
      PROVE  PlainContacts(o)'
  BY <1>2 DEF PlainContacts
<1>3. ASSUME NEW outcome \in Finished, ops'[o] = FinishedAs(ops[o], outcome)
      PROVE  /\ ops'[o].status = "absent" => ops[o].status = "absent"
             /\ ops'[o].status # "reserved"
  BY <1>0, <1>3 DEF FinishedAs, Operations, Finished, Unfinished, PlainContacts
<1>4. ASSUME UNCHANGED contacts[o], handler'[o].pc \in {"idle", "closing"},
             ops'[o].status = "absent" => ops[o].status = "absent",
             ops'[o].status # "reserved"
      PROVE  PlainContacts(o)'
  BY <1>4 DEF PlainContacts
<1>5. ASSUME \/ ExpireReservation(o) \/ \E t \in Tokens : CancelOperation(o, t)
      PROVE  PlainContacts(o)'
  <2>1. handler' = handler /\ contacts' = contacts
    BY <1>5 DEF ExpireReservation, CancelOperation
  <2>2. /\ ops'[o].status = "absent" => ops[o].status = "absent"
        /\ ops'[o].status # "reserved"
    <3>1. CASE ReleaseSlot(o)
      <4>1. ops'[o] = FinishedAs(ops[o], "cancelled") BY <1>0, <3>1 DEF ReleaseSlot
      <4> QED BY <1>3, <4>1 DEF Finished
    <3>2. CASE ops' = [ops EXCEPT ![o].status = "cancelling"]
      BY <1>0, <3>2 DEF Operations
    <3>3. CASE ops' = [ops EXCEPT ![o].timer = FALSE]
      BY <1>0, <3>3 DEF Operations, PlainContacts
    <3> QED BY <1>5, <3>1, <3>2, <3>3 DEF ExpireReservation, CancelOperation
  <2> QED BY <2>1, <2>2 DEF PlainContacts
<1>6. ASSUME NEW op \in Operations, TakeSlot(o, op), contacts[o] = 0
      PROVE  PlainContacts(o)'
  <2>1. /\ ops'[o].status = "active" /\ handler'[o].retries = 0
        /\ \/ handler'[o].pc = "running" /\ contacts'[o] = contacts[o] + 1
           \/ handler'[o].pc = "admitted" /\ contacts'[o] = contacts[o]
    BY <1>0, <1>6, SlotTaken
  <2> QED BY <1>0, <1>6, <2>1 DEF PlainContacts
<1>7. ASSUME PlainArrive(o) PROVE PlainContacts(o)'
  <2> DEFINE op == [NoOp EXCEPT !.status = "queued", !.gen = config]
  <2>1. op \in Operations /\ op.status = "queued"
    BY EmptyRecords DEF NoOp, Operations, Unfinished, TypeOK
  <2> HIDE DEF op
  <2>2. contacts[o] = 0 BY <1>7 DEF PlainArrive, PlainContacts
  <2>3. CASE TakeSlot(o, op) BY <1>6, <2>1, <2>2, <2>3
  <2>4. CASE /\ ops' = [ops EXCEPT ![o] = op] /\ contacts' = contacts
             /\ handler' = [handler EXCEPT ![o] = [Idle EXCEPT !.pc = "waiting", !.gen = config]]
    <3>1. handler'[o].pc = "waiting" /\ handler'[o].retries = 0
      BY <1>0, <2>4 DEF Idle
    <3>2. ops'[o].status = "queued" BY <1>0, <2>1, <2>4
    <3> QED BY <1>0, <2>2, <2>4, <3>1, <3>2 DEF PlainContacts
  <2> QED BY <1>7, <2>3, <2>4 DEF PlainArrive, op
<1>8. ASSUME PlainAdmit(o) PROVE PlainContacts(o)'
  BY <1>0, <1>6, <1>8 DEF PlainAdmit, PlainContacts
<1>9. ASSUME PlainResume(o) PROVE PlainContacts(o)'
  <2>1. contacts[o] = 0 /\ handler[o].retries = 0
    BY <1>9 DEF PlainResume, PlainContacts
  <2>2. CASE StillActive(o) /\ BindAndContact(o)
    <3>1. /\ ops'[o].status = "active" /\ ops'[o].dispatched = ops[o].dispatched
          /\ handler'[o].token = handler[o].token /\ handler'[o].retries = handler[o].retries
          /\ \/ handler'[o].pc = "running" /\ contacts'[o] = contacts[o] + 1
             \/ handler'[o].pc = "closing" /\ contacts'[o] = contacts[o]
      BY <1>0, <2>2, BoundDispatch
    <3> QED BY <1>0, <2>1, <3>1 DEF PlainContacts
  <2>3. CASE UNCHANGED <<ops, contacts>> /\ handler'[o].pc = "closing"
    BY <1>4, <2>3 DEF PlainContacts
  <2> QED BY <1>0, <1>9, <2>2, <2>3 DEF PlainResume, Handlers
<1>10. ASSUME IdleRetry(o) PROVE PlainContacts(o)'
  <2>1. /\ handler'[o].pc = "running" /\ handler'[o].retries = handler[o].retries + 1
        /\ contacts'[o] = contacts[o] + 1 /\ ops' = ops
        /\ handler[o].pc = "running" /\ handler[o].retries < MaxIdleRetries
        /\ ops[o].status = "active"
    BY <1>0, <1>10 DEF IdleRetry, Replayable, Handlers
  <2> QED BY <1>0, <2>1 DEF PlainContacts
<1>11. ASSUME PlainGiveUp(o) \/ ConnectionFinished(o) PROVE PlainContacts(o)'
  <2>1. PICK outcome \in Finished : ops'[o] = FinishedAs(ops[o], outcome)
    BY <1>0, <1>11 DEF PlainGiveUp, ConnectionFinished, Handlers, Finished
  <2>2. contacts' = contacts /\ handler'[o].pc = "idle"
    BY <1>0, <1>11 DEF PlainGiveUp, ConnectionFinished, Idle
  <2> QED BY <1>3, <1>4, <2>1, <2>2
<1>12. ASSUME Interrupted(o) \/ \E outcome \in Finished : UpstreamEnds(o, outcome)
       PROVE  PlainContacts(o)'
  <2>1. ops' = ops /\ contacts' = contacts /\ handler'[o].pc = "closing"
    BY <1>0, <1>12 DEF Interrupted, UpstreamEnds, Handlers
  <2> QED BY <1>4, <2>1 DEF PlainContacts
<1>13. ~Bind(o) /\ ~AbandonBeforeBind(o)
  BY DEF Bind, AbandonBeforeBind, PlainContacts
<1> QED BY <1>0, <1>1, <1>5, <1>7, <1>8, <1>9, <1>10, <1>11, <1>12, <1>13
    DEF OperationStep, Progress

(* How often the LLM may be contacted for one operation. *)
AtMostOneContact ==
    \A o \in Ops : contacts[o] <= IF o \in ReservedOps THEN 1 ELSE 1 + MaxIdleRetries

(* A request reaches the LLM at most once when its slot was reserved,      *)
(* however often it is reserved, cancelled, expired and reserved again,    *)
(* and once more per retry otherwise.                                      *)
THEOREM ContactedAtMostOnce == Spec => []AtMostOneContact
<1>1. Init => Contacting
  BY SlotAssumption
  DEF Init, Contacting, ReservedContacts, PlainContacts, NoOp, Idle, MaxIdleRetries, Ops
<1>2. TypeOK /\ TypeOK' /\ Shape /\ Contacting /\ [Next]_vars => Contacting'
  <2> SUFFICES ASSUME TypeOK, TypeOK', Shape, Contacting, [Next]_vars, NEW p \in Ops
               PROVE  /\ p \in ReservedOps => ReservedContacts(p)'
                      /\ p \in PlainOps => PlainContacts(p)'
    BY DEF Contacting, Ops
  <2>0. /\ p \in ReservedOps => ReservedContacts(p)
        /\ p \in PlainOps => PlainContacts(p)
    BY DEF Contacting
  <2>1. ASSUME UNCHANGED <<ops[p], handler[p], contacts[p]>>
        PROVE  /\ p \in ReservedOps => ReservedContacts(p)'
               /\ p \in PlainOps => PlainContacts(p)'
    BY <2>0, <2>1 DEF ReservedContacts, PlainContacts
  <2>2. ASSUME UNCHANGED <<handler, contacts>>, ops'[p] = FinishedAs(ops[p], "failed")
        PROVE  /\ p \in ReservedOps => ReservedContacts(p)'
               /\ p \in PlainOps => PlainContacts(p)'
    <3>1. ops[p] \in Operations BY DEF TypeOK
    <3>2. /\ ops'[p].dispatched = ops[p].dispatched
          /\ ops'[p].status = ops[p].status \/ ops'[p].status = "failed"
      BY <2>2, <3>1 DEF FinishedAs, Operations
    <3> QED BY <2>0, <2>2, <3>2 DEF ReservedContacts, PlainContacts
  <2>3. CASE Process BY <2>1, <2>2, <2>3, ProcessStep
  <2>4. ASSUME NEW o \in Ops, o # p, OperationStep(o)
        PROVE  /\ p \in ReservedOps => ReservedContacts(p)'
               /\ p \in PlainOps => PlainContacts(p)'
    BY <2>1, <2>4, OthersUntouched
  <2>5. CASE OperationStep(p)
    BY <2>0, <2>5, ReservedContactsStep, PlainContactsStep
  <2>6. CASE UNCHANGED vars BY <2>1, <2>6 DEF vars
  <2> QED BY <2>3, <2>4, <2>5, <2>6, StepsByOperation
<1>3. Contacting => AtMostOneContact
  BY DEF Contacting, ReservedContacts, PlainContacts, AtMostOneContact, Ops
<1> QED BY <1>1, <1>2, <1>3, TypeCorrect, ShapeCorrect, PTL DEF Spec

(* Both together: whoever contacts the LLM does it for an operation that   *)
(* is alive, and that has a contact left.                                  *)
THEOREM ContactsInTime == Spec => ContactedInTime
<1>1. /\ AtMostOneContact' /\ [\A o \in Ops : IsEnding(o) => contacts'[o] = contacts[o]]_vars
      => [\A o \in Ops : contacts'[o] # contacts[o] =>
            /\ ops[o].status \notin Finished \union {"cancelling"}
            /\ contacts'[o] <= IF o \in ReservedOps THEN 1 ELSE 1 + MaxIdleRetries]_vars
  BY DEF AtMostOneContact, IsEnding
<1> QED BY <1>1, NoContactAfterTheEnd, ContactedAtMostOnce, PTL DEF ContactedInTime

-------------------------------------------------------------------------------
(* The contract.  What the broker may conclude from a generation: an       *)
(* operation that is alive belongs to the process that runs, and a process *)
(* that is coming up has a generation no operation was given before.       *)
CurrentOp(o) ==
    /\ ops[o].gen <= latest
    /\ ~overlap /\ ops[o].status \in Unfinished => ~Unsettled /\ config # 0 /\ ops[o].gen = config
    /\ ~overlap /\ starting => ops[o].gen < config

LiveIsCurrent == \A o \in Ops : CurrentOp(o)

(* finish_operation touches neither the generation nor the dispatched flag. *)
LEMMA FinishedAsIdentity ==
    ASSUME NEW p \in Operations, NEW outcome \in Finished
    PROVE  LET r == FinishedAs(p, outcome) IN
             /\ r.gen = p.gen /\ r.token = p.token /\ r.dispatched = p.dispatched
             /\ r.status \notin Unfinished
BY DEF FinishedAs, Operations, Finished, Unfinished

(* While no process is up, there is a free slot for whoever comes. *)
LEMMA UnsettledIsFree == ASSUME Accounting, ~overlap, Unsettled PROVE SlotFree
<1>1. active = 0 BY FS_EmptySet DEF Accounting
<1> QED BY <1>1, SlotAssumption DEF SlotFree

(* A slot taken at a bad moment is remembered. *)
LEMMA OverlapKept ==
    ASSUME overlap' = (overlap \/ Unsettled)
    PROVE  (overlap => overlap') /\ (overlap' \/ ~Unsettled)
BY Zenon

(* What an operation's own step does to what the registry says of it: it   *)
(* keeps its generation and, once over, its end; or it is new to the       *)
(* process that runs.                                                      *)
LEMMA RecordStep ==
    ASSUME TypeOK, Accounting, NEW o \in Ops, OperationStep(o)
    PROVE  /\ UNCHANGED <<config, latest, starting, stopGen>> /\ (overlap => overlap')
           /\ \/ /\ ops'[o].gen = ops[o].gen
                 /\ ops'[o].status \in Unfinished => ops[o].status \in Unfinished
              \/ config # 0 /\ ops'[o].gen = config /\ (overlap' \/ ~Unsettled)
<1>0. /\ ops[o] \in Operations /\ ops \in [Ops -> Operations]
  BY DEF TypeOK
<1> DEFINE Stays == /\ ops'[o].gen = ops[o].gen
                    /\ ops'[o].status \in Unfinished => ops[o].status \in Unfinished
           Comes == config # 0 /\ ops'[o].gen = config /\ (overlap' \/ ~Unsettled)
           Rest == UNCHANGED <<config, latest, starting, stopGen>> /\ (overlap => overlap')
<1>1. ASSUME NEW t \in Tokens, TryReserve(o, t) PROVE Rest /\ Comes
  <2>1. overlap' = (overlap \/ Unsettled) BY Zenon, <1>1 DEF TryReserve
  <2> QED BY <1>0, <1>1, <2>1, OverlapKept DEF TryReserve
<1>2. ASSUME NEW t \in Tokens, Consume(o, t) PROVE Rest /\ Stays
  BY <1>0, <1>2 DEF Consume, Consumable, Operations, Unfinished
<1>3. ASSUME ReleaseSlot(o) PROVE Stays
  <2>1. ops'[o] = FinishedAs(ops[o], "cancelled") /\ "cancelled" \in Finished
    BY <1>0, <1>3 DEF ReleaseSlot, Finished
  <2> QED BY <1>0, <2>1, FinishedAsIdentity
<1>4. ASSUME NEW t \in Tokens, CancelOperation(o, t) PROVE Rest /\ Stays
  <2>1. CASE ReleaseSlot(o) BY <1>3, <1>4, <2>1 DEF CancelOperation
  <2>2. CASE /\ ops[o].status \in {"queued", "active"}
             /\ ops' = [ops EXCEPT ![o].status = "cancelling"]
    BY <1>0, <1>4, <2>2 DEF CancelOperation, Operations, Unfinished
  <2> QED BY <1>4, <2>1, <2>2 DEF CancelOperation
<1>5. CASE ExpireReservation(o)
  <2>1. CASE ReleaseSlot(o) BY <1>3, <1>5, <2>1 DEF ExpireReservation
  <2>2. CASE ops' = [ops EXCEPT ![o].timer = FALSE]
    BY <1>0, <1>5, <2>2 DEF ExpireReservation, Operations
  <2> QED BY <1>5, <2>1, <2>2 DEF ExpireReservation
<1>6. CASE Bind(o) \/ PlainResume(o)
  <2>1. ops'[o] = ops[o] \/ ops'[o] = [ops[o] EXCEPT !.timer = FALSE]
    BY <1>0, <1>6 DEF Bind, PlainResume, BindAndContact
  <2>2. Stays BY <1>0, <2>1 DEF Operations
  <2> QED BY <1>6, <2>2 DEF Bind, PlainResume
<1>7. CASE PlainArrive(o)
  <2> DEFINE q == [NoOp EXCEPT !.status = "queued", !.gen = config]
  <2>1. ops'[o] = q \/ ops'[o] = [q EXCEPT !.status = "active"]
    BY <1>0, <1>7 DEF PlainArrive, TakeSlot
  <2>2. ops'[o].gen = config BY <2>1 DEF NoOp
  <2>3. CASE TakeSlot(o, q)
    <3>1. overlap' = (overlap \/ Unsettled) BY Zenon, <2>3 DEF TakeSlot
    <3> QED BY <1>7, <2>2, <3>1, OverlapKept DEF PlainArrive
  <2>4. CASE ~SlotFree /\ UNCHANGED overlap
    <3>1. overlap' \/ ~Unsettled BY <2>4, UnsettledIsFree
    <3> QED BY <1>7, <2>2, <2>4, <3>1 DEF PlainArrive
  <2> QED BY <1>7, <2>3, <2>4 DEF PlainArrive
<1>8. CASE PlainAdmit(o)
  <2>1. ops'[o] = [ops[o] EXCEPT !.status = "active"] /\ ops[o].status = "queued"
    BY <1>0, <1>8 DEF PlainAdmit, TakeSlot
  <2>2. Stays BY <1>0, <2>1 DEF Operations, Unfinished
  <2>3. overlap' = (overlap \/ Unsettled) BY Zenon, <1>8 DEF PlainAdmit, TakeSlot
  <2> QED BY <1>8, <2>2, <2>3, OverlapKept DEF PlainAdmit
<1>9. CASE PlainGiveUp(o) \/ ConnectionFinished(o)
  <2>1. handler[o].outcome \in Finished BY DEF TypeOK, Handlers, Finished
  <2>2. PICK outcome \in Finished : ops'[o] = FinishedAs(ops[o], outcome)
    BY <1>0, <1>9, <2>1 DEF PlainGiveUp, ConnectionFinished, Finished
  <2>3. Stays BY <1>0, <2>2, FinishedAsIdentity
  <2> QED BY <1>9, <2>3 DEF PlainGiveUp, ConnectionFinished
<1>10. CASE AbandonBeforeBind(o) \/ IdleRetry(o) \/ Interrupted(o)
  BY <1>10 DEF AbandonBeforeBind, IdleRetry, Interrupted
<1>11. ASSUME NEW outcome \in Finished, UpstreamEnds(o, outcome) PROVE Rest /\ Stays
  BY <1>11 DEF UpstreamEnds
<1> QED BY <1>1, <1>2, <1>4, <1>5, <1>6, <1>7, <1>8, <1>9, <1>10, <1>11
        DEF OperationStep, Progress

(* The generation an operation was given identifies its process: no live   *)
(* operation outlasts its process, and none is taken for one of the next.  *)
THEOREM LiveIsCurrentAlways == Spec => []LiveIsCurrent
<1>1. Init => LiveIsCurrent
  BY SlotAssumption DEF Init, LiveIsCurrent, CurrentOp, NoOp, Gens, Unfinished
<1>2. TypeOK /\ Shape /\ Accounting /\ LiveIsCurrent /\ [Next]_vars => LiveIsCurrent'
  <2> SUFFICES ASSUME TypeOK, Shape, Accounting, LiveIsCurrent, [Next]_vars, NEW p \in Ops
               PROVE  CurrentOp(p)'
    BY DEF LiveIsCurrent
  <2>0. /\ CurrentOp(p) /\ ops[p] \in Operations /\ ops[p].gen \in Nat
        /\ config \in Nat /\ latest \in Nat /\ config <= latest
    BY SlotAssumption DEF LiveIsCurrent, TypeOK, Operations, Gens, Shape
  <2>1. ASSUME NEW g \in Gens, StartServer(g) PROVE CurrentOp(p)'
    <3>1. /\ g \in Nat /\ g > latest /\ config = 0 /\ config' = g /\ latest' = g
          /\ ops' = ops /\ overlap' = overlap
      BY <2>1, SlotAssumption DEF StartServer, Gens
    <3> QED BY <2>0, <3>1 DEF CurrentOp
  <2>2. CASE StartReady \/ StartFails
    <3>1. /\ ops' = ops /\ overlap' = overlap /\ latest' = latest
          /\ starting /\ starting' = FALSE
      BY <2>2 DEF StartReady, StartFails
    <3> QED BY <2>0, <3>1 DEF CurrentOp, Unsettled
  <2>3. ASSUME NEW s \in Stoppers, StopBegin(s) PROVE CurrentOp(p)'
    <3>1. /\ ops'[p] = FinishedAs(ops[p], "failed") /\ overlap' = overlap
          /\ UNCHANGED <<latest, config, starting>>
      BY <2>3 DEF StopBegin, FenceOperations
    <3>2. ops'[p].gen = ops[p].gen /\ ops'[p].status \notin Unfinished
      BY <2>0, <3>1, FinishedAsIdentity DEF Finished
    <3> QED BY <2>0, <3>1, <3>2 DEF CurrentOp
  <2>4. ASSUME NEW s \in Stoppers, StopEnd(s) PROVE CurrentOp(p)'
    <3>1. /\ ops' = ops /\ overlap' = overlap /\ latest' = latest
          /\ starting' = FALSE /\ Stopping
      BY <2>4 DEF StopEnd, Stopping
    <3> QED BY <2>0, <3>1 DEF CurrentOp, Unsettled
  <2>5. ASSUME NEW o \in Ops, OperationStep(o) PROVE CurrentOp(p)'
    <3>1. /\ UNCHANGED <<config, latest, starting, stopGen>> /\ (overlap => overlap')
      BY <2>5, RecordStep
    <3>2. Unsettled' = Unsettled BY <3>1 DEF Unsettled, Stopping
    <3>3. CASE o # p
      <4>1. ops'[p] = ops[p] BY <2>5, <3>3, OthersUntouched
      <4> QED BY <2>0, <3>1, <3>2, <4>1 DEF CurrentOp
    <3>4. CASE o = p
      <4>1. \/ /\ ops'[p].gen = ops[p].gen
               /\ ops'[p].status \in Unfinished => ops[p].status \in Unfinished
            \/ config # 0 /\ ops'[p].gen = config /\ (overlap' \/ ~Unsettled)
        BY <2>5, <3>4, RecordStep
      <4> QED BY <2>0, <3>1, <3>2, <4>1 DEF CurrentOp, Unsettled
    <3> QED BY <3>3, <3>4
  <2>6. CASE UNCHANGED vars BY <2>0, <2>6 DEF vars, CurrentOp, Unsettled, Stopping
  <2> QED BY <2>1, <2>2, <2>3, <2>4, <2>5, <2>6, StepsByOperation DEF Process
<1> QED BY <1>1, <1>2, TypeCorrect, ShapeCorrect, AccountingCorrect, PTL DEF Spec

-------------------------------------------------------------------------------
(* The refinement: every step of the registry, its timers and coroutines   *)
(* is a step of AgentContract or one it does not see.                      *)

(* The slots the contract counts are those the counter stands for.         *)
LEMMA SlotsAreHolders == Contract!Slots("llama-server") = Holders
<1>1. \A o \in Ops : Registry["llama-server"][o].status \in Contract!Live \ {"queued"} <=> Holds(o)
  BY DEF Registry, Reported, Contract!Live, Holds
<1> QED BY <1>1 DEF Contract!Slots, Holders

(* The contract finds a slot free when the counter does. *)
LEMMA FreeWhenCounted ==
    ASSUME Accounting, ~overlap, SlotFree PROVE Contract!Free("llama-server")
<1>1. Cardinality(Holders) < Capacity BY DEF Accounting, SlotFree
<1> QED BY <1>1, SlotsAreHolders DEF Contract!Free, Contract!Cardinality, Cardinality

(* What the contract sees of a step of one operation. *)
LEMMA ViewOfStep ==
    ASSUME NEW o \in Ops, NEW r, Reported(o)' = r,
           \A p \in Ops \ {o} : ops'[p] = ops[p] /\ handler'[p] = handler[p],
           UNCHANGED <<config, starting, stopGen>>
    PROVE  Contract!Becomes("llama-server", o, r)
<1>1. \A p \in Ops \ {o} : Reported(p)' = Reported(p)
  BY DEF Reported
<1>2. Running' = Running
  BY DEF Running, Unsettled, Stopping
<1>3. Registry' = [Registry EXCEPT !["llama-server"][o] = r]
  BY <1>1 DEF Registry
<1> QED BY <1>2, <1>3 DEF Contract!Becomes

(* A step that changes no more than timers, tasks and tokens is not seen.  *)
LEMMA ViewUnchanged ==
    ASSUME \A o \in Ops : Reported(o)' = Reported(o), Running' = Running
    PROVE  UNCHANGED <<Registry, Running>>
BY DEF Registry

(* The process as the contract sees it. *)
LEMMA ProcessSeen ==
    /\ Running["llama-server"] = IF Unsettled THEN 0 ELSE config
    /\ \A o \in Ops : Registry["llama-server"][o] = Reported(o)
BY DEF Running, Registry

(* An operation is reported alive as long as it is not over.               *)
LEMMA LiveAsReported ==
    ASSUME NEW o \in Ops
    PROVE  Reported(o).status \in Contract!Live <=> ops[o].status \in Unfinished
BY DEF Reported, Contract!Live, Unfinished

(* What the contract sees of a process that comes or goes.                 *)
LEMMA ReplacementSeen ==
    ASSUME NEW g \in Gens, Running' = [s \in {"llama-server"} |-> g],
           Running["llama-server"] # g, g # 0 => \A o \in Ops : ops[o].gen # g,
           \A o \in Ops : Reported(o)' = Contract!Over(Reported(o))
    PROVE  Contract!Replace("llama-server")
<1>1. Running' = [Running EXCEPT !["llama-server"] = g]
  BY DEF Running
<1>2. Registry' = [Registry EXCEPT !["llama-server"] =
                     [o \in Ops |-> Contract!Over(Registry["llama-server"][o])]]
  BY DEF Registry
<1>3. \A o \in Ops : Registry["llama-server"][o].gen = ops[o].gen
  BY DEF Registry, Reported
<1> QED BY <1>1, <1>2, <1>3 DEF Contract!Replace

(* A start that is done and a stop that begins replace the process; the    *)
(* other steps of either change nothing the broker could rely on.          *)
LEMMA ProcessKeepsContract ==
    ASSUME TypeOK, LiveIsCurrent, ~overlap, Process
    PROVE  Contract!Replace("llama-server") \/ UNCHANGED <<Registry, Running>>
<1>0. /\ config \in Gens /\ 0 \in Gens /\ config \in Nat
      /\ \A o \in Ops : ops[o] \in Operations /\ ops[o].gen \in Nat
  BY SlotAssumption DEF TypeOK, Operations, Gens
<1>1. ASSUME ops' = ops, handler' = handler, Running' = Running
      PROVE  UNCHANGED <<Registry, Running>>
  BY <1>1, ViewUnchanged DEF Reported
<1>2. ASSUME NEW g \in Gens, StartServer(g) PROVE UNCHANGED <<Registry, Running>>
  <2>1. Running' = Running BY <1>2 DEF StartServer, Running, Unsettled, Stopping
  <2> QED BY <1>1, <1>2, <2>1 DEF StartServer
<1>3. CASE StartFails
  <2>1. Running' = Running BY <1>3 DEF StartFails, Running, Unsettled, Stopping
  <2> QED BY <1>1, <1>3, <2>1 DEF StartFails
<1>4. ASSUME NEW s \in Stoppers, StopEnd(s) PROVE UNCHANGED <<Registry, Running>>
  <2>1. Running' = Running BY <1>4 DEF StopEnd, Running, Unsettled, Stopping
  <2> QED BY <1>1, <1>4, <2>1 DEF StopEnd
<1>5. CASE StartReady
  <2>1. /\ ops' = ops /\ handler' = handler /\ config' = config
        /\ starting /\ ~starting' /\ Stopping' = Stopping
    BY <1>5 DEF StartReady, Stopping
  <2>2. CASE Stopping \/ config = 0
    <3>1. Running' = Running BY <2>1, <2>2 DEF Running, Unsettled
    <3> QED BY <1>1, <2>1, <3>1
  <2>3. CASE ~Stopping /\ config # 0
    <3>1. /\ Running' = [s \in {"llama-server"} |-> config]
          /\ Running["llama-server"] # config
      BY <2>1, <2>3, ProcessSeen DEF Running, Unsettled
    <3>2. ASSUME NEW o \in Ops
          PROVE  ops[o].gen # config /\ Reported(o)' = Contract!Over(Reported(o))
      <4>1. ops[o].gen < config /\ ops[o].status \notin Unfinished
        BY <2>1 DEF LiveIsCurrent, CurrentOp, Unsettled
      <4>2. Contract!Over(Reported(o)) = Reported(o)
        BY <4>1, LiveAsReported DEF Contract!Over
      <4>3. Reported(o)' = Reported(o) BY <2>1 DEF Reported
      <4> QED BY <1>0, <4>1, <4>2, <4>3
    <3> QED BY <1>0, <3>1, <3>2, ReplacementSeen
  <2> QED BY <2>2, <2>3
<1>6. ASSUME NEW s \in Stoppers, StopBegin(s)
      PROVE  Contract!Replace("llama-server") \/ UNCHANGED <<Registry, Running>>
  <2>1. /\ ops' = [o \in Ops |-> FinishedAs(ops[o], "failed")] /\ handler' = handler
        /\ config # 0
    BY <1>6 DEF StopBegin, FenceOperations
  <2>2. Stopping' BY <1>6 DEF StopBegin, Stopping, TypeOK
  <2>3. Running' = [t \in {"llama-server"} |-> 0]
    BY <2>2 DEF Running, Unsettled
  <2>4. CASE Unsettled
    <3>1. \A o \in Ops : ops[o].status \notin Unfinished
      BY <2>4 DEF LiveIsCurrent, CurrentOp
    <3>2. \A o \in Ops : ops'[o] = ops[o] BY <2>1, <3>1 DEF FinishedAs
    <3>3. \A o \in Ops : Reported(o)' = Reported(o) BY <2>1, <3>2 DEF Reported
    <3>4. Running' = Running BY <2>3, <2>4 DEF Running
    <3> QED BY <3>3, <3>4, ViewUnchanged
  <2>5. CASE ~Unsettled
    <3>1. Running["llama-server"] # 0 BY <2>1, <2>5, ProcessSeen
    <3>2. ASSUME NEW o \in Ops PROVE Reported(o)' = Contract!Over(Reported(o))
      <4>0. ops'[o] = FinishedAs(ops[o], "failed") /\ ops[o] \in Operations
        BY <1>0, <2>1
      <4>1. CASE ops[o].status \in Unfinished
        <5>1. /\ ops'[o].status = "failed" /\ ops'[o].gen = ops[o].gen
              /\ ops'[o].token = ops[o].token /\ ops'[o].dispatched = ops[o].dispatched
          BY <4>0, <4>1 DEF FinishedAs, Operations
        <5>2. Reported(o)' = [Reported(o) EXCEPT !.status = "failed"]
          BY <5>1 DEF Reported
        <5> QED BY <4>1, <5>2, LiveAsReported DEF Contract!Over
      <4>2. CASE ops[o].status \notin Unfinished
        <5>1. ops'[o] = ops[o] BY <4>0, <4>2 DEF FinishedAs
        <5>2. Reported(o)' = Reported(o) BY <2>1, <5>1 DEF Reported
        <5> QED BY <4>2, <5>2, LiveAsReported DEF Contract!Over
      <4> QED BY <4>1, <4>2
    <3> QED BY <1>0, <2>3, <3>1, <3>2, ReplacementSeen
  <2> QED BY <2>4, <2>5
<1> QED BY <1>2, <1>3, <1>4, <1>5, <1>6 DEF Process

(* What the contract allows one operation. *)
Promised(o) ==
    \/ Contract!Reserve("llama-server", o) \/ Contract!Enlist("llama-server", o)
    \/ Contract!Admit("llama-server", o) \/ Contract!Dispatch("llama-server", o)
    \/ Contract!Cancel("llama-server", o) \/ Contract!End("llama-server", o)

(* An operation that is over in one step is over for the contract.         *)
LEMMA EndSeen ==
    ASSUME TypeOK, Shape, NEW o \in Ops, NEW outcome \in Finished,
           ops'[o] = FinishedAs(ops[o], outcome),
           handler'[o].pc # "waiting" \/ handler'[o].pc = handler[o].pc,
           \A p \in Ops \ {o} : ops'[p] = ops[p] /\ handler'[p] = handler[p],
           UNCHANGED <<config, starting, stopGen>>,
           ops[o].status = "reserved" => outcome = "cancelled",
           handler[o].pc = "waiting" => outcome # "completed"
    PROVE  Promised(o) \/ UNCHANGED <<Registry, Running>>
<1>0. ops[o] \in Operations /\ ShapeOf(o) BY DEF TypeOK, Shape
<1>1. CASE ops[o].status \in Unfinished
  <2>1. /\ ops'[o].status = outcome /\ ops'[o].gen = ops[o].gen
        /\ ops'[o].token = ops[o].token /\ ops'[o].dispatched = ops[o].dispatched
    BY <1>0, <1>1 DEF FinishedAs, Operations
  <2>2. Reported(o)' = [Reported(o) EXCEPT !.status = outcome]
    BY <2>1 DEF Reported, Finished
  <2>3. Contract!Becomes("llama-server", o, [Reported(o) EXCEPT !.status = outcome])
    BY <2>2, ViewOfStep
  <2>4. \/ Reported(o).status = "reserved" /\ outcome = "cancelled"
        \/ Reported(o).status = "queued" /\ outcome # "completed"
        \/ Reported(o).status \in {"active", "cancelling"}
    BY <1>0, <1>1 DEF Reported, Unfinished, ShapeOf
  <2> QED BY <2>3, <2>4, ProcessSeen DEF Promised, Contract!End, Contract!Ended, Finished
<1>2. CASE ops[o].status \notin Unfinished
  <2>1. ops'[o] = ops[o] BY <1>2 DEF FinishedAs
  <2>2. Reported(o)' = Reported(o) BY <1>2, <2>1 DEF Reported, Unfinished
  <2>3. \A p \in Ops \ {o} : Reported(p)' = Reported(p) BY DEF Reported
  <2>4. Running' = Running BY DEF Running, Unsettled, Stopping
  <2> QED BY <2>2, <2>3, <2>4, ViewUnchanged
<1> QED BY <1>1, <1>2

(* A step that leaves what is reported of its operation is not seen.       *)
LEMMA OperationUnseen ==
    ASSUME NEW o \in Ops, Reported(o)' = Reported(o),
           \A p \in Ops \ {o} : ops'[p] = ops[p] /\ handler'[p] = handler[p],
           UNCHANGED <<config, starting, stopGen>>
    PROVE  UNCHANGED <<Registry, Running>>
<1>1. \A p \in Ops \ {o} : Reported(p)' = Reported(p) BY DEF Reported
<1>2. Running' = Running BY DEF Running, Unsettled, Stopping
<1> QED BY <1>1, <1>2, ViewUnchanged

(* Slots taken while the process is settled: reservations, their dispatch  *)
(* and what comes without one.                                             *)
LEMMA TakersKeepContract ==
    ASSUME TypeOK, Shape, Accounting, LiveIsCurrent, ~overlap, ~overlap', NEW o \in Ops,
           \/ \E t \in Tokens : TryReserve(o, t) \/ Consume(o, t)
           \/ PlainArrive(o) \/ PlainAdmit(o),
           \A p \in Ops \ {o} : ops'[p] = ops[p] /\ handler'[p] = handler[p]
    PROVE  Promised(o)
<1>0. /\ ops[o] \in Operations /\ ops \in [Ops -> Operations]
      /\ handler \in [Ops -> Handlers] /\ ShapeOf(o) /\ CurrentOp(o)
  BY DEF TypeOK, Shape, LiveIsCurrent
<1> DEFINE run == Running["llama-server"]
<1>1. ASSUME NEW t \in Tokens, TryReserve(o, t) PROVE Contract!Reserve("llama-server", o)
  <2>1. overlap' = (overlap \/ Unsettled) BY Zenon, <1>1 DEF TryReserve
  <2>2. ~Unsettled BY <2>1, OverlapKept
  <2>3. run = config /\ config # 0 BY <1>1, <2>2, ProcessSeen DEF TryReserve
  <2> DEFINE r == [status |-> "reserved", gen |-> config, attempt |-> t, dispatched |-> FALSE]
  <2>4. Reported(o)' = r BY <1>0, <1>1 DEF TryReserve, Reported
  <2>5. UNCHANGED <<config, starting, stopGen>> BY <1>1 DEF TryReserve
  <2>6. Contract!Becomes("llama-server", o, r) BY <2>4, <2>5, ViewOfStep
  <2>7. Contract!Free("llama-server") BY <1>1, FreeWhenCounted DEF TryReserve
  <2>8. \/ Reported(o).status = "absent"
        \/ Reported(o).status = "cancelled" /\ ~Reported(o).dispatched
    BY <1>1 DEF TryReserve, Reservable, Reported
  <2> QED BY <2>3, <2>6, <2>7, <2>8, ProcessSeen DEF Contract!Reserve
<1>2. ASSUME NEW t \in Tokens, Consume(o, t) PROVE Contract!Dispatch("llama-server", o)
  <2>1. ops[o].status = "reserved" /\ ops[o].gen = config BY <1>2 DEF Consume, Consumable
  <2>2. run = config BY <1>0, <2>1, ProcessSeen DEF CurrentOp, Unfinished
  <2>3. /\ ops'[o].status = "active" /\ ops'[o].dispatched = TRUE
        /\ ops'[o].gen = ops[o].gen /\ ops'[o].token = ops[o].token
    BY <1>0, <1>2 DEF Consume, Operations
  <2> DEFINE r == [status |-> "active", gen |-> ops[o].gen, attempt |-> ops[o].token,
                   dispatched |-> TRUE]
  <2>4. Reported(o)' = r BY <2>3 DEF Reported
  <2>5. UNCHANGED <<config, starting, stopGen>> BY <1>2 DEF Consume
  <2>6. Contract!Becomes("llama-server", o, r) BY <2>4, <2>5, ViewOfStep
  <2>8. r = [status |-> "active", gen |-> Reported(o).gen, attempt |-> Reported(o).attempt,
             dispatched |-> TRUE]
    BY DEF Reported
  <2>7. Reported(o).status = "reserved" /\ Reported(o).gen = config BY <2>1 DEF Reported
  <2> HIDE DEF r
  <2> QED BY <2>2, <2>6, <2>7, <2>8, ProcessSeen DEF Contract!Dispatch
<1>3. CASE PlainArrive(o)
  <2> DEFINE q == [NoOp EXCEPT !.status = "queued", !.gen = config]
  <2>1. UNCHANGED <<config, starting, stopGen>> /\ config # 0 /\ ops[o].status = "absent"
    BY <1>3 DEF PlainArrive
  <2>2. ~Unsettled
    <3>1. CASE SlotFree /\ TakeSlot(o, q)
      <4>1. overlap' = (overlap \/ Unsettled) BY Zenon, <3>1 DEF TakeSlot
      <4> QED BY <4>1, OverlapKept
    <3>2. CASE ~SlotFree BY <3>2, UnsettledIsFree
    <3> QED BY <1>3, <3>1, <3>2 DEF PlainArrive
  <2>3. run = config BY <2>2, ProcessSeen
  <2> DEFINE R(status) == [status |-> status, gen |-> config, attempt |-> NoToken,
                           dispatched |-> FALSE]
  <2>4. CASE SlotFree /\ TakeSlot(o, q)
    <3>1. ops'[o] = [q EXCEPT !.status = "active"] BY <1>0, <2>4 DEF TakeSlot
    <3>2. Reported(o)' = R("active") BY <3>1 DEF Reported, NoOp
    <3>3. Contract!Becomes("llama-server", o, R("active")) BY <2>1, <3>2, ViewOfStep
    <3>4. Contract!Free("llama-server") BY <2>4, FreeWhenCounted
    <3>5. Reported(o).status = "absent" BY <2>1 DEF Reported
    <3> QED BY <2>1, <2>3, <3>3, <3>4, <3>5, ProcessSeen DEF Promised, Contract!Enlist
  <2>5. CASE ~SlotFree
    <3>1. ops'[o] = q BY <1>0, <1>3, <2>5 DEF PlainArrive
    <3>2. Reported(o)' = R("queued") BY <3>1 DEF Reported, NoOp
    <3>3. Contract!Becomes("llama-server", o, R("queued")) BY <2>1, <3>2, ViewOfStep
    <3>4. Reported(o).status = "absent" BY <2>1 DEF Reported
    <3> QED BY <2>1, <2>3, <3>3, <3>4, ProcessSeen DEF Promised, Contract!Enlist
  <2> QED BY <1>3, <2>4, <2>5 DEF PlainArrive
<1>4. CASE PlainAdmit(o)
  <2>1. ops[o].status = "queued" /\ SlotFree /\ UNCHANGED <<config, starting, stopGen>>
    BY <1>4 DEF PlainAdmit
  <2>2. run = config /\ ops[o].gen = config
    BY <1>0, <2>1, ProcessSeen DEF CurrentOp, Unfinished
  <2>3. ops'[o] = [ops[o] EXCEPT !.status = "active"]
    BY <1>0, <1>4 DEF PlainAdmit, TakeSlot
  <2>4. /\ ops'[o].status = "active" /\ ops'[o].gen = ops[o].gen
        /\ ops'[o].token = ops[o].token /\ ops'[o].dispatched = ops[o].dispatched
    BY <1>0, <2>3 DEF Operations
  <2>5. Reported(o)' = [Reported(o) EXCEPT !.status = "active"] BY <2>4 DEF Reported
  <2>6. Contract!Becomes("llama-server", o, [Reported(o) EXCEPT !.status = "active"])
    BY <2>1, <2>5, ViewOfStep
  <2>7. Contract!Free("llama-server") BY <2>1, FreeWhenCounted
  <2>8. Reported(o).status = "queued" /\ Reported(o).gen = config BY <2>1, <2>2 DEF Reported
  <2> QED BY <2>2, <2>6, <2>7, <2>8, ProcessSeen DEF Promised, Contract!Admit
<1> QED BY <1>1, <1>2, <1>3, <1>4 DEF Promised

(* Cancellations, expiries and the end of a dispatch. *)
LEMMA GiversKeepContract ==
    ASSUME TypeOK, Shape, LiveIsCurrent, NEW o \in Ops,
           \/ \E t \in Tokens : CancelOperation(o, t)
           \/ ExpireReservation(o) \/ PlainGiveUp(o) \/ ConnectionFinished(o),
           \A p \in Ops \ {o} : ops'[p] = ops[p] /\ handler'[p] = handler[p]
    PROVE  Promised(o) \/ UNCHANGED <<Registry, Running>>
<1>0. /\ ops[o] \in Operations /\ ops \in [Ops -> Operations]
      /\ handler \in [Ops -> Handlers] /\ handler[o] \in Handlers /\ ShapeOf(o)
      /\ {"cancelled", "failed", "completed"} \subseteq Finished
  BY DEF TypeOK, Shape, Finished
<1>1. ASSUME ReleaseSlot(o), Pending(o), handler' = handler,
             UNCHANGED <<config, starting, stopGen>>
      PROVE  Promised(o) \/ UNCHANGED <<Registry, Running>>
  <2>1. ops'[o] = FinishedAs(ops[o], "cancelled") BY <1>0, <1>1 DEF ReleaseSlot
  <2> QED BY <1>0, <1>1, <2>1, EndSeen
<1>2. ASSUME NEW t \in Tokens, CancelOperation(o, t)
      PROVE  Promised(o) \/ UNCHANGED <<Registry, Running>>
  <2>0. handler' = handler /\ UNCHANGED <<config, starting, stopGen>>
    BY <1>2 DEF CancelOperation
  <2>1. CASE Pending(o) /\ ReleaseSlot(o) BY <1>1, <2>0, <2>1
  <2>2. CASE /\ ops[o].status \in {"queued", "active"}
             /\ ops' = [ops EXCEPT ![o].status = "cancelling"]
    <3>1. /\ ops'[o].status = "cancelling" /\ ops'[o].gen = ops[o].gen
          /\ ops'[o].token = ops[o].token /\ ops'[o].dispatched = ops[o].dispatched
      BY <1>0, <2>2 DEF Operations
    <3>2. CASE ops[o].status = "queued"
      <4>1. Reported(o)' = Reported(o)
        BY <1>0, <2>0, <3>1, <3>2 DEF Reported, ShapeOf
      <4> QED BY <2>0, <4>1, OperationUnseen
    <3>3. CASE ops[o].status = "active"
      <4>1. handler[o].pc # "waiting" BY <1>0, <3>3 DEF ShapeOf
      <4>2. Reported(o)' = [Reported(o) EXCEPT !.status = "cancelling"]
        BY <2>0, <3>1, <4>1 DEF Reported
      <4>3. Contract!Becomes("llama-server", o, [Reported(o) EXCEPT !.status = "cancelling"])
        BY <2>0, <4>2, ViewOfStep
      <4>4. Reported(o).status = "active" BY <3>3 DEF Reported
      <4> QED BY <4>3, <4>4, ProcessSeen DEF Promised, Contract!Cancel
    <3> QED BY <2>2, <3>2, <3>3
  <2> QED BY <1>2, <2>1, <2>2 DEF CancelOperation
<1>3. CASE ExpireReservation(o)
  <2>0. handler' = handler /\ UNCHANGED <<config, starting, stopGen>>
    BY <1>3 DEF ExpireReservation
  <2>1. CASE Pending(o) /\ ReleaseSlot(o) BY <1>1, <2>0, <2>1
  <2>2. CASE ops' = [ops EXCEPT ![o].timer = FALSE]
    <3>1. Reported(o)' = Reported(o) BY <1>0, <2>0, <2>2 DEF Reported, Operations
    <3> QED BY <2>0, <3>1, OperationUnseen
  <2> QED BY <1>3, <2>1, <2>2 DEF ExpireReservation
<1>4. CASE PlainGiveUp(o)
  <2>1. /\ handler[o].pc = "waiting" /\ handler'[o].pc # "waiting"
        /\ UNCHANGED <<config, starting, stopGen>>
    BY <1>0, <1>4 DEF PlainGiveUp, Idle
  <2>2. PICK outcome \in {"cancelled", "failed"} : ops'[o] = FinishedAs(ops[o], outcome)
    BY <1>0, <1>4 DEF PlainGiveUp
  <2>3. ops[o].status # "reserved" /\ outcome \in Finished /\ outcome # "completed"
    BY <1>0, <2>1 DEF ShapeOf
  <2> QED BY <2>1, <2>2, <2>3, EndSeen
<1>5. CASE ConnectionFinished(o)
  <2>1. /\ handler[o].pc = "closing" /\ handler'[o].pc # "waiting"
        /\ UNCHANGED <<config, starting, stopGen>>
    BY <1>0, <1>5 DEF ConnectionFinished, Idle
  <2> DEFINE outcome == handler[o].outcome
  <2>2. ops'[o] = FinishedAs(ops[o], outcome) BY <1>0, <1>5 DEF ConnectionFinished
  <2>3. ops[o].status # "reserved" /\ outcome \in Finished
    BY <1>0, <2>1 DEF ShapeOf, Handlers, Finished
  <2> QED BY <2>1, <2>2, <2>3, EndSeen
<1> QED BY <1>2, <1>3, <1>4, <1>5

(* The steps of a dispatch that the backend does not see. *)
LEMMA DispatchUnseen ==
    ASSUME TypeOK, NEW o \in Ops,
           \/ Bind(o) \/ AbandonBeforeBind(o) \/ PlainResume(o) \/ IdleRetry(o)
           \/ Interrupted(o) \/ \E outcome \in Finished : UpstreamEnds(o, outcome),
           \A p \in Ops \ {o} : ops'[p] = ops[p] /\ handler'[p] = handler[p]
    PROVE  UNCHANGED <<Registry, Running>>
<1>0. /\ ops[o] \in Operations /\ ops \in [Ops -> Operations]
      /\ handler \in [Ops -> Handlers] /\ handler[o] \in Handlers
  BY DEF TypeOK
<1>1. UNCHANGED <<config, starting, stopGen>>
  BY DEF Bind, AbandonBeforeBind, PlainResume, IdleRetry, Interrupted, UpstreamEnds
<1>2. ops'[o] = ops[o] \/ ops'[o] = [ops[o] EXCEPT !.timer = FALSE]
  BY <1>0 DEF Bind, AbandonBeforeBind, PlainResume, IdleRetry, Interrupted, UpstreamEnds,
              BindAndContact
<1>3. handler[o].pc # "waiting"
  BY DEF Bind, AbandonBeforeBind, PlainResume, IdleRetry, Interrupted, UpstreamEnds
<1>4. handler'[o].pc # "waiting"
  <2>1. CASE Bind(o) \/ PlainResume(o)
    BY <1>0, <2>1 DEF Bind, PlainResume, BindAndContact, Idle, Handlers
  <2>2. CASE AbandonBeforeBind(o) \/ IdleRetry(o) \/ Interrupted(o)
    BY <1>0, <2>2 DEF AbandonBeforeBind, IdleRetry, Interrupted, Idle, Handlers
  <2>3. ASSUME NEW outcome \in Finished, UpstreamEnds(o, outcome)
        PROVE  handler'[o].pc # "waiting"
    BY <1>0, <2>3 DEF UpstreamEnds, Handlers
  <2> QED BY <2>1, <2>2, <2>3
<1>5. Reported(o)' = Reported(o)
  <2>1. /\ ops'[o].status = ops[o].status /\ ops'[o].gen = ops[o].gen
        /\ ops'[o].token = ops[o].token /\ ops'[o].dispatched = ops[o].dispatched
    BY <1>0, <1>2 DEF Operations
  <2> QED BY <1>3, <1>4, <2>1 DEF Reported
<1> QED BY <1>1, <1>5, OperationUnseen

(* The registry, its counter, timers and coroutines implement what the     *)
(* broker relies on: an operation is never in two slots, dispatched twice, *)
(* reopened or taken for one of another process, and a process that goes   *)
(* takes its operations with it, as long as no slot was taken during a     *)
(* start or a stop.                                                        *)
THEOREM ContractKept == Spec => KeepsContract
<1>1. Init => Contract!Init
  <2> SUFFICES ASSUME Init PROVE Contract!Init
    OBVIOUS
  <2>1. \A o \in Ops : Registry["llama-server"][o].status = "absent"
    BY DEF Init, Registry, Reported, NoOp, Idle
  <2>2. Running = [s \in {"llama-server"} |-> 0]
    BY DEF Init, Running
  <2>3. (~overlap) = TRUE BY DEF Init
  <2> QED BY <2>1, <2>2, <2>3 DEF Contract!Init
<1>2. TypeOK /\ Shape /\ Accounting /\ LiveIsCurrent /\ [Next]_vars
      => [Contract!Next]_(Contract!vars)
  <2> SUFFICES ASSUME TypeOK, Shape, Accounting, LiveIsCurrent, [Next]_vars
               PROVE  Contract!Next \/ UNCHANGED Contract!vars
    OBVIOUS
  <2>1. CASE overlap' BY <2>1 DEF Contract!Next
  <2>2. CASE ~overlap'
    <3>1. ~overlap
      <4>1. ASSUME NEW o \in Ops, OperationStep(o) PROVE overlap => overlap'
        BY <4>1, RecordStep
      <4>2. CASE Process
        BY <2>2, <4>2 DEF Process, StartServer, StartReady, StartFails, StopBegin, StopEnd
      <4>3. CASE UNCHANGED vars BY <2>2, <4>3 DEF vars
      <4> QED BY <2>2, <4>1, <4>2, <4>3, StepsByOperation
    <3> SUFFICES Contract!Step \/ UNCHANGED <<Registry, Running>>
      BY <2>2, <3>1 DEF Contract!Next, Contract!vars
    <3>2. CASE Process BY <3>1, <3>2, ProcessKeepsContract DEF Contract!Step
    <3>3. ASSUME NEW o \in Ops, OperationStep(o)
          PROVE  Contract!Step \/ UNCHANGED <<Registry, Running>>
      <4>1. \A p \in Ops \ {o} : ops'[p] = ops[p] /\ handler'[p] = handler[p]
        BY <3>3, OthersUntouched
      <4>2. Promised(o) => Contract!Step BY DEF Promised, Contract!Step
      <4>3. Promised(o) \/ UNCHANGED <<Registry, Running>>
        <5>1. CASE \/ \E t \in Tokens : TryReserve(o, t) \/ Consume(o, t)
                   \/ PlainArrive(o) \/ PlainAdmit(o)
          BY <2>2, <3>1, <4>1, <5>1, TakersKeepContract
        <5>2. CASE \/ \E t \in Tokens : CancelOperation(o, t)
                   \/ ExpireReservation(o) \/ PlainGiveUp(o) \/ ConnectionFinished(o)
          BY <4>1, <5>2, GiversKeepContract
        <5>3. CASE \/ Bind(o) \/ AbandonBeforeBind(o) \/ PlainResume(o) \/ IdleRetry(o)
                   \/ Interrupted(o) \/ \E outcome \in Finished : UpstreamEnds(o, outcome)
          BY <4>1, <5>3, DispatchUnseen
        <5> QED BY <3>3, <5>1, <5>2, <5>3 DEF OperationStep, Progress
      <4> QED BY <4>2, <4>3
    <3>4. CASE UNCHANGED vars
      BY <3>4 DEF vars, Registry, Reported, Running, Unsettled, Stopping
    <3> QED BY <3>2, <3>3, <3>4, StepsByOperation
  <2> QED BY <2>1, <2>2
<1> QED BY <1>1, <1>2, TypeCorrect, ShapeCorrect, AccountingCorrect, LiveIsCurrentAlways, PTL
        DEF Spec, KeepsContract, Contract!Spec

===============================================================================
