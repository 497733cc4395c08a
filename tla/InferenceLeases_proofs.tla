------------------------ MODULE InferenceLeases_proofs ------------------------
(***************************************************************************)
(* Theorems of InferenceLeases, for any requests, servers and reconcilers: *)
(* the rows, which only go forward and keep their contract; what admission *)
(* promises, the bound on the rows of a server, the order of the queue,    *)
(* the reservation behind every lease and the leases that the reconcilers  *)
(* leave alone; and the agents, which keep theirs.                         *)
(***************************************************************************)
EXTENDS InferenceLeases, FiniteSetTheorems, TLAPS

-------------------------------------------------------------------------------
(* The invariant. *)

(* Only a request that was served has completed. *)
CompletedIsServed ==
    \A l \in Requests : own[l].outcome = "completed" =>
        own[l].pc \in {"releasing", "closing", "done", "crashed"}

(* A request that calls an agent has a server, and so have its calls. *)
CallsNameServers ==
    /\ \A m \in net : m.server \in Servers
    /\ \A l \in Requests : own[l].server = NoServer => own[l].pc \in
           {"new", "waiting", "leaving", "done", "crashed"}

(* A row that is being reserved is on the server and the generation that   *)
(* its request claimed.                                                    *)
ReservedByOwner ==
    \A l \in Requests : row[l].status = "reserving" =>
        row[l].server = own[l].server /\ row[l].gen = own[l].gen

LeaseInv ==
    /\ TypeOK /\ CompletedIsServed /\ CallsNameServers
    /\ ReservedByOwner /\ ActiveOnLiveServer

(* A request that has not been made has no row. *)
NewIsAbsent == \A l \in Requests : own[l].pc = "new" => row[l].status = "absent"

-------------------------------------------------------------------------------
(* Types.  The operators that transitions are built from keep the type of  *)
(* the variable they write.                                                *)

(* The initial records are records. *)
LEMMA NewRecords ==
    /\ NoRow \in Rows /\ NoOwner \in Owners /\ NoOp \in Operations
    /\ Idle \in Reconciliations
BY LeaseAssumption DEF NoRow, Rows, NoOwner, Owners, NoOp, Operations, Idle, Reconciliations,
   Gens, Attempts, Waiting, Terminal, Ended, Live, OwnerStates, Verdicts

(* Moving a request on. *)
LEMMA GotoType ==
    ASSUME NEW l \in Requests, NEW pc \in OwnerStates,
           own \in [Requests -> Owners], Goto(l, pc)
    PROVE  own' \in [Requests -> Owners]
<1>1. [own[l] EXCEPT !.pc = pc] \in Owners BY DEF Owners
<1> QED BY <1>1 DEF Goto

(* Giving a row another status. *)
LEMMA StatusType ==
    ASSUME NEW r \in Rows, NEW status \in {"active"} \union Waiting \union Terminal
    PROVE  [r EXCEPT !.status = status] \in Rows
BY DEF Rows

(* Putting a row back into the queue. *)
LEMMA RequeuedType ==
    ASSUME NEW r \in Rows
    PROVE  Requeued(r) \in Rows /\ Requeued(r).status = "queued"
<1>1. 0 \in Gens /\ 0 \in Attempts BY LeaseAssumption DEF Gens, Attempts
<1>2. /\ [r EXCEPT !.status = "queued"] \in Rows
      /\ \A q \in Rows : /\ [q EXCEPT !.server = NoServer] \in Rows
                         /\ [q EXCEPT !.gen = 0] \in Rows
                         /\ [q EXCEPT !.attempt = 0] \in Rows
                         /\ [q EXCEPT !.late = FALSE] \in Rows
  BY <1>1 DEF Rows, Waiting
<1>3. [r EXCEPT !.status = "queued"] \in Rows BY <1>2
<1>4. [r EXCEPT !.status = "queued", !.server = NoServer] \in Rows BY <1>2, <1>3
<1>5. [r EXCEPT !.status = "queued", !.server = NoServer, !.gen = 0] \in Rows BY <1>2, <1>4
<1>6. [r EXCEPT !.status = "queued", !.server = NoServer, !.gen = 0, !.attempt = 0] \in Rows
  BY <1>2, <1>5
<1>7. Requeued(r) \in Rows BY <1>2, <1>6 DEF Requeued
<1> QED BY <1>7 DEF Requeued, Rows

(* Ending a waiting row. *)
LEMMA FinishQueuedType ==
    ASSUME NEW l \in Requests, NEW status \in Terminal,
           row \in [Requests -> Rows], FinishQueued(l, status)
    PROVE  row' \in [Requests -> Rows]
<1>1. [row[l] EXCEPT !.status = status] \in Rows BY StatusType
<1> QED BY <1>1 DEF FinishQueued

(* Ending an active row. *)
LEMMA EndActiveType ==
    ASSUME NEW l \in Requests, NEW status \in Terminal,
           row \in [Requests -> Rows], EndActive(l, status)
    PROVE  row' \in [Requests -> Rows]
<1>1. [row[l] EXCEPT !.status = status] \in Rows BY StatusType
<1> QED BY <1>1 DEF EndActive

(* Taking rows out of the reconciliations under way. *)
LEMMA ForgottenType ==
    ASSUME NEW ls, rec \in [Reconcilers -> Reconciliations]
    PROVE  Forgotten(ls) \in [Reconcilers -> Reconciliations]
<1>1. ASSUME NEW w \in Reconcilers
      PROVE  [rec[w] EXCEPT !.due = @ \ ls, !.late = @ \ ls] \in Reconciliations
  BY DEF Reconciliations
<1> QED BY <1>1 DEF Forgotten

(* Calling the agent of a request. *)
LEMMA SendType ==
    ASSUME NEW l \in Requests, NEW kind \in {"cancel", "dispatch"},
           own \in [Requests -> Owners], net \subseteq Calls, Send(l, kind)
    PROVE  net' \subseteq Calls
<1>1. [kind |-> kind, request |-> l, server |-> own[l].server,
       gen |-> own[l].gen, attempt |-> own[l].attempt] \in Calls
  BY DEF Calls, Owners
<1> QED BY <1>1 DEF Send

(* Giving a server another status. *)
LEMMA SetServerType ==
    ASSUME NEW s \in Servers, NEW status \in {"stopped", "starting", "running", "stopping", "error"},
           NEW healthy \in BOOLEAN,
           server \in [Servers -> ServerRows], SetServer(s, status, healthy)
    PROVE  server' \in [Servers -> ServerRows]
<1>1. [server[s] EXCEPT !.status = status] \in ServerRows BY DEF ServerRows
<1> QED BY <1>1 DEF SetServer, ServerRows

(* Failing the leases of a server. *)
LEMMA InvalidateType ==
    ASSUME NEW s \in Servers, row \in [Requests -> Rows], Invalidate(s)
    PROVE  row' \in [Requests -> Rows]
<1>1. \A l \in Requests : [row[l] EXCEPT !.status = "failed"] \in Rows
  BY StatusType DEF Terminal
<1> QED BY <1>1 DEF Invalidate

(* Another process, or none, in place of an agent's process. *)
LEMMA ReplaceProcessType ==
    ASSUME NEW s \in Servers, NEW gen \in Gens, NEW up \in BOOLEAN,
           process \in [Servers -> [gen : Gens, up : BOOLEAN]],
           agent \in [Servers -> [Requests -> Operations]],
           ReplaceProcess(s, gen, up)
    PROVE  /\ process' \in [Servers -> [gen : Gens, up : BOOLEAN]]
           /\ agent' \in [Servers -> [Requests -> Operations]]
<1>1. \A l \in Requests : [agent[s][l] EXCEPT !.status = "failed"] \in Operations
  BY DEF Operations, Ended
<1>2. [l \in Requests |-> IF agent[s][l].status \in Live
                          THEN [agent[s][l] EXCEPT !.status = "failed"] ELSE agent[s][l]]
        \in [Requests -> Operations]
  BY <1>1
<1> QED BY <1>2 DEF ReplaceProcess, Fails

(* What an operation of an agent's registry becomes. *)
LEMMA AgentType ==
    ASSUME NEW s \in Servers, NEW l \in Requests, NEW op \in Operations,
           agent \in [Servers -> [Requests -> Operations]],
           agent' = [agent EXCEPT ![s][l] = op]
    PROVE  agent' \in [Servers -> [Requests -> Operations]]
<1>1. [agent[s] EXCEPT ![l] = op] \in [Requests -> Operations] OBVIOUS
<1>2. agent' = [agent EXCEPT ![s] = [agent[s] EXCEPT ![l] = op]] OBVIOUS
<1> QED BY <1>1, <1>2

(* The fields of a row can be set one by one. *)
LEMMA RowFields ==
    ASSUME NEW f \in [Requests -> Rows], NEW l \in Requests
    PROVE  /\ \A x \in {"active"} \union Waiting \union Terminal :
                 [f EXCEPT ![l].status = x] \in [Requests -> Rows]
           /\ \A x \in Servers \union {NoServer} : [f EXCEPT ![l].server = x] \in [Requests -> Rows]
           /\ \A x \in Gens : [f EXCEPT ![l].gen = x] \in [Requests -> Rows]
           /\ \A x \in Attempts : [f EXCEPT ![l].attempt = x] \in [Requests -> Rows]
           /\ \A x \in BOOLEAN : [f EXCEPT ![l].due = x] \in [Requests -> Rows]
           /\ \A x \in BOOLEAN : [f EXCEPT ![l].late = x] \in [Requests -> Rows]
           /\ \A x \in Nat : [f EXCEPT ![l].queuedAt = x] \in [Requests -> Rows]
           /\ \A x \in Nat : [f EXCEPT ![l].place = x] \in [Requests -> Rows]
<1>1. f[l] \in Rows OBVIOUS
<1>2. \A r \in Rows : [f EXCEPT ![l] = r] \in [Requests -> Rows] OBVIOUS
<1>3. \A x \in {"active"} \union Waiting \union Terminal : [f[l] EXCEPT !.status = x] \in Rows
  BY <1>1, StatusType
<1>4. \A x \in Servers \union {NoServer} : [f[l] EXCEPT !.server = x] \in Rows BY <1>1 DEF Rows
<1>5. \A x \in Gens : [f[l] EXCEPT !.gen = x] \in Rows BY <1>1 DEF Rows
<1>6. \A x \in Attempts : [f[l] EXCEPT !.attempt = x] \in Rows BY <1>1 DEF Rows
<1>7. \A x \in BOOLEAN : [f[l] EXCEPT !.due = x] \in Rows BY <1>1 DEF Rows
<1>8. \A x \in BOOLEAN : [f[l] EXCEPT !.late = x] \in Rows BY <1>1 DEF Rows
<1>9. \A x \in Nat : [f[l] EXCEPT !.queuedAt = x] \in Rows BY <1>1 DEF Rows
<1>10. \A x \in Nat : [f[l] EXCEPT !.place = x] \in Rows BY <1>1 DEF Rows
<1> QED BY <1>2, <1>3, <1>4, <1>5, <1>6, <1>7, <1>8, <1>9, <1>10

(* The same for an owner. *)
LEMMA OwnerFields ==
    ASSUME NEW f \in [Requests -> Owners], NEW l \in Requests
    PROVE  /\ \A x \in OwnerStates : [f EXCEPT ![l].pc = x] \in [Requests -> Owners]
           /\ \A x \in Servers \union {NoServer} : [f EXCEPT ![l].server = x] \in [Requests -> Owners]
           /\ \A x \in Gens : [f EXCEPT ![l].gen = x] \in [Requests -> Owners]
           /\ \A x \in Attempts : [f EXCEPT ![l].attempt = x] \in [Requests -> Owners]
           /\ \A x \in BOOLEAN : [f EXCEPT ![l].lost = x] \in [Requests -> Owners]
           /\ \A x \in Ended \union {"expired"} :
                 [f EXCEPT ![l].outcome = x] \in [Requests -> Owners]
<1>1. f[l] \in Owners OBVIOUS
<1>2. \A o \in Owners : [f EXCEPT ![l] = o] \in [Requests -> Owners] OBVIOUS
<1>3. \A x \in OwnerStates : [f[l] EXCEPT !.pc = x] \in Owners BY <1>1 DEF Owners
<1>4. \A x \in Servers \union {NoServer} : [f[l] EXCEPT !.server = x] \in Owners BY <1>1 DEF Owners
<1>5. \A x \in Gens : [f[l] EXCEPT !.gen = x] \in Owners BY <1>1 DEF Owners
<1>6. \A x \in Attempts : [f[l] EXCEPT !.attempt = x] \in Owners BY <1>1 DEF Owners
<1>7. \A x \in BOOLEAN : [f[l] EXCEPT !.lost = x] \in Owners BY <1>1 DEF Owners
<1>8. \A x \in Ended \union {"expired"} : [f[l] EXCEPT !.outcome = x] \in Owners
  BY <1>1 DEF Owners
<1> QED BY <1>2, <1>3, <1>4, <1>5, <1>6, <1>7, <1>8

(* The types of acquire()'s steps. *)
LEMMA OwnerType ==
    ASSUME TypeOK, CompletedIsServed, NEW l \in Requests, Owner(l)
    PROVE  TypeOK'
<1> USE DEF TypeOK
<1>0. /\ row[l] \in Rows /\ own[l] \in Owners
      /\ \A pc \in {"waiting", "posted", "answered", "cleanup", "requeue", "held", "leaving", "done"} :
            pc \in OwnerStates
      /\ {"cancelled", "expired", "failed"} \subseteq Terminal
  BY DEF OwnerStates, Terminal
<1>1. ASSUME NEW queuedAt \in 1..Cardinality(Requests), Enqueue(l, queuedAt) PROVE TypeOK'
  <2> DEFINE placed == {k \in Requests : row[k].place # 0}
  <2>9. IsFiniteSet(placed) BY LeaseAssumption, FS_Subset, placed \subseteq Requests
  <2>1. Cardinality(placed) + 1 \in Nat BY <2>9, FS_CardinalityType
  <2>2. Cardinality(Requests) \in Nat BY LeaseAssumption, FS_CardinalityType
  <2>3. queuedAt \in Nat BY <2>2
  <2> DEFINE r1 == [row EXCEPT ![l].status = "queued"]
             r2 == [r1 EXCEPT ![l].queuedAt = queuedAt]
  <2>4. r1 \in [Requests -> Rows] BY RowFields DEF Waiting
  <2>7. r2 \in [Requests -> Rows] BY <2>3, <2>4, RowFields
  <2>8. [r2 EXCEPT ![l].place = Cardinality(placed) + 1] \in [Requests -> Rows] BY <2>1, <2>7, RowFields
  <2>5. row' \in [Requests -> Rows] BY <1>1, <2>8 DEF Enqueue
  <2>6. own' \in [Requests -> Owners] BY <1>0, <1>1, GotoType DEF Enqueue
  <2> QED BY <1>1, <2>5, <2>6 DEF Enqueue, world
<1>2. ASSUME NEW outcome \in {"cancelled", "expired", "failed"}, GivesUp(l, outcome) PROVE TypeOK'
  <2>1. [own[l] EXCEPT !.pc = "leaving", !.outcome = outcome] \in Owners
    BY <1>0 DEF Owners, Ended
  <2> QED BY <1>2, <2>1 DEF GivesUp, world
<1>3. CASE FinishLeaving(l)
  <2>1. own[l].outcome \in Terminal
    BY <1>0, <1>3 DEF FinishLeaving, CompletedIsServed, Owners, Ended, Terminal
  <2> QED BY <1>0, <1>3, <2>1, GotoType, FinishQueuedType DEF FinishLeaving, world
<1>4. ASSUME NEW s \in Servers, Claim(l, s) PROVE TypeOK'
  <2> DEFINE attempt == own[l].attempt + 1
  <2>1. attempt \in Attempts /\ server[s].gen \in Gens BY <1>4 DEF Claim, ServerRows
  <2> DEFINE r1 == [row EXCEPT ![l].status = "reserving"]
             r2 == [r1 EXCEPT ![l].server = s]
             r3 == [r2 EXCEPT ![l].gen = server[s].gen]
             r4 == [r3 EXCEPT ![l].attempt = attempt]
             o1 == [own EXCEPT ![l].pc = "posted"]
             o2 == [o1 EXCEPT ![l].server = s]
             o3 == [o2 EXCEPT ![l].gen = server[s].gen]
  <2>7. r1 \in [Requests -> Rows] BY RowFields DEF Waiting
  <2>8. r2 \in [Requests -> Rows] BY <1>4, <2>7, RowFields
  <2>9. r3 \in [Requests -> Rows] BY <2>1, <2>8, RowFields
  <2>10. r4 \in [Requests -> Rows] BY <2>1, <2>9, RowFields
  <2>11. [r4 EXCEPT ![l].late = FALSE] \in [Requests -> Rows] BY <2>10, RowFields
  <2>3. row' \in [Requests -> Rows] BY <1>4, <2>11 DEF Claim
  <2>12. o1 \in [Requests -> Owners] BY OwnerFields DEF OwnerStates
  <2>13. o2 \in [Requests -> Owners] BY <1>4, <2>12, OwnerFields
  <2>14. o3 \in [Requests -> Owners] BY <2>1, <2>13, OwnerFields
  <2>15. [o3 EXCEPT ![l].attempt = attempt] \in [Requests -> Owners] BY <2>1, <2>14, OwnerFields
  <2>4. own' \in [Requests -> Owners] BY <1>4, <2>15 DEF Claim
  <2>5. net' \subseteq Calls BY <1>4, <2>1 DEF Claim, Calls
  <2>6. rec' \in [Reconcilers -> Reconciliations] BY <1>4, ForgottenType DEF Claim
  <2> QED BY <1>4, <2>3, <2>4, <2>5, <2>6 DEF Claim, world
<1>5. CASE PostFails(l) BY <1>0, <1>5, GotoType DEF PostFails, world
<1>6. CASE Finalize(l)
  <2> DEFINE r1 == [row EXCEPT ![l].status = "active"]
             r2 == [r1 EXCEPT ![l].due = FALSE]
  <2>1. r1 \in [Requests -> Rows] BY RowFields
  <2>5. r2 \in [Requests -> Rows] BY <2>1, RowFields
  <2>6. [r2 EXCEPT ![l].late = FALSE] \in [Requests -> Rows] BY <2>5, RowFields
  <2>2. row' \in [Requests -> Rows] BY <1>6, <2>6 DEF Finalize
  <2>3. rec' \in [Reconcilers -> Reconciliations] BY <1>6, ForgottenType DEF Finalize
  <2>4. own' \in [Requests -> Owners] BY <1>0, <1>6, GotoType DEF Finalize
  <2> QED BY <1>6, <2>2, <2>3, <2>4 DEF Finalize, world
<1>7. CASE CleanupCancel(l)
  BY <1>0, <1>7, GotoType, SendType DEF CleanupCancel, world
<1>8. CASE Requeue(l)
  <2>1. AfterCleanup(l) \in Rows BY <1>0, StatusType, RequeuedType DEF AfterCleanup
  <2> QED BY <1>0, <1>8, <2>1, GotoType DEF Requeue, world
<1>9. CASE Abort(l)
  <2>1. \A o \in Owners, pc \in OwnerStates :
           /\ [o EXCEPT !.aborted = TRUE] \in Owners
           /\ [o EXCEPT !.outcome = "cancelled"] \in Owners
           /\ [o EXCEPT !.pc = pc] \in Owners
    BY DEF Owners, Ended
  <2>2. \A o \in Owners : o.pc \in OwnerStates BY DEF Owners
  <2>3. own' \in [Requests -> Owners] BY <1>0, <1>9, <2>1, <2>2 DEF Abort
  <2> QED BY <1>9, <2>3 DEF Abort, world
<1>10. CASE WatcherSees(l)
  <2>1. [own[l] EXCEPT !.gone = TRUE] \in Owners BY <1>0 DEF Owners
  <2> QED BY <1>0, <1>10, <2>1, FinishQueuedType DEF WatcherSees, world
<1> QED BY <1>1, <1>2, <1>3, <1>4, <1>5, <1>6, <1>7, <1>8, <1>9, <1>10 DEF Owner

(* The types of the lease handle's steps. *)
LEMMA HandleType ==
    ASSUME TypeOK, NEW l \in Requests, Handle(l)
    PROVE  TypeOK'
<1> USE DEF TypeOK
<1>0. /\ row[l] \in Rows /\ own[l] \in Owners
      /\ \A pc \in {"held", "serving", "releasing", "closing", "done", "crashed"} : pc \in OwnerStates
      /\ "cancelled" \in Terminal
  BY DEF OwnerStates, Terminal
<1>1. CASE CancelHeld(l)
  BY <1>0, <1>1, GotoType, SendType, EndActiveType DEF CancelHeld, world
<1>2. CASE Dispatch(l) BY <1>0, <1>2, GotoType, SendType DEF Dispatch, world
<1>3. CASE HeldFails(l)
  <2> DEFINE o1 == [own EXCEPT ![l].pc = "releasing"]
  <2>1. o1 \in [Requests -> Owners] BY <1>0, OwnerFields
  <2>2. [o1 EXCEPT ![l].outcome = "failed"] \in [Requests -> Owners]
    BY <2>1, OwnerFields DEF Ended
  <2>3. own' \in [Requests -> Owners] BY <1>3, <2>2 DEF HeldFails
  <2> QED BY <1>3, <2>3 DEF HeldFails, world
<1>4. CASE Renew(l)
  <2>1. [row EXCEPT ![l].due = FALSE] \in [Requests -> Rows] BY RowFields
  <2>2. [own EXCEPT ![l].lost = TRUE] \in [Requests -> Owners] BY OwnerFields
  <2>3. Forgotten({l}) \in [Reconcilers -> Reconciliations] BY ForgottenType
  <2> QED BY <1>4, <2>1, <2>2, <2>3 DEF Renew, world
<1>5. CASE RenewalTimesOut(l)
  <2>1. [own EXCEPT ![l].lost = TRUE] \in [Requests -> Owners] BY OwnerFields
  <2> QED BY <1>5, <2>1 DEF RenewalTimesOut, world
<1>6. CASE DisconnectSeen(l)
  <2>1. [own EXCEPT ![l].lost = TRUE] \in [Requests -> Owners] BY OwnerFields
  <2> QED BY <1>0, <1>6, <2>1, SendType, EndActiveType DEF DisconnectSeen, world
<1>7. ASSUME NEW outcome \in Ended, ServingEnds(l, outcome) PROVE TypeOK'
  <2> DEFINE o1 == [own EXCEPT ![l].pc = "releasing"]
  <2>1. o1 \in [Requests -> Owners] BY <1>0, OwnerFields
  <2>2. [o1 EXCEPT ![l].outcome = outcome] \in [Requests -> Owners]
    BY <1>7, <2>1, OwnerFields
  <2>3. own' \in [Requests -> Owners] BY <1>7, <2>2 DEF ServingEnds
  <2> QED BY <1>7, <2>3 DEF ServingEnds, world
<1>8. CASE ReleaseCancel(l) BY <1>0, <1>8, GotoType, SendType DEF ReleaseCancel, world
<1>9. CASE ReleaseRow(l)
  <2> DEFINE status == IF own[l].outcome = "completed" THEN "released" ELSE own[l].outcome
  <2>1. status \in Terminal BY <1>0 DEF Owners, Ended, Terminal
  <2>2. EndActive(l, status) BY <1>9 DEF ReleaseRow
  <2>3. row' \in [Requests -> Rows] BY <2>1, <2>2, EndActiveType
  <2> QED BY <1>0, <1>9, <2>3, GotoType DEF ReleaseRow, world
<1>10. CASE Crash(l) BY <1>0, <1>10, GotoType DEF Crash, world
<1> QED BY <1>1, <1>2, <1>3, <1>4, <1>5, <1>6, <1>7, <1>8, <1>9, <1>10 DEF Handle

(* The types of the agents' steps.  A message names a server: it was sent  *)
(* by a request that had claimed one.                                      *)
LEMMA AgentsType ==
    ASSUME TypeOK, CallsNameServers, Agents
    PROVE  TypeOK'
<1> USE DEF TypeOK
<1>0. /\ \A pc \in {"answered", "cleanup"} : pc \in OwnerStates
      /\ {"reserved", "active", "cancelling", "cancelled"} \union Ended \subseteq Live \union Ended
      /\ \A op \in Operations, status \in Live \union Ended :
            [op EXCEPT !.status = status] \in Operations
      /\ \A op \in Operations : [op EXCEPT !.dispatched = TRUE] \in Operations
  BY DEF OwnerStates, Live, Ended, Operations
<1>1. ASSUME NEW m \in net, AgentReserve(m) PROVE TypeOK'
  <2>1. m.server \in Servers /\ m.request \in Requests /\ m.gen \in Gens /\ m.attempt \in Attempts
    BY <1>1 DEF AgentReserve, CallsNameServers, Calls
  <2> DEFINE op == [status |-> "reserved", gen |-> m.gen, attempt |-> m.attempt, dispatched |-> FALSE]
  <2>2. op \in Operations BY <2>1 DEF Operations, Live
  <2>3. agent' = agent \/ agent' = [agent EXCEPT ![m.server][m.request] = op]
    BY <1>1 DEF AgentReserve
  <2>4. agent' \in [Servers -> [Requests -> Operations]] BY <2>1, <2>2, <2>3, AgentType
  <2>5. own' \in [Requests -> Owners] BY <1>0, <1>1, <2>1, GotoType DEF AgentReserve
  <2> QED BY <1>1, <2>4, <2>5 DEF AgentReserve, world
<1>2. ASSUME NEW m \in net, AgentCancel(m) PROVE TypeOK'
  <2>1. m.server \in Servers /\ m.request \in Requests
    BY <1>2 DEF AgentCancel, CallsNameServers, Calls
  <2> DEFINE old == agent[m.server][m.request]
             status == IF old.status = "reserved" THEN "cancelled" ELSE "cancelling"
             op == [old EXCEPT !.status = status]
  <2>5. old \in Operations /\ status \in Live \union Ended BY <1>0, <2>1
  <2>2. op \in Operations BY <1>0, <2>5
  <2>3. agent' = agent \/ agent' = [agent EXCEPT ![m.server][m.request] = op]
    BY <1>2, <2>1 DEF AgentCancel
  <2>4. agent' \in [Servers -> [Requests -> Operations]] BY <2>1, <2>2, <2>3, AgentType
  <2> QED BY <1>2, <2>4 DEF AgentCancel, world, brokers
<1>3. ASSUME NEW m \in net, AgentDispatch(m) PROVE TypeOK'
  <2>1. m.server \in Servers /\ m.request \in Requests
    BY <1>3 DEF AgentDispatch, CallsNameServers, Calls
  <2> DEFINE op1 == [agent[m.server][m.request] EXCEPT !.status = "active"]
             op2 == [op1 EXCEPT !.dispatched = TRUE]
  <2>5. agent[m.server][m.request] \in Operations /\ "active" \in Live \union Ended BY <1>0, <2>1
  <2>6. op1 \in Operations BY <1>0, <2>5
  <2>2. op2 \in Operations BY <1>0, <2>6
  <2>3. agent' = agent \/ agent' = [agent EXCEPT ![m.server][m.request] = op2]
    BY <1>3, <2>1 DEF AgentDispatch
  <2>4. agent' \in [Servers -> [Requests -> Operations]] BY <2>1, <2>2, <2>3, AgentType
  <2> QED BY <1>3, <2>4 DEF AgentDispatch, world, brokers
<1>4. ASSUME NEW s \in Servers, NEW l \in Requests, NEW status \in Live \union Ended,
             agent' = [agent EXCEPT ![s][l].status = status],
             UNCHANGED <<world, row, net, brokers>>
      PROVE  TypeOK'
  <2>1. [agent[s][l] EXCEPT !.status = status] \in Operations BY ZenonT(30), <1>0, <1>4
  <2>2. agent' = [agent EXCEPT ![s][l] = [agent[s][l] EXCEPT !.status = status]] BY <1>4
  <2>3. agent' \in [Servers -> [Requests -> Operations]] BY <2>1, <2>2, AgentType
  <2> QED BY <1>4, <2>3 DEF world, brokers
<1>5. ASSUME NEW s \in Servers, NEW l \in Requests, NEW outcome \in Ended,
             AgentEnds(s, l, outcome) \/ AgentClientLost(s, l) \/ AgentExpire(s, l)
      PROVE  TypeOK'
  BY <1>0, <1>4, <1>5 DEF AgentEnds, AgentClientLost, AgentExpire
<1> QED BY <1>1, <1>2, <1>3, <1>5 DEF Agents, Ended

(* What a reconciliation makes of a row is a row. *)
LEMMA ReconciledType ==
    ASSUME row \in [Requests -> Rows], NEW w \in Reconcilers, NEW l \in Requests
    PROVE  Reconciled(w, l) \in Rows
<1>1. row[l] \in Rows OBVIOUS
<1>2. Requeued(row[l]) \in Rows BY <1>1, RequeuedType
<1>3. Verdict(w, l) \in {"active"} \union Waiting \union Terminal BY DEF Verdict, Terminal
<1>4. \A status \in {"expired", "failed", Verdict(w, l)} : [row[l] EXCEPT !.status = status] \in Rows
  BY <1>1, <1>3, StatusType DEF Terminal
<1>5. [row[l] EXCEPT !.due = FALSE] \in Rows BY <1>1 DEF Rows
<1> QED BY <1>1, <1>2, <1>4, <1>5 DEF Reconciled

(* The types of the reconcilers' steps. *)
LEMMA ReconcilerType ==
    ASSUME TypeOK, NEW w \in Reconcilers, Reconciler(w)
    PROVE  TypeOK'
<1> USE DEF TypeOK
<1>0. rec[w] \in Reconciliations /\ Idle \in Reconciliations BY NewRecords
<1>1. CASE RecBegin(w)
  <2> DEFINE due == {l \in Requests : row[l].due}
             late == {l \in Requests : row[l].late}
             verdict == [l \in Requests |->
                           IF row[l].status # "active" THEN "none"
                           ELSE IF ~Current(l) THEN "old"
                           ELSE IF row[l].due /\ Usable(row[l].server) THEN "ask" ELSE "none"]
  <2>1. verdict \in [Requests -> Verdicts] BY DEF Verdicts
  <2>2. [pc |-> "asking", due |-> due, late |-> late, verdict |-> verdict] \in Reconciliations
    BY <2>1 DEF Reconciliations
  <2>3. rec' \in [Reconcilers -> Reconciliations] BY <1>1, <2>2 DEF RecBegin
  <2> QED BY <1>1, <2>3 DEF RecBegin, world
<1>2. ASSUME NEW s \in Servers, NEW answer \in [Requests -> Verdicts], Learns(w, s, answer)
      PROVE  rec' \in [Reconcilers -> Reconciliations]
  <2> DEFINE verdict == [l \in Requests |-> IF l \in Asked(w, s) THEN answer[l]
                                            ELSE rec[w].verdict[l]]
  <2>1. verdict \in [Requests -> Verdicts] BY <1>0 DEF Reconciliations
  <2>2. [rec[w] EXCEPT !.verdict = verdict] \in Reconciliations BY <1>0, <2>1 DEF Reconciliations
  <2>3. rec' = [rec EXCEPT ![w] = [rec[w] EXCEPT !.verdict = verdict]] BY <1>2 DEF Learns
  <2> QED BY <2>2, <2>3
<1>3. ASSUME NEW s \in Servers, AgentAnswers(w, s) PROVE TypeOK'
  <2>1. \A l \in Requests : Reported(s, l) \in Verdicts
    BY DEF Reported, Verdicts, Operations
  <2>2. [l \in Requests |-> Reported(s, l)] \in [Requests -> Verdicts] BY <2>1
  <2>3. rec' \in [Reconcilers -> Reconciliations] BY <1>2, <1>3, <2>2 DEF AgentAnswers
  <2> QED BY <1>3, <2>3 DEF AgentAnswers, world
<1>4. ASSUME NEW s \in Servers, NoAnswer(w, s) PROVE TypeOK'
  <2>1. [l \in Requests |-> "deferred"] \in [Requests -> Verdicts] BY DEF Verdicts
  <2>2. rec' \in [Reconcilers -> Reconciliations] BY <1>2, <1>4, <2>1 DEF NoAnswer
  <2> QED BY <1>4, <2>2 DEF NoAnswer, world
<1>5. CASE RecCommit(w)
  <2>1. \A l \in Requests : Reconciled(w, l) \in Rows BY ReconciledType
  <2>2. \A l \in Requests : [Reconciled(w, l) EXCEPT !.status = "failed"] \in Rows
    BY <2>1, StatusType DEF Terminal
  <2>3. row' \in [Requests -> Rows] BY <1>5, <2>1, <2>2 DEF RecCommit
  <2>4. Forgotten(Extended(w)) \in [Reconcilers -> Reconciliations] BY ForgottenType
  <2>5. rec' \in [Reconcilers -> Reconciliations] BY <1>0, <1>5, <2>4 DEF RecCommit
  <2>6. \A s \in Servers : [server[s] EXCEPT !.status = "stopping"] \in ServerRows BY DEF ServerRows
  <2>7. server' \in [Servers -> ServerRows] BY <1>5, <2>6 DEF RecCommit
  <2>8. \A s \in Servers : server[s].gen \in Gens BY DEF ServerRows
  <2>11. \A s \in Servers : [server |-> s, gen |-> server[s].gen, by |-> "cleanup",
                             handled |-> FALSE] \in StopCommands
    BY <2>8 DEF StopCommands
  <2>12. FencedBy(w) \subseteq Servers BY DEF FencedBy
  <2>9. stops' \subseteq StopCommands BY <1>5, <2>11, <2>12 DEF RecCommit
  <2>10. revived' \subseteq Requests BY <1>5 DEF RecCommit, Extended
  <2> QED BY <1>5, <2>3, <2>5, <2>7, <2>9, <2>10 DEF RecCommit
<1>6. CASE RecAborts(w) BY <1>0, <1>6 DEF RecAborts, world
<1> QED BY <1>1, <1>3, <1>4, <1>5, <1>6 DEF Reconciler

(* The types of what happens to servers and of the passing of time. *)
LEMMA EnvironmentType ==
    ASSUME TypeOK, Environment
    PROVE  TypeOK'
<1> USE DEF TypeOK
<1>1. CASE ClearQueue
  <2>1. \A l \in Requests : [row[l] EXCEPT !.status = "cancelled"] \in Rows
    BY StatusType DEF Terminal
  <2> QED BY <1>1, <2>1 DEF ClearQueue, world, brokers
<1>2. ASSUME NEW l \in Requests, Lapse(l) \/ WindowLapses(l) PROVE TypeOK'
  <2>1. /\ [row EXCEPT ![l].due = TRUE] \in [Requests -> Rows]
        /\ [row EXCEPT ![l].late = TRUE] \in [Requests -> Rows]
    BY RowFields
  <2> QED BY <1>2, <2>1 DEF Lapse, WindowLapses, world, brokers
<1>3. ASSUME NEW s \in Servers, StartServer(s) PROVE TypeOK'
  <2>1. server[s].gen + 1 \in Gens
    BY <1>3, LeaseAssumption DEF StartServer, ServerRows, Gens
  <2>2. [status |-> "starting", healthy |-> FALSE, gen |-> server[s].gen + 1] \in ServerRows
    BY <2>1 DEF ServerRows
  <2> QED BY <1>3, <2>2 DEF StartServer, brokers
<1>4. ASSUME NEW s \in Servers, ServerStarted(s) PROVE TypeOK'
  <2>1. server[s].gen \in Gens BY DEF ServerRows
  <2>2. server' \in [Servers -> ServerRows] BY <1>4, SetServerType DEF ServerStarted
  <2>3. /\ process' \in [Servers -> [gen : Gens, up : BOOLEAN]]
        /\ agent' \in [Servers -> [Requests -> Operations]]
    BY <1>4, <2>1, ReplaceProcessType DEF ServerStarted
  <2> QED BY <1>4, <2>2, <2>3 DEF ServerStarted, brokers
<1>5. ASSUME NEW s \in Servers, NEW healthy \in BOOLEAN, HealthReport(s, healthy) PROVE TypeOK'
  <2> DEFINE status == IF healthy /\ server[s].status = "starting" THEN "running"
                       ELSE server[s].status
  <2>1. status \in {"stopped", "starting", "running", "stopping", "error"} BY DEF ServerRows
  <2>2. SetServer(s, status, healthy) BY <1>5 DEF HealthReport
  <2>3. server' \in [Servers -> ServerRows] BY <2>1, <2>2, SetServerType
  <2>4. row' \in [Requests -> Rows] BY <1>5, InvalidateType DEF HealthReport
  <2> QED BY <1>5, <2>3, <2>4 DEF HealthReport, brokers
<1>6. ASSUME NEW s \in Servers, Unavailable(s)
      PROVE  server' \in [Servers -> ServerRows] /\ row' \in [Requests -> Rows]
  BY <1>6, SetServerType, InvalidateType DEF Unavailable
<1>7. ASSUME NEW s \in Servers, AgentRegisters(s) PROVE TypeOK'
  <2>1. CASE Runs(s, server[s].gen)
    BY <1>7, <2>1, SetServerType DEF AgentRegisters, brokers
  <2>2. CASE ~Runs(s, server[s].gen)
    <3>1. [server |-> s, gen |-> process[s].gen, by |-> "cleanup", handled |-> FALSE] \in StopCommands
      BY DEF StopCommands
    <3>2. stops' \subseteq StopCommands BY <1>7, <2>2, <3>1 DEF AgentRegisters
    <3> QED BY <1>6, <1>7, <2>2, <3>2 DEF AgentRegisters, brokers
  <2> QED BY <2>1, <2>2
<1>8. ASSUME NEW s \in Servers, AgentUnreachable(s) PROVE TypeOK'
  BY <1>6, <1>8 DEF AgentUnreachable, brokers
<1>9. ASSUME NEW s \in Servers, ProcessExits(s) PROVE TypeOK'
  <2>1. process[s].gen \in Gens OBVIOUS
  <2> QED BY <1>9, <2>1, ReplaceProcessType DEF ProcessExits, brokers
<1>10. ASSUME NEW s \in Servers, AgentRestarts(s) PROVE TypeOK'
  <2>1. [process[s] EXCEPT !.up = FALSE] \in [gen : Gens, up : BOOLEAN] OBVIOUS
  <2>2. [l \in Requests |-> NoOp] \in [Requests -> Operations] BY NewRecords
  <2> QED BY <1>10, <2>1, <2>2 DEF AgentRestarts, brokers
<1>11. ASSUME NEW s \in Servers, NEW status \in {"stopped", "error"}, ServerGone(s, status)
       PROVE  TypeOK'
  BY <1>11, SetServerType, InvalidateType DEF ServerGone, brokers
<1>12. ASSUME NEW s \in Servers, NEW force \in BOOLEAN, RequestStop(s, force) PROVE TypeOK'
  <2>1. [server |-> s, gen |-> server[s].gen, by |-> "caller", handled |-> FALSE] \in StopCommands
    BY DEF StopCommands, ServerRows
  <2> QED BY <1>12, <2>1, SetServerType, InvalidateType DEF RequestStop, brokers
<1>13. ASSUME NEW c \in stops, AgentStops(c) PROVE TypeOK'
  <2>1. c \in StopCommands /\ c.server \in Servers /\ c.gen \in Gens BY DEF StopCommands
  <2>2. [c EXCEPT !.handled = TRUE] \in StopCommands BY <2>1 DEF StopCommands
  <2>3. /\ process' \in [Servers -> [gen : Gens, up : BOOLEAN]]
        /\ agent' \in [Servers -> [Requests -> Operations]]
    BY <1>13, <2>1, ReplaceProcessType DEF AgentStops
  <2>4. stops' \subseteq StopCommands BY <1>13, <2>2 DEF AgentStops
  <2> QED BY <1>13, <2>3, <2>4 DEF AgentStops, brokers
<1>14. ASSUME NEW c \in stops, NEW status \in {"stopped", "error"}, StopSettles(c, status)
       PROVE  TypeOK'
  <2>1. c \in StopCommands /\ c.server \in Servers BY DEF StopCommands
  <2>2. [c EXCEPT !.by = "cleanup"] \in StopCommands BY <2>1 DEF StopCommands
  <2>3. server' \in [Servers -> ServerRows] BY <1>14, <2>1, SetServerType DEF StopSettles
  <2>4. stops' \subseteq StopCommands BY <1>14, <2>2 DEF StopSettles
  <2> QED BY <1>14, <2>3, <2>4 DEF StopSettles, brokers
<1> QED BY <1>1, <1>2, <1>3, <1>4, <1>5, <1>7, <1>8, <1>9, <1>10, <1>11, <1>12, <1>13, <1>14
        DEF Environment

-------------------------------------------------------------------------------
(* The invariant. *)

(* What most steps do to the rows and to the owners: no row becomes        *)
(* reserving or active, or moves to another process; no request claims.    *)
Quiet ==
    \A k \in Requests : row'[k].status \in {"reserving", "active"} =>
        /\ row'[k].status = row[k].status
        /\ row'[k].server = row[k].server /\ row'[k].gen = row[k].gen

OwnersStay ==
    \A k \in Requests : own'[k].server = own[k].server /\ own'[k].gen = own[k].gen

(* A quiet step that leaves the servers of its active rows alone keeps     *)
(* rows on the processes they were claimed on.                             *)
LEMMA QuietSteps ==
    ASSUME ReservedByOwner, ActiveOnLiveServer, Quiet, OwnersStay,
           \A k \in Requests : row'[k].status = "active" =>
               LET s == row[k].server IN
               /\ server'[s].gen = server[s].gen
               /\ server'[s].status \in {"running", "starting"}
    PROVE  ReservedByOwner' /\ ActiveOnLiveServer'
BY DEF ReservedByOwner, ActiveOnLiveServer, Quiet, OwnersStay, Current

(* Such a step that leaves all servers alone. *)
LEMMA QuietBrokers ==
    ASSUME ReservedByOwner, ActiveOnLiveServer, Quiet, OwnersStay, UNCHANGED server
    PROVE  ReservedByOwner' /\ ActiveOnLiveServer'
<1>1. \A k \in Requests : row'[k].status = "active" =>
          LET s == row[k].server IN
          /\ server'[s].gen = server[s].gen
          /\ server'[s].status \in {"running", "starting"}
  BY DEF Quiet, ActiveOnLiveServer
<1> QED BY <1>1, QuietSteps

(* The row changes that are quiet. *)
LEMMA QuietChanges ==
    ASSUME NEW l \in Requests, row \in [Requests -> Rows]
    PROVE  /\ UNCHANGED row => Quiet
           /\ \A status \in Terminal : FinishQueued(l, status) \/ EndActive(l, status) => Quiet
           /\ row' = [row EXCEPT ![l] = AfterCleanup(l)] => Quiet
<1>1. UNCHANGED row => Quiet BY DEF Quiet
<1>2. ASSUME NEW status \in Terminal, FinishQueued(l, status) \/ EndActive(l, status) PROVE Quiet
  BY <1>2 DEF FinishQueued, EndActive, Quiet, Terminal, Rows
<1>3. ASSUME row' = [row EXCEPT ![l] = AfterCleanup(l)] PROVE Quiet
  <2>1. AfterCleanup(l) = row[l] \/ AfterCleanup(l).status \in {"cancelled", "queued"}
    BY RequeuedType DEF AfterCleanup, Rows
  <2> QED BY <1>3, <2>1 DEF Quiet
<1> QED BY <1>1, <1>2, <1>3

(* acquire() keeps the invariant: finalize() activates a row only on the   *)
(* usable server and generation that were claimed for it.                  *)
LEMMA OwnerInv ==
    ASSUME LeaseInv, NEW l \in Requests, Owner(l)
    PROVE  LeaseInv'
<1> USE DEF LeaseInv
<1>0. TypeOK' BY OwnerType
<1> USE DEF TypeOK
<1>a. {"cancelled", "expired", "failed"} \subseteq Terminal BY DEF Terminal
<1>1. ASSUME NEW queuedAt \in 1..Cardinality(Requests), Enqueue(l, queuedAt) PROVE LeaseInv'
  <2>1. Quiet BY <1>1 DEF Enqueue, Quiet, Rows
  <2>2. OwnersStay BY <1>1 DEF Enqueue, Goto, OwnersStay, Owners
  <2>3. CompletedIsServed' BY <1>1 DEF Enqueue, Goto, CompletedIsServed, Owners
  <2>4. CallsNameServers' BY <1>1 DEF Enqueue, Goto, CallsNameServers, Owners
  <2> QED BY <1>0, <1>1, <2>1, <2>2, <2>3, <2>4, QuietBrokers DEF Enqueue, world
<1>2. ASSUME NEW outcome \in {"cancelled", "expired", "failed"}, GivesUp(l, outcome) PROVE LeaseInv'
  <2>1. Quiet BY <1>2 DEF GivesUp, Quiet
  <2>2. OwnersStay BY <1>2 DEF GivesUp, OwnersStay, Owners
  <2>3. CompletedIsServed' BY <1>2 DEF GivesUp, CompletedIsServed, Owners
  <2>4. CallsNameServers' BY <1>2 DEF GivesUp, CallsNameServers, Owners
  <2> QED BY <1>0, <1>2, <2>1, <2>2, <2>3, <2>4, QuietBrokers DEF GivesUp, world
<1>3. CASE FinishLeaving(l)
  <2>5. own[l].outcome \in Terminal
    BY <1>3 DEF FinishLeaving, CompletedIsServed, Owners, Ended, Terminal
  <2>1. Quiet BY <1>3, <2>5, QuietChanges DEF FinishLeaving
  <2>2. OwnersStay BY <1>3 DEF FinishLeaving, Goto, OwnersStay, Owners
  <2>3. CompletedIsServed' BY <1>3 DEF FinishLeaving, Goto, CompletedIsServed, Owners
  <2>4. CallsNameServers' BY <1>3 DEF FinishLeaving, Goto, CallsNameServers, Owners
  <2> QED BY <1>0, <1>3, <2>1, <2>2, <2>3, <2>4, QuietBrokers DEF FinishLeaving, world
<1>4. ASSUME NEW s \in Servers, Claim(l, s) PROVE LeaseInv'
  <2>1. \A k \in Requests \ {l} : row'[k] = row[k] /\ own'[k] = own[k]
    BY <1>4 DEF Claim
  <2>2. /\ row'[l].status = "reserving" /\ row'[l].server = s /\ row'[l].gen = server[s].gen
        /\ own'[l].pc = "posted" /\ own'[l].server = s /\ own'[l].gen = server[s].gen
        /\ own'[l].outcome = own[l].outcome
    BY <1>4 DEF Claim, Rows, Owners
  <2>3. own[l].outcome # "completed" BY <1>4 DEF Claim, CompletedIsServed
  <2>4. CompletedIsServed' BY <2>1, <2>2, <2>3 DEF CompletedIsServed
  <2>5. CallsNameServers'
    <3>1. \A m \in net' : m.server \in Servers BY <1>4 DEF Claim, CallsNameServers
    <3> QED BY <2>1, <2>2, <3>1, LeaseAssumption DEF CallsNameServers
  <2>6. ReservedByOwner' BY <2>1, <2>2 DEF ReservedByOwner
  <2>7. ActiveOnLiveServer' BY <1>4, <2>1, <2>2 DEF Claim, world, ActiveOnLiveServer, Current
  <2> QED BY <1>0, <2>4, <2>5, <2>6, <2>7
<1>5. CASE PostFails(l)
  <2>1. Quiet BY <1>5 DEF PostFails, Quiet
  <2>2. OwnersStay BY <1>5 DEF PostFails, Goto, OwnersStay, Owners
  <2>3. CompletedIsServed' BY <1>5 DEF PostFails, Goto, CompletedIsServed, Owners
  <2>4. CallsNameServers' BY <1>5 DEF PostFails, Goto, CallsNameServers, Owners
  <2> QED BY <1>0, <1>5, <2>1, <2>2, <2>3, <2>4, QuietBrokers DEF PostFails, world
<1>6. CASE Finalize(l)
  <2>6. PICK pc \in {"cleanup", "held"} : Goto(l, pc) BY <1>6 DEF Finalize
  <2>1. OwnersStay BY <2>6 DEF Goto, OwnersStay, Owners
  <2>2. CompletedIsServed' BY <1>6, <2>6 DEF Finalize, Goto, CompletedIsServed, Owners
  <2>3. CallsNameServers' BY <1>6, <2>6 DEF Finalize, Goto, CallsNameServers, Owners
  <2>4. CASE Finalizable(l) /\ row' = [row EXCEPT ![l].status = "active", ![l].due = FALSE,
                                                 ![l].late = FALSE]
    <3>1. /\ row'[l].server = row[l].server /\ row'[l].gen = row[l].gen
          /\ \A k \in Requests \ {l} : row'[k] = row[k]
          /\ row'[l].status = "active"
      BY <2>4 DEF Rows
    <3>2. own[l].server \in Servers
      BY <1>6 DEF Finalize, CallsNameServers, Owners
    <3>3. row[l].server = own[l].server /\ row[l].gen = own[l].gen
      BY <2>4 DEF Finalizable, ReservedByOwner
    <3>4. /\ server[own[l].server].status = "running" /\ server[own[l].server].gen = own[l].gen
      BY <2>4 DEF Finalizable, Usable
    <3>5. UNCHANGED server BY <1>6 DEF Finalize, world
    <3>6. ActiveOnLiveServer' BY <3>1, <3>2, <3>3, <3>4, <3>5 DEF ActiveOnLiveServer, Current
    <3>7. ReservedByOwner' BY <2>1, <3>1 DEF ReservedByOwner, OwnersStay
    <3> QED BY <1>0, <2>2, <2>3, <3>6, <3>7
  <2>5. CASE UNCHANGED row
    BY <1>0, <1>6, <2>1, <2>2, <2>3, <2>5, QuietBrokers, QuietChanges DEF Finalize, world
  <2> QED BY <1>6, <2>4, <2>5 DEF Finalize
<1>7. CASE CleanupCancel(l)
  <2>1. Quiet BY <1>7 DEF CleanupCancel, Quiet
  <2>2. OwnersStay BY <1>7 DEF CleanupCancel, Goto, OwnersStay, Owners
  <2>3. CompletedIsServed' BY <1>7 DEF CleanupCancel, Goto, CompletedIsServed, Owners
  <2>4. CallsNameServers' BY <1>7 DEF CleanupCancel, Send, Goto, CallsNameServers, Owners
  <2> QED BY <1>0, <1>7, <2>1, <2>2, <2>3, <2>4, QuietBrokers DEF CleanupCancel, world
<1>8. CASE Requeue(l)
  <2>1. Quiet BY <1>8, QuietChanges DEF Requeue
  <2>2. OwnersStay BY <1>8 DEF Requeue, Goto, OwnersStay, Owners
  <2>3. CompletedIsServed' BY <1>8 DEF Requeue, Goto, CompletedIsServed, Owners
  <2>4. CallsNameServers' BY <1>8 DEF Requeue, Goto, CallsNameServers, Owners
  <2> QED BY <1>0, <1>8, <2>1, <2>2, <2>3, <2>4, QuietBrokers DEF Requeue, world
<1>9. CASE Abort(l)
  <2>1. Quiet BY <1>9 DEF Abort, Quiet
  <2>2. OwnersStay BY <1>9 DEF Abort, OwnersStay, Owners
  <2>3. CompletedIsServed' BY <1>9 DEF Abort, CompletedIsServed, Owners
  <2>4. CallsNameServers' BY <1>9 DEF Abort, CallsNameServers, Owners
  <2> QED BY <1>0, <1>9, <2>1, <2>2, <2>3, <2>4, QuietBrokers DEF Abort, world
<1>10. CASE WatcherSees(l)
  <2>1. Quiet BY <1>a, <1>10, QuietChanges DEF WatcherSees
  <2>2. OwnersStay BY <1>10 DEF WatcherSees, OwnersStay, Owners
  <2>3. CompletedIsServed' BY <1>10 DEF WatcherSees, CompletedIsServed, Owners
  <2>4. CallsNameServers' BY <1>10 DEF WatcherSees, CallsNameServers, Owners
  <2> QED BY <1>0, <1>10, <2>1, <2>2, <2>3, <2>4, QuietBrokers DEF WatcherSees, world
<1> QED BY <1>1, <1>2, <1>3, <1>4, <1>5, <1>6, <1>7, <1>8, <1>9, <1>10 DEF Owner

(* The lease handle only ends rows. *)
LEMMA HandleInv ==
    ASSUME LeaseInv, NEW l \in Requests, Handle(l)
    PROVE  LeaseInv'
<1> USE DEF LeaseInv
<1>0. TypeOK' BY HandleType
<1> USE DEF TypeOK
<1>a. "cancelled" \in Terminal BY DEF Terminal
<1>1. CASE CancelHeld(l)
  <2>1. Quiet BY <1>a, <1>1, QuietChanges DEF CancelHeld
  <2>2. OwnersStay BY <1>1 DEF CancelHeld, Goto, OwnersStay, Owners
  <2>3. CompletedIsServed' BY <1>1 DEF CancelHeld, Goto, CompletedIsServed, Owners
  <2>4. CallsNameServers' BY SMTT(20), <1>1 DEF CancelHeld, Send, Goto, CallsNameServers, Owners
  <2> QED BY <1>0, <1>1, <2>1, <2>2, <2>3, <2>4, QuietBrokers DEF CancelHeld, world
<1>2. CASE Dispatch(l)
  <2>1. Quiet BY <1>2, QuietChanges DEF Dispatch
  <2>2. OwnersStay BY <1>2 DEF Dispatch, Goto, OwnersStay, Owners
  <2>3. CompletedIsServed' BY <1>2 DEF Dispatch, Goto, CompletedIsServed, Owners
  <2>4. CallsNameServers' BY SMTT(20), <1>2 DEF Dispatch, Send, Goto, CallsNameServers, Owners
  <2> QED BY <1>0, <1>2, <2>1, <2>2, <2>3, <2>4, QuietBrokers DEF Dispatch, world
<1>3. CASE HeldFails(l)
  <2>1. Quiet BY <1>3, QuietChanges DEF HeldFails
  <2>2. OwnersStay BY <1>3 DEF HeldFails, OwnersStay, Owners
  <2>3. CompletedIsServed' BY <1>3 DEF HeldFails, CompletedIsServed, Owners
  <2>4. CallsNameServers' BY <1>3 DEF HeldFails, CallsNameServers, Owners
  <2> QED BY <1>0, <1>3, <2>1, <2>2, <2>3, <2>4, QuietBrokers DEF HeldFails, world
<1>4. CASE Renew(l)
  <2>5. row' = row \/ row' = [row EXCEPT ![l].due = FALSE] BY <1>4 DEF Renew
  <2>6. own' = own \/ own' = [own EXCEPT ![l].lost = TRUE] BY <1>4 DEF Renew
  <2>7. ASSUME row' = [row EXCEPT ![l].due = FALSE], NEW k \in Requests
        PROVE  row'[k] = row[k] \/ row'[k] = [row[k] EXCEPT !.due = FALSE]
    BY <2>7
  <2>8. \A r \in Rows : LET q == [r EXCEPT !.due = FALSE] IN
                        q.status = r.status /\ q.server = r.server /\ q.gen = r.gen
    BY DEF Rows
  <2>1. Quiet BY <2>5, <2>7, <2>8 DEF Quiet
  <2>2. OwnersStay BY <2>6 DEF OwnersStay, Owners
  <2>3. CompletedIsServed' BY ZenonT(30), <2>6 DEF CompletedIsServed, Owners
  <2>4. CallsNameServers' BY <1>4, <2>6 DEF Renew, CallsNameServers, Owners
  <2> QED BY <1>0, <1>4, <2>1, <2>2, <2>3, <2>4, QuietBrokers DEF Renew, world
<1>5. CASE RenewalTimesOut(l)
  <2>1. Quiet BY <1>5, QuietChanges DEF RenewalTimesOut
  <2>2. OwnersStay BY <1>5 DEF RenewalTimesOut, OwnersStay, Owners
  <2>3. CompletedIsServed' BY <1>5 DEF RenewalTimesOut, CompletedIsServed, Owners
  <2>4. CallsNameServers' BY <1>5 DEF RenewalTimesOut, CallsNameServers, Owners
  <2> QED BY <1>0, <1>5, <2>1, <2>2, <2>3, <2>4, QuietBrokers DEF RenewalTimesOut, world
<1>6. CASE DisconnectSeen(l)
  <2>1. Quiet BY <1>a, <1>6, QuietChanges DEF DisconnectSeen
  <2>2. OwnersStay BY <1>6 DEF DisconnectSeen, OwnersStay, Owners
  <2>3. CompletedIsServed' BY <1>6 DEF DisconnectSeen, CompletedIsServed, Owners
  <2>4. CallsNameServers' BY <1>6 DEF DisconnectSeen, Send, CallsNameServers, Owners
  <2> QED BY <1>0, <1>6, <2>1, <2>2, <2>3, <2>4, QuietBrokers DEF DisconnectSeen, world
<1>7. ASSUME NEW outcome \in Ended, ServingEnds(l, outcome) PROVE LeaseInv'
  <2>1. Quiet BY <1>7, QuietChanges DEF ServingEnds
  <2>2. OwnersStay BY <1>7 DEF ServingEnds, OwnersStay, Owners
  <2>3. CompletedIsServed' BY <1>7 DEF ServingEnds, CompletedIsServed, Owners
  <2>4. CallsNameServers' BY <1>7 DEF ServingEnds, CallsNameServers, Owners
  <2> QED BY <1>0, <1>7, <2>1, <2>2, <2>3, <2>4, QuietBrokers DEF ServingEnds, world
<1>8. CASE ReleaseCancel(l)
  <2>1. Quiet BY <1>8, QuietChanges DEF ReleaseCancel
  <2>2. OwnersStay BY <1>8 DEF ReleaseCancel, Goto, OwnersStay, Owners
  <2>3. CompletedIsServed' BY <1>8 DEF ReleaseCancel, Goto, CompletedIsServed, Owners
  <2>4. CallsNameServers' BY <1>8 DEF ReleaseCancel, Send, Goto, CallsNameServers, Owners
  <2> QED BY <1>0, <1>8, <2>1, <2>2, <2>3, <2>4, QuietBrokers DEF ReleaseCancel, world
<1>9. CASE ReleaseRow(l)
  <2> DEFINE status == IF own[l].outcome = "completed" THEN "released" ELSE own[l].outcome
  <2>5. status \in Terminal /\ EndActive(l, status)
    BY <1>9 DEF ReleaseRow, Owners, Ended, Terminal
  <2>1. Quiet BY <2>5, QuietChanges
  <2>2. OwnersStay BY <1>9 DEF ReleaseRow, Goto, OwnersStay, Owners
  <2>3. CompletedIsServed' BY <1>9 DEF ReleaseRow, Goto, CompletedIsServed, Owners
  <2>4. CallsNameServers' BY <1>9 DEF ReleaseRow, Goto, CallsNameServers, Owners
  <2> QED BY <1>0, <1>9, <2>1, <2>2, <2>3, <2>4, QuietBrokers DEF ReleaseRow, world
<1>10. CASE Crash(l)
  <2>1. Quiet BY <1>10, QuietChanges DEF Crash
  <2>2. OwnersStay BY <1>10 DEF Crash, Goto, OwnersStay, Owners
  <2>3. CompletedIsServed' BY <1>10 DEF Crash, Goto, CompletedIsServed, Owners
  <2>4. CallsNameServers' BY <1>10 DEF Crash, Goto, CallsNameServers, Owners
  <2> QED BY <1>0, <1>10, <2>1, <2>2, <2>3, <2>4, QuietBrokers DEF Crash, world
<1> QED BY <1>1, <1>2, <1>3, <1>4, <1>5, <1>6, <1>7, <1>8, <1>9, <1>10 DEF Handle

(* A step that leaves the owners alone, and sends nothing. *)
LEMMA OwnersUnchanged ==
    ASSUME LeaseInv, UNCHANGED own, net' \subseteq net
    PROVE  CompletedIsServed' /\ CallsNameServers' /\ OwnersStay
BY DEF LeaseInv, CompletedIsServed, CallsNameServers, OwnersStay

(* An agent's answer moves a request on; it changes no row.  *)
LEMMA AgentsInv ==
    ASSUME LeaseInv, Agents
    PROVE  LeaseInv'
<1> USE DEF LeaseInv
<1>0. TypeOK' BY AgentsType
<1> USE DEF TypeOK
<1>1. ASSUME NEW m \in net, AgentReserve(m) PROVE LeaseInv'
  <2>1. m.request \in Requests BY DEF Calls
  <2>2. Quiet BY <1>1, QuietChanges, <2>1 DEF AgentReserve
  <2>3. net' \subseteq net BY <1>1 DEF AgentReserve
  <2>4. CASE UNCHANGED own
    BY <1>0, <1>1, <2>2, <2>3, <2>4, OwnersUnchanged, QuietBrokers DEF AgentReserve, world
  <2>5. CASE ~UNCHANGED own
    <3>1. PICK pc \in {"answered", "cleanup"} : Goto(m.request, pc)
      BY <1>1, <2>5 DEF AgentReserve
    <3>2. own[m.request].pc = "posted" BY <1>1, <2>5 DEF AgentReserve
    <3>3. OwnersStay BY <3>1 DEF Goto, OwnersStay, Owners
    <3>4. CompletedIsServed' BY <3>1, <3>2 DEF Goto, CompletedIsServed, Owners
    <3>5. CallsNameServers' BY <2>3, <3>1, <3>2 DEF Goto, CallsNameServers, Owners
    <3> QED BY <1>0, <1>1, <2>2, <3>3, <3>4, <3>5, QuietBrokers DEF AgentReserve, world
  <2> QED BY <2>4, <2>5
<1>2. ASSUME UNCHANGED <<world, row, brokers>>, net' \subseteq net PROVE LeaseInv'
  <2>1. Quiet BY <1>2 DEF Quiet
  <2> QED BY <1>0, <1>2, <2>1, OwnersUnchanged, QuietBrokers DEF world, brokers
<1>3. ASSUME NEW m \in net, AgentCancel(m) \/ AgentDispatch(m) PROVE LeaseInv'
  <2>1. UNCHANGED <<world, row, brokers>> /\ net' \subseteq net
    BY <1>3 DEF AgentCancel, AgentDispatch
  <2> QED BY <1>2, <2>1
<1>4. ASSUME NEW s \in Servers, NEW l \in Requests, NEW outcome \in Ended,
             AgentEnds(s, l, outcome) \/ AgentClientLost(s, l) \/ AgentExpire(s, l)
      PROVE  LeaseInv'
  <2>1. UNCHANGED <<world, row, brokers>> /\ net' \subseteq net
    BY <1>4 DEF AgentEnds, AgentClientLost, AgentExpire
  <2> QED BY <1>2, <2>1
<1> QED BY <1>1, <1>3, <1>4 DEF Agents, Ended

(* A reconciliation only ends rows and puts them back into the queue, and  *)
(* it leaves no active row on a server that it takes away.                 *)
LEMMA ReconcilerInv ==
    ASSUME LeaseInv, NEW w \in Reconcilers, Reconciler(w)
    PROVE  LeaseInv'
<1> USE DEF LeaseInv
<1>0. TypeOK' BY ReconcilerType
<1> USE DEF TypeOK
<1>1. ASSUME UNCHANGED <<server, row, own, net>> PROVE LeaseInv'
  <2>1. Quiet BY <1>1 DEF Quiet
  <2> QED BY <1>0, <1>1, <2>1, OwnersUnchanged, QuietBrokers
<1>2. ASSUME RecBegin(w) \/ RecAborts(w) \/ \E s \in Servers : AgentAnswers(w, s) \/ NoAnswer(w, s)
      PROVE  LeaseInv'
  BY <1>1, <1>2 DEF RecBegin, RecAborts, AgentAnswers, NoAnswer, world
<1>3. CASE RecCommit(w)
  <2>1. ASSUME NEW l \in Requests
        PROVE  /\ Reconciled(w, l).status = "active" =>
                    /\ row[l].status = "active"
                    /\ Reconciled(w, l).server = row[l].server
                    /\ Reconciled(w, l).gen = row[l].gen
               /\ Reconciled(w, l).status = "reserving" => Reconciled(w, l) = row[l]
    <3>1. row[l] \in Rows OBVIOUS
    <3>2. CASE l \in Abandoned(w)
      BY <3>1, <3>2, RequeuedType DEF Reconciled
    <3>3. CASE Reconciled(w, l) = [row[l] EXCEPT !.status = "expired"]
      BY <3>1, <3>3 DEF Rows
    <3>4. CASE Reconciled(w, l) = [row[l] EXCEPT !.status = "failed"]
      BY <3>1, <3>4 DEF Rows
    <3>5. CASE l \in Extended(w) /\ Reconciled(w, l) = [row[l] EXCEPT !.due = FALSE]
      BY <3>1, <3>5 DEF Extended, Lapsed, Rows
    <3>6. CASE Lapsed(w, l) /\ Reconciled(w, l) = [row[l] EXCEPT !.status = Verdict(w, l)]
      <4>1. Verdict(w, l) \in {"active"} \union Terminal BY DEF Verdict, Terminal
      <4> QED BY <3>1, <3>6, <4>1 DEF Lapsed, Rows, Terminal
    <3>7. CASE Reconciled(w, l) = row[l] BY <3>7
    <3> QED BY <3>2, <3>3, <3>4, <3>5, <3>6, <3>7 DEF Reconciled
  <2>2. ASSUME NEW l \in Requests, l \in Stale(w) PROVE row'[l].status = "failed"
    <3>1. Reconciled(w, l).status = "active" BY <2>2 DEF Stale
    <3>2. row'[l] = [Reconciled(w, l) EXCEPT !.status = "failed"] BY <1>3, <2>2 DEF RecCommit
    <3>3. Reconciled(w, l) \in Rows BY <2>2, ReconciledType
    <3> QED BY <3>2, <3>3 DEF Rows
  <2>3. \A l \in Requests : l \notin Stale(w) => row'[l] = Reconciled(w, l)
    BY <1>3 DEF RecCommit
  <2>4. Quiet BY <2>1, <2>2, <2>3 DEF Quiet
  <2>5. ASSUME NEW l \in Requests, row'[l].status = "active"
        PROVE  LET s == row[l].server IN
               /\ server'[s].gen = server[s].gen
               /\ server'[s].status \in {"running", "starting"}
    <3>1. l \notin Stale(w) /\ Reconciled(w, l).status = "active" BY <2>2, <2>3, <2>5
    <3>2. row[l].status = "active" BY <2>1, <3>1
    <3>3. Current(l) /\ server[row[l].server].status \in {"running", "starting"}
      BY <3>2 DEF ActiveOnLiveServer
    <3>4. Usable(row[l].server) BY <3>1, <3>3 DEF Stale
    <3>5. row[l].server \notin FencedBy(w) BY <3>4 DEF FencedBy
    <3>6. server'[row[l].server] = server[row[l].server]
      BY <1>3, <3>3, <3>5 DEF RecCommit, Current
    <3> QED BY <3>3, <3>6
  <2>6. CompletedIsServed' /\ CallsNameServers' /\ OwnersStay
    BY <1>3, OwnersUnchanged DEF RecCommit
  <2> QED BY <1>0, <2>4, <2>5, <2>6, QuietSteps
<1> QED BY <1>2, <1>3 DEF Reconciler

(* Every step that takes a server away ends its active rows, and a server  *)
(* is started only once it has none.                                       *)
LEMMA EnvironmentInv ==
    ASSUME LeaseInv, Environment
    PROVE  LeaseInv'
<1> USE DEF LeaseInv
<1>0. TypeOK' BY EnvironmentType
<1> USE DEF TypeOK
<1>1. ASSUME Quiet, UNCHANGED <<server, own, net>> PROVE LeaseInv'
  BY <1>0, <1>1, OwnersUnchanged, QuietBrokers
<1>2. ASSUME NEW s \in Servers, NEW status \in {"running", "starting"}, NEW healthy \in BOOLEAN,
             SetServer(s, status, healthy), Quiet, UNCHANGED <<own, net>>
      PROVE  LeaseInv'
  <2>1. \A r \in Servers : /\ server'[r].gen = server[r].gen
                           /\ server'[r].status \in {server[r].status, status}
    BY <1>2 DEF SetServer, ServerRows
  <2>2. \A k \in Requests : row'[k].status = "active" =>
           LET r == row[k].server IN
           /\ server'[r].gen = server[r].gen
           /\ server'[r].status \in {"running", "starting"}
    BY <1>2, <2>1 DEF Quiet, ActiveOnLiveServer, Current
  <2> QED BY <1>0, <1>2, <2>2, OwnersUnchanged, QuietSteps
<1>3. ASSUME NEW s \in Servers, Quiet, UNCHANGED <<own, net>>,
             \A r \in Servers \ {s} : server'[r] = server[r],
             \A k \in Requests : row'[k].status = "active" => row[k].server # s
      PROVE  LeaseInv'
  <2>1. \A k \in Requests : row'[k].status = "active" =>
           LET r == row[k].server IN
           /\ server'[r].gen = server[r].gen
           /\ server'[r].status \in {"running", "starting"}
    BY <1>3 DEF Quiet, ActiveOnLiveServer, Current
  <2> QED BY <1>0, <1>3, <2>1, OwnersUnchanged, QuietSteps
<1>4. ASSUME NEW s \in Servers, NEW status, NEW healthy, SetServer(s, status, healthy),
             Invalidate(s), UNCHANGED <<own, net>>
      PROVE  LeaseInv'
  <2>1. Quiet BY <1>4 DEF Invalidate, Quiet, Rows
  <2>2. \A r \in Servers \ {s} : server'[r] = server[r] BY <1>4 DEF SetServer
  <2>3. \A k \in Requests : row'[k].status = "active" => row[k].server # s
    BY <1>4 DEF Invalidate, Rows
  <2> QED BY <1>3, <1>4, <2>1, <2>2, <2>3
<1>5. CASE ClearQueue
  <2>1. Quiet BY <1>5 DEF ClearQueue, Quiet, Rows
  <2> QED BY <1>1, <1>5, <2>1 DEF ClearQueue, world, brokers
<1>6. ASSUME NEW l \in Requests, Lapse(l) \/ WindowLapses(l) PROVE LeaseInv'
  <2>1. row' = [row EXCEPT ![l].due = TRUE] \/ row' = [row EXCEPT ![l].late = TRUE]
    BY <1>6 DEF Lapse, WindowLapses
  <2>2. \A r \in Rows : LET q == [r EXCEPT !.due = TRUE] IN
                        q.status = r.status /\ q.server = r.server /\ q.gen = r.gen
    BY DEF Rows
  <2>3. \A r \in Rows : LET q == [r EXCEPT !.late = TRUE] IN
                        q.status = r.status /\ q.server = r.server /\ q.gen = r.gen
    BY DEF Rows
  <2>4. ASSUME NEW k \in Requests
        PROVE  \/ row'[k] = row[k] \/ row'[k] = [row[k] EXCEPT !.due = TRUE]
               \/ row'[k] = [row[k] EXCEPT !.late = TRUE]
    BY <2>1
  <2>5. ASSUME NEW k \in Requests
        PROVE  /\ row'[k].status = row[k].status
               /\ row'[k].server = row[k].server /\ row'[k].gen = row[k].gen
    BY ZenonT(30), <2>2, <2>3, <2>4
  <2>6. Quiet BY <2>5 DEF Quiet
  <2> QED BY <1>1, <1>6, <2>6 DEF Lapse, WindowLapses, world, brokers
<1>7. ASSUME NEW s \in Servers, StartServer(s) PROVE LeaseInv'
  <2>1. Quiet BY <1>7 DEF StartServer, Quiet
  <2>2. \A r \in Servers \ {s} : server'[r] = server[r] BY <1>7 DEF StartServer
  <2>3. \A k \in Requests : row'[k].status = "active" => row[k].server # s
    BY <1>7 DEF StartServer, ActiveOnLiveServer
  <2> QED BY <1>3, <1>7, <2>1, <2>2, <2>3 DEF StartServer, brokers
<1>8. ASSUME NEW s \in Servers, ServerStarted(s) PROVE LeaseInv'
  BY <1>2, <1>8 DEF ServerStarted, brokers, Quiet
<1>9. ASSUME NEW s \in Servers, NEW healthy \in BOOLEAN, HealthReport(s, healthy) PROVE LeaseInv'
  <2> DEFINE status == IF healthy /\ server[s].status = "starting" THEN "running"
                       ELSE server[s].status
  <2>1. SetServer(s, status, healthy) /\ UNCHANGED <<own, net>>
    BY <1>9 DEF HealthReport, brokers
  <2>2. CASE healthy
    <3>1. Quiet BY <1>9, <2>2 DEF HealthReport, Quiet
    <3>2. CASE status \in {"running", "starting"} BY <1>2, <2>1, <3>1, <3>2
    <3>3. CASE status \notin {"running", "starting"}
      <4>1. server[s].status \notin {"running", "starting"} BY <3>3
      <4>2. \A r \in Servers \ {s} : server'[r] = server[r] BY <2>1 DEF SetServer
      <4>3. \A k \in Requests : row'[k].status = "active" => row[k].server # s
        BY <3>1, <4>1 DEF Quiet, ActiveOnLiveServer
      <4> QED BY <1>3, <2>1, <3>1, <4>2, <4>3
    <3> QED BY <3>2, <3>3
  <2>3. CASE ~healthy
    BY <1>4, <1>9, <2>1, <2>3 DEF HealthReport
  <2> QED BY <2>2, <2>3
<1>10. ASSUME NEW s \in Servers, AgentRegisters(s) PROVE LeaseInv'
  <2>1. UNCHANGED <<own, net>> BY <1>10 DEF AgentRegisters, brokers
  <2>2. CASE Runs(s, server[s].gen)
    BY <1>2, <1>10, <2>1, <2>2 DEF AgentRegisters, Quiet
  <2>3. CASE ~Runs(s, server[s].gen)
    BY <1>4, <1>10, <2>1, <2>3 DEF AgentRegisters, Unavailable
  <2> QED BY <2>2, <2>3
<1>11. ASSUME NEW s \in Servers, AgentUnreachable(s) PROVE LeaseInv'
  BY <1>4, <1>11 DEF AgentUnreachable, Unavailable, brokers
<1>12. ASSUME NEW s \in Servers, ProcessExits(s) \/ AgentRestarts(s) PROVE LeaseInv'
  <2>1. UNCHANGED row BY <1>12 DEF ProcessExits, AgentRestarts
  <2> QED BY <1>1, <1>12, <2>1 DEF ProcessExits, AgentRestarts, brokers, Quiet
<1>13. ASSUME NEW s \in Servers, NEW status \in {"stopped", "error"}, ServerGone(s, status)
       PROVE  LeaseInv'
  BY <1>4, <1>13 DEF ServerGone, brokers
<1>14. ASSUME NEW s \in Servers, NEW force \in BOOLEAN, RequestStop(s, force) PROVE LeaseInv'
  BY <1>4, <1>14 DEF RequestStop, brokers
<1>15. ASSUME NEW c \in stops, AgentStops(c) PROVE LeaseInv'
  <2>1. Quiet BY <1>15 DEF AgentStops, Quiet
  <2> QED BY <1>1, <1>15, <2>1 DEF AgentStops, brokers
<1>16. ASSUME NEW c \in stops, NEW status \in {"stopped", "error"}, StopSettles(c, status)
       PROVE  LeaseInv'
  <2>1. Quiet /\ UNCHANGED <<own, net>> BY <1>16 DEF StopSettles, Quiet, brokers
  <2>2. CASE UNCHANGED server BY <1>1, <2>1, <2>2
  <2>3. CASE server[c.server].status = "stopping" /\ SetServer(c.server, status, FALSE)
    <3>1. c.server \in Servers BY DEF StopCommands
    <3>2. \A r \in Servers \ {c.server} : server'[r] = server[r] BY <2>3 DEF SetServer
    <3>3. \A k \in Requests : row'[k].status = "active" => row[k].server # c.server
      BY <2>1, <2>3 DEF Quiet, ActiveOnLiveServer
    <3> QED BY <1>3, <2>1, <3>1, <3>2, <3>3
  <2> QED BY <1>16, <2>2, <2>3 DEF StopSettles
<1> QED BY <1>5, <1>6, <1>7, <1>8, <1>9, <1>10, <1>11, <1>12, <1>13, <1>14, <1>15, <1>16
        DEF Environment

(* LeaseInv holds at first, every step keeps it, and so it always holds.   *)
THEOREM LeaseInvariant == Spec => []LeaseInv
<1>1. Init => LeaseInv
  <2> SUFFICES ASSUME Init PROVE LeaseInv OBVIOUS
  <2>1. 0 \in Gens BY LeaseAssumption DEF Gens
  <2>2. TypeOK
    BY <2>1, NewRecords DEF Init, TypeOK, ServerRows
  <2> QED BY <2>2 DEF Init, LeaseInv, CompletedIsServed, CallsNameServers, ReservedByOwner,
                      ActiveOnLiveServer, NoRow, NoOwner
<1>2. LeaseInv /\ [Next]_vars => LeaseInv'
  <2> SUFFICES ASSUME LeaseInv, [Next]_vars PROVE LeaseInv' OBVIOUS
  <2>1. ASSUME NEW l \in Requests, Owner(l) PROVE LeaseInv' BY <2>1, OwnerInv
  <2>2. ASSUME NEW l \in Requests, Handle(l) PROVE LeaseInv' BY <2>2, HandleInv
  <2>3. CASE Agents BY <2>3, AgentsInv
  <2>4. ASSUME NEW w \in Reconcilers, Reconciler(w) PROVE LeaseInv' BY <2>4, ReconcilerInv
  <2>5. CASE Environment BY <2>5, EnvironmentInv
  <2>6. CASE UNCHANGED vars
    BY <2>6 DEF vars, LeaseInv, TypeOK, CompletedIsServed, CallsNameServers, ReservedByOwner,
                ActiveOnLiveServer, Current
  <2> QED BY <2>1, <2>2, <2>3, <2>4, <2>5, <2>6 DEF Next
<1> QED BY <1>1, <1>2, PTL DEF Spec

(* Every variable keeps its type. *)
THEOREM TypeCorrect == Spec => []TypeOK
<1>1. LeaseInv => TypeOK BY DEF LeaseInv
<1> QED BY <1>1, LeaseInvariant, PTL

(* An active lease belongs to the process that its server has, which is    *)
(* not stopped, stopping or broken: no transaction of server_lifecycle.py, *)
(* agent_manager.py or the reconciler leaves a lease behind, and finalize()*)
(* in inference_scheduler.py never activates one behind their backs.       *)
THEOREM ActiveOnLiveServerAlways == Spec => []ActiveOnLiveServer
<1>1. LeaseInv => ActiveOnLiveServer BY DEF LeaseInv
<1> QED BY <1>1, LeaseInvariant, PTL

-------------------------------------------------------------------------------
(* The order of the statuses. *)

(* What most steps do to a row: keep its place and its stage, make it wait *)
(* again without ever having been active, or end it.                       *)
Keeps(k) ==
    \/ row[k].status \in Waiting /\ row'[k].status \in Waiting \union Terminal
    \/ row[k].status = "active" /\ row'[k].status \in Terminal
    \/ /\ row[k].status \notin Waiting /\ row'[k].status = row[k].status
       /\ row[k].status = "active" => row'[k].server = row[k].server /\ row'[k].gen = row[k].gen

Kept == \A k \in Requests : Keeps(k)

Alone(l) == UNCHANGED server /\ \A k \in Requests \ {l} : row'[k] = row[k]

Arrival == \E l \in Requests :
    row[l].status = "absent" /\ row'[l].status = "queued" /\ Alone(l)
Admission == \E l \in Requests :
    row[l].status = "reserving" /\ row'[l].status = "active" /\ Alone(l)

(* What every step does. *)
Forward == Kept \/ Arrival \/ Admission

NewStays ==
    \A k \in Requests : own'[k].pc = "new" =>
        own[k].pc = "new" /\ (row[k].status = "absent" => row'[k].status = "absent")

(* The row changes that keep the order. *)
LEMMA KeptChanges ==
    ASSUME NEW l \in Requests, row \in [Requests -> Rows]
    PROVE  /\ \A status \in Terminal : FinishQueued(l, status) \/ EndActive(l, status) => Kept
           /\ row' = [row EXCEPT ![l] = AfterCleanup(l)] => Kept
           /\ row' = [row EXCEPT ![l].due = FALSE] => Kept
           /\ row' = [row EXCEPT ![l].due = TRUE] => Kept
           /\ row' = [row EXCEPT ![l].late = TRUE] => Kept
<1> USE DEF Kept, Keeps
<1>0. ASSUME \A k \in Requests \ {l} : row'[k] = row[k], Keeps(l) PROVE Kept
  BY <1>0 DEF Waiting
<1>1. ASSUME NEW status \in Terminal, FinishQueued(l, status) \/ EndActive(l, status) PROVE Kept
  <2>1. CASE row' = row BY <2>1 DEF Waiting
  <2>2. CASE row[l].status \in Waiting \union {"active"} /\ row' = [row EXCEPT ![l].status = status]
    <3>1. row'[l].status = status BY <2>2 DEF Rows
    <3> QED BY <1>0, <2>2, <3>1 DEF Rows
  <2> QED BY <1>1, <2>1, <2>2 DEF FinishQueued, EndActive
<1>2. ASSUME row' = [row EXCEPT ![l] = AfterCleanup(l)] PROVE Kept
  <2>1. \/ AfterCleanup(l) = row[l]
        \/ row[l].status = "active" /\ AfterCleanup(l).status = "cancelled"
        \/ row[l].status = "reserving" /\ AfterCleanup(l).status = "queued"
    BY RequeuedType DEF AfterCleanup, Rows
  <2> QED BY <1>2, <2>1 DEF Waiting, Terminal
<1>3. ASSUME NEW r \in Rows, row' = [row EXCEPT ![l] = r], r.status = row[l].status,
             r.server = row[l].server, r.gen = row[l].gen
      PROVE  Kept
  BY <1>3 DEF Waiting
<1>4. /\ [row[l] EXCEPT !.due = FALSE] \in Rows
      /\ [row[l] EXCEPT !.due = FALSE].status = row[l].status
      /\ [row[l] EXCEPT !.due = FALSE].server = row[l].server
      /\ [row[l] EXCEPT !.due = FALSE].gen = row[l].gen
  BY DEF Rows
<1>5. /\ [row[l] EXCEPT !.due = TRUE] \in Rows
      /\ [row[l] EXCEPT !.due = TRUE].status = row[l].status
      /\ [row[l] EXCEPT !.due = TRUE].server = row[l].server
      /\ [row[l] EXCEPT !.due = TRUE].gen = row[l].gen
  BY DEF Rows
<1>6. /\ [row[l] EXCEPT !.late = TRUE] \in Rows
      /\ [row[l] EXCEPT !.late = TRUE].status = row[l].status
      /\ [row[l] EXCEPT !.late = TRUE].server = row[l].server
      /\ [row[l] EXCEPT !.late = TRUE].gen = row[l].gen
  BY DEF Rows
<1> QED BY <1>1, <1>2, <1>3, <1>4, <1>5, <1>6

(* A step that leaves the rows alone keeps their order. *)
LEMMA KeptUnchanged == UNCHANGED row => Kept
BY DEF Kept, Keeps, Waiting

(* The steps of a request and of its handle. *)
LEMMA RequestForward ==
    ASSUME LeaseInv, NewIsAbsent, NEW l \in Requests, Owner(l) \/ Handle(l)
    PROVE  Forward /\ NewStays
<1> USE DEF LeaseInv, TypeOK
<1>a. {"cancelled", "expired", "failed"} \subseteq Terminal BY DEF Terminal
<1>1. ASSUME Kept, NEW pc, own'[l].pc = pc, pc # "new",
             \A k \in Requests \ {l} : own'[k] = own[k]
      PROVE  Forward /\ NewStays
  BY <1>1 DEF Forward, Kept, Keeps, NewStays, Waiting
<1>2. ASSUME Kept, \A k \in Requests : own'[k].pc = own[k].pc
      PROVE  Forward /\ NewStays
  BY <1>2 DEF Forward, Kept, Keeps, NewStays, Waiting
<1>3. ASSUME NEW queuedAt \in 1..Cardinality(Requests), Enqueue(l, queuedAt)
      PROVE  Forward /\ NewStays
  <2>1. row[l].status = "absent" BY <1>3 DEF Enqueue, NewIsAbsent
  <2>2. \A k \in Requests \ {l} : row'[k] = row[k] /\ own'[k] = own[k]
    BY <1>3 DEF Enqueue, Goto
  <2>3. own'[l].pc = "waiting" BY <1>3 DEF Enqueue, Goto, Owners
  <2>4. row'[l].status = "queued" BY <1>3 DEF Enqueue, Rows
  <2>5. UNCHANGED server BY <1>3 DEF Enqueue, world
  <2>6. Arrival BY <2>1, <2>2, <2>4, <2>5 DEF Arrival, Alone
  <2> QED BY <2>2, <2>3, <2>6 DEF Forward, NewStays
<1>4. ASSUME NEW s \in Servers, Claim(l, s) PROVE Forward /\ NewStays
  <2>1. row[l].status = "queued" BY <1>4 DEF Claim
  <2>2. \A k \in Requests \ {l} : row'[k] = row[k] /\ own'[k] = own[k]
    BY <1>4 DEF Claim
  <2>3. own'[l].pc = "posted" BY <1>4 DEF Claim, Owners
  <2>4. row'[l].status = "reserving" BY <1>4 DEF Claim, Rows
  <2>5. Kept BY <2>1, <2>2, <2>4 DEF Kept, Keeps, Waiting
  <2> QED BY <2>2, <2>3, <2>5 DEF Forward, NewStays
<1>5. CASE Finalize(l)
  <2>1. PICK pc \in {"cleanup", "held"} : Goto(l, pc) BY <1>5 DEF Finalize
  <2>2. own'[l].pc # "new" /\ \A k \in Requests \ {l} : own'[k] = own[k]
    BY <2>1 DEF Goto, Owners
  <2>3. CASE UNCHANGED row BY <1>1, <2>2, <2>3, KeptUnchanged
  <2>4. CASE Finalizable(l) /\ row' = [row EXCEPT ![l].status = "active", ![l].due = FALSE,
                                                 ![l].late = FALSE]
    <3>1. row[l].status = "reserving" BY <2>4 DEF Finalizable
    <3>2. \A k \in Requests \ {l} : row'[k] = row[k] BY <2>4
    <3>3. row'[l].status = "active" BY <2>4 DEF Rows
    <3>4. Admission BY <1>5, <3>1, <3>2, <3>3 DEF Finalize, Admission, Alone, world
    <3> QED BY <2>2, <3>2, <3>4 DEF Forward, NewStays
  <2> QED BY <1>5, <2>3, <2>4 DEF Finalize
<1>6. ASSUME NEW pc \in OwnerStates \ {"new"}, Goto(l, pc), Kept PROVE Forward /\ NewStays
  BY <1>1, <1>6 DEF Goto, Owners
<1>7. CASE FinishLeaving(l)
  <2>1. own[l].outcome \in Terminal
    BY <1>7 DEF FinishLeaving, CompletedIsServed, Owners, Ended, Terminal
  <2> QED BY <1>6, <1>7, <2>1, KeptChanges DEF FinishLeaving, OwnerStates
<1>8. CASE PostFails(l) \/ CleanupCancel(l) \/ Dispatch(l) \/ ReleaseCancel(l) \/ Crash(l)
  BY <1>6, <1>8, KeptUnchanged
     DEF PostFails, CleanupCancel, Dispatch, ReleaseCancel, Crash, OwnerStates
<1>9. CASE Requeue(l)
  <2>1. PICK pc \in {"leaving", "waiting"} : Goto(l, pc) BY <1>9 DEF Requeue
  <2> QED BY <1>6, <1>9, <2>1, KeptChanges DEF Requeue, OwnerStates
<1>10. CASE CancelHeld(l)
  BY <1>a, <1>6, <1>10, KeptChanges DEF CancelHeld, OwnerStates
<1>11. CASE ReleaseRow(l)
  <2> DEFINE status == IF own[l].outcome = "completed" THEN "released" ELSE own[l].outcome
  <2>1. status \in Terminal /\ EndActive(l, status)
    BY <1>11 DEF ReleaseRow, Owners, Ended, Terminal
  <2> QED BY <1>6, <1>11, <2>1, KeptChanges DEF ReleaseRow, OwnerStates
<1>12. ASSUME NEW outcome \in {"cancelled", "expired", "failed"}, GivesUp(l, outcome)
       PROVE  Forward /\ NewStays
  BY <1>1, <1>12, KeptUnchanged DEF GivesUp, Owners
<1>13. ASSUME HeldFails(l) \/ \E outcome \in Ended : ServingEnds(l, outcome)
       PROVE  Forward /\ NewStays
  BY <1>1, <1>13, KeptUnchanged DEF HeldFails, ServingEnds, Owners
<1>14. CASE Abort(l)
  <2>1. own'[l].pc \in {"leaving", "cleanup", own[l].pc} BY <1>14 DEF Abort, Owners
  <2> QED BY <1>1, <1>14, <2>1, KeptUnchanged DEF Abort
<1>15. CASE WatcherSees(l)
  <2>1. \A k \in Requests : own'[k].pc = own[k].pc BY <1>15 DEF WatcherSees, Owners
  <2> QED BY <1>a, <1>2, <1>15, <2>1, KeptChanges DEF WatcherSees
<1>16. CASE Renew(l)
  <2>1. own' = own \/ own' = [own EXCEPT ![l].lost = TRUE] BY <1>16 DEF Renew
  <2>2. \A k \in Requests : own'[k].pc = own[k].pc BY <2>1 DEF Owners
  <2>3. UNCHANGED row \/ row' = [row EXCEPT ![l].due = FALSE] BY <1>16 DEF Renew
  <2> QED BY <1>2, <2>2, <2>3, KeptChanges, KeptUnchanged
<1>17. CASE RenewalTimesOut(l)
  <2>1. \A k \in Requests : own'[k].pc = own[k].pc BY <1>17 DEF RenewalTimesOut, Owners
  <2> QED BY <1>2, <1>17, <2>1, KeptUnchanged DEF RenewalTimesOut
<1>18. CASE DisconnectSeen(l)
  <2>1. \A k \in Requests : own'[k].pc = own[k].pc BY <1>18 DEF DisconnectSeen, Owners
  <2> QED BY <1>a, <1>2, <1>18, <2>1, KeptChanges DEF DisconnectSeen
<1> QED BY <1>3, <1>4, <1>5, <1>7, <1>8, <1>9, <1>10, <1>11, <1>12, <1>13, <1>14, <1>15, <1>16,
           <1>17, <1>18 DEF Owner, Handle

(* The steps of the agents, of the reconcilers and of the world. *)
LEMMA OthersForward ==
    ASSUME LeaseInv, NewIsAbsent,
           Agents \/ Environment \/ \E w \in Reconcilers : Reconciler(w)
    PROVE  Forward /\ NewStays
<1> USE DEF LeaseInv, TypeOK
<1>1. ASSUME Kept, UNCHANGED own PROVE Forward /\ NewStays
  BY <1>1 DEF Forward, Kept, Keeps, NewStays, Waiting
<1>2. ASSUME NEW m \in net, AgentReserve(m) PROVE Forward /\ NewStays
  <2>1. m.request \in Requests BY DEF Calls
  <2>2. \A k \in Requests : own'[k].pc \in {own[k].pc, "answered", "cleanup"}
    <3>1. CASE UNCHANGED own BY <3>1
    <3>2. CASE ~UNCHANGED own
      <4>1. PICK pc \in {"answered", "cleanup"} : Goto(m.request, pc)
        BY <1>2, <3>2 DEF AgentReserve
      <4> QED BY <4>1 DEF Goto, Owners
    <3> QED BY <3>1, <3>2
  <2>3. UNCHANGED row BY <1>2 DEF AgentReserve
  <2> QED BY <2>2, <2>3, KeptUnchanged DEF Forward, NewStays
<1>3. CASE Agents /\ ~ \E m \in net : AgentReserve(m)
  <2>1. UNCHANGED <<row, own>>
    BY <1>3 DEF Agents, AgentCancel, AgentDispatch, AgentEnds, AgentClientLost, AgentExpire, brokers
  <2> QED BY <1>1, <2>1, KeptUnchanged
<1>4. ASSUME NEW w \in Reconcilers, Reconciler(w) PROVE Forward /\ NewStays
  <2>1. CASE RecCommit(w)
    <3>1. ASSUME NEW l \in Requests
          PROVE  \/ Reconciled(w, l).status = row[l].status
                 \/ row[l].status \in Waiting /\ Reconciled(w, l).status \in {"queued", "expired"}
                 \/ row[l].status = "active"
                    /\ Reconciled(w, l).status \in {"released", "cancelled", "failed"}
      <4>1. row[l] \in Rows OBVIOUS
      <4>2. CASE l \in Abandoned(w)
        BY <4>1, <4>2, RequeuedType DEF Reconciled, Overdue, Abandoned, Waiting
      <4>3. CASE row[l].status \in Waiting /\ Reconciled(w, l) = [row[l] EXCEPT !.status = "expired"]
        BY <4>1, <4>3 DEF Rows
      <4>4. CASE row[l].status = "active" /\ Reconciled(w, l) = [row[l] EXCEPT !.status = "failed"]
        BY <4>1, <4>4 DEF Rows
      <4>5. CASE Reconciled(w, l) = [row[l] EXCEPT !.due = FALSE]
        BY <4>1, <4>5 DEF Rows
      <4>6. CASE Lapsed(w, l) /\ Reconciled(w, l) = [row[l] EXCEPT !.status = Verdict(w, l)]
        <5>1. Verdict(w, l) \in {"active", "released", "cancelled", "failed"} BY DEF Verdict
        <5> QED BY <4>1, <4>6, <5>1 DEF Lapsed, Rows
      <4>7. CASE Reconciled(w, l) = row[l] BY <4>7
      <4> QED BY <4>2, <4>3, <4>4, <4>5, <4>6, <4>7 DEF Reconciled, Overdue
    <3>2. ASSUME NEW l \in Requests, l \in Stale(w)
          PROVE  row'[l].status = "failed" /\ row[l].status = "active"
      <4>1. Reconciled(w, l).status = "active" BY <3>2 DEF Stale
      <4>2. row[l].status = "active" BY <3>1, <4>1 DEF Waiting
      <4>3. row'[l] = [Reconciled(w, l) EXCEPT !.status = "failed"] BY <2>1, <3>2 DEF RecCommit
      <4>4. Reconciled(w, l) \in Rows BY <3>2, ReconciledType
      <4> QED BY <4>2, <4>3, <4>4 DEF Rows
    <3>3. \A l \in Requests : l \notin Stale(w) => row'[l] = Reconciled(w, l)
      BY <2>1 DEF RecCommit
    <3>4. ASSUME NEW l \in Requests
          PROVE  row[l].status = "active" =>
                    row'[l].server = row[l].server /\ row'[l].gen = row[l].gen
      <4>1. row[l] \in Rows /\ Reconciled(w, l) \in Rows BY ReconciledType
      <4>2. row[l].status = "active" =>
              Reconciled(w, l).server = row[l].server /\ Reconciled(w, l).gen = row[l].gen
        BY <4>1 DEF Reconciled, Abandoned, Overdue, Rows, Waiting
      <4>3. row'[l] \in {Reconciled(w, l), [Reconciled(w, l) EXCEPT !.status = "failed"]}
        BY <2>1 DEF RecCommit
      <4> QED BY <4>1, <4>2, <4>3 DEF Rows
    <3>5. ASSUME NEW l \in Requests PROVE Keeps(l)
      <4>1. CASE l \in Stale(w) BY <3>2, <4>1 DEF Keeps, Terminal
      <4>2. CASE l \notin Stale(w)
        BY <3>1, <3>3, <3>4, <4>2 DEF Keeps, Waiting, Terminal
      <4> QED BY <4>1, <4>2
    <3> QED BY <1>1, <2>1, <3>5 DEF RecCommit, Kept
  <2>2. CASE UNCHANGED <<row, own>> BY <1>1, <2>2, KeptUnchanged
  <2> QED BY <1>4, <2>1, <2>2 DEF Reconciler, RecBegin, RecAborts, AgentAnswers, NoAnswer
<1>5. CASE Environment
  <2>1. UNCHANGED own
    BY <1>5 DEF Environment, ClearQueue, Lapse, WindowLapses, StartServer, ServerStarted,
                AgentRegisters, AgentUnreachable, ProcessExits, AgentRestarts, HealthReport,
                ServerGone, RequestStop, AgentStops, StopSettles, brokers
  <2>2. ASSUME NEW s \in Servers, Invalidate(s) PROVE Kept
    <3> SUFFICES ASSUME NEW k \in Requests PROVE Keeps(k) BY DEF Kept
    <3>1. row[k] \in Rows OBVIOUS
    <3>2. row'[k] = row[k] \/ (row[k].status = "active" /\ row'[k].status = "failed")
      BY <2>2, <3>1 DEF Invalidate, Rows
    <3> QED BY <3>2 DEF Keeps, Waiting, Terminal
  <2>3. ASSUME ClearQueue PROVE Kept
    <3>1. \A k \in Requests : row'[k] = row[k] \/ row[k].status \in Waiting
      BY <2>3 DEF ClearQueue
    <3>2. ASSUME NEW k \in Requests PROVE row'[k].status \in {row[k].status, "cancelled"}
      <4>1. row[k] \in Rows OBVIOUS
      <4>2. CASE row'[k] = row[k] BY <4>2
      <4>3. CASE row'[k] = [row[k] EXCEPT !.status = "cancelled"] BY <4>1, <4>3 DEF Rows
      <4> QED BY <2>3, <4>2, <4>3 DEF ClearQueue
    <3> QED BY <3>1, <3>2 DEF Kept, Keeps, Waiting, Terminal
  <2>4. ASSUME NEW l \in Requests, Lapse(l) \/ WindowLapses(l) PROVE Kept
    BY <2>4, KeptChanges DEF Lapse, WindowLapses
  <2>5. ASSUME NEW s \in Servers,
               \/ StartServer(s) \/ ServerStarted(s) \/ AgentRegisters(s) \/ AgentUnreachable(s)
               \/ ProcessExits(s) \/ AgentRestarts(s)
        PROVE  Kept
    BY <2>2, <2>5, KeptUnchanged
       DEF StartServer, ServerStarted, AgentRegisters, Unavailable, AgentUnreachable,
           ProcessExits, AgentRestarts
  <2>6. ASSUME NEW s \in Servers, NEW healthy \in BOOLEAN, HealthReport(s, healthy) PROVE Kept
    BY <2>2, <2>6, KeptUnchanged DEF HealthReport
  <2>7. ASSUME NEW s \in Servers, NEW force \in BOOLEAN, RequestStop(s, force) PROVE Kept
    BY <2>2, <2>7 DEF RequestStop
  <2>8. ASSUME NEW s \in Servers, NEW status \in {"stopped", "error"}, ServerGone(s, status)
        PROVE  Kept
    BY <2>2, <2>8 DEF ServerGone
  <2>9. ASSUME NEW c \in stops, AgentStops(c) PROVE Kept
    BY <2>9, KeptUnchanged DEF AgentStops
  <2>10. ASSUME NEW c \in stops, NEW status \in {"stopped", "error"}, StopSettles(c, status)
         PROVE  Kept
    BY <2>10, KeptUnchanged DEF StopSettles
  <2>11. Kept BY <1>5, <2>3, <2>4, <2>5, <2>6, <2>7, <2>8, <2>9, <2>10 DEF Environment
  <2> QED BY <1>1, <2>1, <2>11
<1> QED BY <1>2, <1>3, <1>4, <1>5

(* LeaseInv, NewIsAbsent and the order of the rows, together.              *)
THEOREM RowsGoForward == Spec => [](LeaseInv /\ NewIsAbsent) /\ [][Forward]_vars
<1>1. Init => NewIsAbsent BY DEF Init, NewIsAbsent, NoRow
<1>2. LeaseInv /\ NewIsAbsent /\ [Next]_vars => NewIsAbsent' /\ [Forward]_vars
  <2> SUFFICES ASSUME LeaseInv, NewIsAbsent, [Next]_vars PROVE NewIsAbsent' /\ [Forward]_vars
    OBVIOUS
  <2>1. CASE UNCHANGED vars BY <2>1 DEF vars, NewIsAbsent
  <2>2. CASE Next
    <3>1. Forward /\ NewStays BY <2>2, RequestForward, OthersForward DEF Next
    <3>2. NewIsAbsent' BY <3>1 DEF NewStays, NewIsAbsent
    <3> QED BY <3>1, <3>2
  <2> QED BY <2>1, <2>2
<1> QED BY <1>1, <1>2, LeaseInvariant, PTL DEF Spec

(* Cleanups, watchers, releases, clearings and reconciliations of          *)
(* inference_scheduler.py do not overwrite each other: a row that has      *)
(* ended keeps its status and one that was activated never waits again.    *)
THEOREM StatusOrder == Spec => StatusNeverGoesBack
<1>1. [Forward]_vars =>
        [\A l \in Requests :
           /\ row[l].status \in Terminal => row'[l].status = row[l].status
           /\ row[l].status = "active" => row'[l].status \notin Waiting]_vars
  <2> SUFFICES ASSUME Forward, NEW l \in Requests
               PROVE  /\ row[l].status \in Terminal => row'[l].status = row[l].status
                      /\ row[l].status = "active" => row'[l].status \notin Waiting
    OBVIOUS
  <2>1. CASE Kept BY <2>1 DEF Kept, Keeps, Waiting, Terminal
  <2>2. CASE Arrival \/ Admission
    <3>1. row'[l] = row[l] \/ row[l].status \in {"absent", "reserving"}
      BY <2>2 DEF Arrival, Admission, Alone
    <3> QED BY <3>1 DEF Waiting, Terminal
  <2> QED BY <2>1, <2>2 DEF Forward
<1> QED BY <1>1, RowsGoForward, PTL DEF StatusNeverGoesBack

-------------------------------------------------------------------------------
(* The contract. *)

(* The place of an active lease is up. *)
ActiveIsUp == \A l \in Requests : Stage[l] = "active" => Place[l] \in Up

LEMMA ActivesAreUp == LeaseInv => ActiveIsUp
<1> SUFFICES ASSUME LeaseInv, NEW l \in Requests, Stage[l] = "active" PROVE Place[l] \in Up
  BY DEF ActiveIsUp
<1> USE DEF LeaseInv, TypeOK
<1>1. row[l].status = "active" BY DEF Stage, StageOf, Waiting
<1>2. Current(l) /\ server[row[l].server].status \in {"running", "starting"}
  BY <1>1 DEF ActiveOnLiveServer
<1>3. row[l].server \in Servers /\ row[l].gen = server[row[l].server].gen
  BY <1>2 DEF Current
<1>4. Place[l] = <<row[l].server, server[row[l].server].gen>> BY <1>1, <1>3 DEF Place, PlaceOf
<1> QED BY <1>2, <1>3, <1>4 DEF Up

(* A row that stays what it is stays so in the contract. *)
LEMMA SameRow ==
    ASSUME NEW k \in Requests, row'[k] = row[k]
    PROVE  Stage'[k] = Stage[k] /\ Place'[k] = Place[k]
BY DEF Stage, Place, StageOf, PlaceOf

(* A step of the rows is a step of the contract. *)
LEMMA ContractStep ==
    ASSUME LeaseInv, LeaseInv', ActiveIsUp', Forward
    PROVE  Contract!Next
<1> USE DEF LeaseInv, TypeOK
<1>1. CASE Kept
  <2>1. ASSUME NEW l \in Requests PROVE Contract!Stays(l) \/ Contract!Ends(l)
    <3>1. CASE row[l].status \in Waiting /\ row'[l].status \in Waiting
      BY <3>1 DEF Contract!Stays, Stage, Place, StageOf, PlaceOf, Waiting
    <3>2. CASE row[l].status \in Waiting \union {"active"} /\ row'[l].status \in Terminal
      <4>1. Stage[l] \in {"waiting", "active"} BY <3>2 DEF Stage, StageOf, Waiting
      <4>2. Stage'[l] \in Terminal /\ Place'[l] = <<NoServer, 0>>
        BY <3>2 DEF Stage, Place, StageOf, PlaceOf, Waiting, Terminal
      <4> QED BY <4>1, <4>2 DEF Contract!Ends, Contract!Over, Terminal
    <3>3. CASE /\ row[l].status \notin Waiting /\ row'[l].status = row[l].status
               /\ row[l].status = "active" => row'[l].server = row[l].server /\ row'[l].gen = row[l].gen
      BY <3>3 DEF Contract!Stays, Stage, Place, StageOf, PlaceOf
    <3> QED BY <1>1, <3>1, <3>2, <3>3 DEF Kept, Keeps
  <2>2. Up' \subseteq Servers \X Gens BY DEF Up, ServerRows
  <2>3. \A l \in Requests : Stage'[l] = "active" => Place'[l] \in Up' BY DEF ActiveIsUp
  <2> QED BY <2>1, <2>2, <2>3 DEF Contract!Next, Contract!Withdraw
<1>2. CASE Arrival
  <2>1. PICK l \in Requests : /\ row[l].status = "absent" /\ row'[l].status = "queued"
                              /\ Alone(l)
    BY <1>2 DEF Arrival
  <2>2. Stage[l] = "absent" /\ Stage'[l] = "waiting" /\ Place'[l] = <<NoServer, 0>>
    BY <2>1 DEF Stage, Place, StageOf, PlaceOf, Waiting
  <2>3. \A k \in Requests \ {l} : Contract!Stays(k)
    BY <2>1, SameRow DEF Alone, Contract!Stays
  <2>4. Up' = Up BY <2>1 DEF Alone, Up
  <2> QED BY <2>2, <2>3, <2>4 DEF Contract!Next, Contract!Arrive
<1>3. CASE Admission
  <2>1. PICK l \in Requests : /\ row[l].status = "reserving" /\ row'[l].status = "active"
                              /\ Alone(l)
    BY <1>3 DEF Admission
  <2>2. Stage[l] = "waiting" /\ Stage'[l] = "active" BY <2>1 DEF Stage, StageOf, Waiting
  <2>3. Place'[l] \in Up' BY <2>2 DEF ActiveIsUp
  <2>4. \A k \in Requests \ {l} : Contract!Stays(k)
    BY <2>1, SameRow DEF Alone, Contract!Stays
  <2>5. Up' = Up BY <2>1 DEF Alone, Up
  <2> QED BY <2>2, <2>3, <2>4, <2>5 DEF Contract!Next, Contract!Admit
<1> QED BY <1>1, <1>2, <1>3 DEF Forward

(* The scheduler keeps its contract: cleanups, watchers, releases, queue   *)
(* clearings, reconciliations, starts, stops and reports, however they     *)
(* interleave, never reopen, move or overwrite a lease, and never take a   *)
(* process away from under one.                                            *)
THEOREM ContractKept == Spec => KeepsContract
<1>1. Init => Contract!Init
  <2> SUFFICES ASSUME Init PROVE Contract!Init OBVIOUS
  <2>1. Stage = [l \in Requests |-> "absent"] /\ Place = [l \in Requests |-> <<NoServer, 0>>]
    BY DEF Init, NoRow, Stage, Place, StageOf, PlaceOf, Waiting
  <2>2. Up = {} BY DEF Init, Up
  <2> QED BY <2>1, <2>2 DEF Contract!Init
<1>2. LeaseInv /\ LeaseInv' /\ ActiveIsUp' /\ [Forward]_vars => [Contract!Next]_(Contract!vars)
  <2>1. UNCHANGED vars => UNCHANGED Contract!vars
    BY DEF vars, Contract!vars, Stage, Place, Up, StageOf, PlaceOf
  <2> QED BY <2>1, ContractStep
<1> QED BY <1>1, <1>2, RowsGoForward, ActivesAreUp, PTL DEF Spec, KeepsContract, Contract!Spec

-------------------------------------------------------------------------------
(* Admission: the invariants. *)

(* A row that occupies a server was claimed under a generation the server  *)
(* has had by now.                                                         *)
ClaimedInPast ==
    \A l \in Requests : row[l].status \in {"reserving", "active"} =>
        row[l].server \in Servers /\ row[l].gen <= server[row[l].server].gen

(* The row l occupies the server s and counts against its slots.           *)
CountsOn(l, s) ==
    /\ l \notin revived /\ row[l].server = s /\ row[l].gen = server[s].gen
    /\ row[l].status = "reserving" \/ (row[l].status = "active" /\ ~row[l].due)

(* A row that has not appeared has no place, and no place is later than    *)
(* the number of the rows that have.                                       *)
Placed == {l \in Requests : row[l].place # 0}

PlacesAreCounted ==
    \A l \in Requests : /\ row[l].status = "absent" => row[l].place = 0
                        /\ row[l].place <= Cardinality(Placed)

Ahead(k, l) == row[k].queuedAt < row[l].queuedAt /\ row[k].place < row[l].place

(* A row that is being reserved on a server is still the head of its queue *)
(* as far as rows are concerned that were there before it.                 *)
NobodyAhead ==
    \A l \in Requests : row[l].status = "reserving" =>
        \A k \in Requests : Ahead(k, l) => k \notin WaitingFor(row[l].server)

(* A server is said to be running only after its agent has started the     *)
(* generation it has, and agents start no generation before it is given.   *)
StartedGenerations ==
    \A s \in Servers : /\ process[s].gen <= server[s].gen
                       /\ server[s].status = "running" => process[s].gen = server[s].gen

(* The process a row was claimed on has been started, so that it cannot    *)
(* come up again once it is gone.                                          *)
ClaimedOnStarted ==
    \A l \in Requests : row[l].status = "reserving" =>
        row[l].server \in Servers /\ row[l].gen <= process[row[l].server].gen

(* What the agents may still hear of a request: of its last attempt, only  *)
(* from the server and the generation it claimed, and nothing but the      *)
(* reservation as long as acquire() waits for it.                          *)
CallsOf(l) == {m \in net : m.request = l}

CallsAreOwn ==
    \A l \in Requests : \A m \in CallsOf(l) :
        /\ m.attempt <= own[l].attempt
        /\ m.attempt = own[l].attempt =>
              /\ m.server = own[l].server /\ m.gen = own[l].gen
              /\ own[l].pc \in {"posted", "answered"} => m.kind = "reserve"

(* The row l is in the reservation that its request waits for, in time.    *)
InWindow(l) ==
    /\ own[l].pc = "answered"
    /\ row[l].status = "reserving" /\ row[l].attempt = own[l].attempt /\ ~row[l].late

(* The agent keeps the reservation that the request l was given, as long   *)
(* as the process it was made on is up.                                    *)
Backed(l) ==
    LET s == own[l].server IN
    \/ ~Runs(s, own[l].gen)
    \/ agent[s][l].status = "reserved" /\ agent[s][l].attempt = own[l].attempt

ReservationKept == \A l \in Requests : InWindow(l) => Backed(l)

-------------------------------------------------------------------------------
(* What most steps do to a row.                                            *)

(* The row r becomes q.  It does not come to occupy a server or to wait,   *)
(* it keeps the server it occupies and its place in the queue, and its     *)
(* deadlines are moved on only when it is brought back.                    *)
Calmly(r, q, back) ==
    /\ q.status \in {"reserving", "active"} =>
          /\ q.status = r.status /\ q.server = r.server /\ q.gen = r.gen
          /\ q.attempt = r.attempt
          /\ r.late => q.late
          /\ r.due => q.due \/ back
    /\ q.status \in Waiting /\ ~q.due => r.status \in Waiting /\ ~r.due
    /\ q.status = "absent" => r.status = "absent"
    /\ q.queuedAt = r.queuedAt /\ q.place = r.place

CalmExcept(l) == /\ revived \subseteq revived'
                 /\ \A k \in Requests \ {l} : Calmly(row[k], row'[k], k \in revived')

Calm == /\ revived \subseteq revived'
        /\ \A k \in Requests : Calmly(row[k], row'[k], k \in revived')

(* A row that is not changed.                                              *)
LEMMA CalmSame == ASSUME NEW r, NEW back PROVE Calmly(r, r, back)
BY DEF Calmly

(* A row that ends.                                                        *)
LEMMA CalmEnd ==
    ASSUME NEW r \in Rows, NEW status \in Terminal, NEW back
    PROVE  Calmly(r, [r EXCEPT !.status = status], back)
BY DEF Calmly, Rows, Terminal, Waiting

(* A deadline passes.                                                      *)
LEMMA CalmLapse ==
    ASSUME NEW r \in Rows, NEW back
    PROVE  /\ Calmly(r, [r EXCEPT !.due = TRUE], back)
           /\ Calmly(r, [r EXCEPT !.late = TRUE], back)
BY DEF Calmly, Rows

(* A lease that had expired goes on.                                       *)
LEMMA CalmRevival ==
    ASSUME NEW r \in Rows, NEW back, r.status = "active", r.due => back
    PROVE  Calmly(r, [r EXCEPT !.due = FALSE], back)
BY DEF Calmly, Rows, Waiting

(* A reservation goes back into the queue.                                 *)
LEMMA CalmRequeue ==
    ASSUME NEW r \in Rows, NEW back, r.status = "reserving"
    PROVE  Calmly(r, Requeued(r), back)
<1>1. /\ Requeued(r).status = "queued" /\ Requeued(r).due = r.due
      /\ Requeued(r).queuedAt = r.queuedAt /\ Requeued(r).place = r.place
  BY DEF Requeued, Rows
<1> QED BY <1>1 DEF Calmly, Waiting

(* The row changes that are calm.                                          *)
LEMMA CalmChanges ==
    ASSUME NEW l \in Requests, row \in [Requests -> Rows], revived \subseteq revived'
    PROVE  /\ UNCHANGED row => Calm
           /\ \A status \in Terminal : FinishQueued(l, status) \/ EndActive(l, status) => Calm
           /\ row' = [row EXCEPT ![l] = AfterCleanup(l)] => Calm
           /\ row' = [row EXCEPT ![l].due = TRUE] => Calm
           /\ row' = [row EXCEPT ![l].late = TRUE] => Calm
           /\ row' = [row EXCEPT ![l].due = FALSE] /\ row[l].status = "active"
                /\ (row[l].due => l \in revived') => Calm
<1>1. UNCHANGED row => Calm BY CalmSame DEF Calm
<1>2. ASSUME NEW q, row' = [row EXCEPT ![l] = q], Calmly(row[l], q, l \in revived')
      PROVE  Calm
  BY <1>2, CalmSame DEF Calm
<1>3. ASSUME NEW status \in Terminal, FinishQueued(l, status) \/ EndActive(l, status)
      PROVE  Calm
  <2>1. row' = row \/ row' = [row EXCEPT ![l] = [row[l] EXCEPT !.status = status]]
    BY <1>3 DEF FinishQueued, EndActive
  <2>2. Calmly(row[l], [row[l] EXCEPT !.status = status], l \in revived') BY CalmEnd
  <2> QED BY <1>1, <1>2, <2>1, <2>2
<1>4. ASSUME row' = [row EXCEPT ![l] = AfterCleanup(l)] PROVE Calm
  <2>1. Calmly(row[l], AfterCleanup(l), l \in revived')
    BY CalmSame, CalmEnd, CalmRequeue DEF AfterCleanup, Terminal
  <2> QED BY <1>2, <1>4, <2>1
<1>5. ASSUME row' = [row EXCEPT ![l].due = TRUE] PROVE Calm
  <2>1. row' = [row EXCEPT ![l] = [row[l] EXCEPT !.due = TRUE]] BY <1>5
  <2> QED BY <1>2, <2>1, CalmLapse
<1>6. ASSUME row' = [row EXCEPT ![l].late = TRUE] PROVE Calm
  <2>1. row' = [row EXCEPT ![l] = [row[l] EXCEPT !.late = TRUE]] BY <1>6
  <2> QED BY <1>2, <2>1, CalmLapse
<1>7. ASSUME row' = [row EXCEPT ![l].due = FALSE], row[l].status = "active",
             row[l].due => l \in revived'
      PROVE  Calm
  <2>1. row' = [row EXCEPT ![l] = [row[l] EXCEPT !.due = FALSE]] BY <1>7
  <2> QED BY <1>2, <1>7, <2>1, CalmRevival
<1> QED BY <1>1, <1>3, <1>4, <1>5, <1>6, <1>7

(* finalize() makes a lease of a reservation.                              *)
Activates(l) == /\ own[l].pc = "answered" /\ Finalizable(l)
                /\ row' = [row EXCEPT ![l].status = "active", ![l].due = FALSE, ![l].late = FALSE]

(* The steps that give a row a place or a server.                          *)
Arrives(l) == \E queuedAt \in 1..Cardinality(Requests) : Enqueue(l, queuedAt)
Claims(l) == \E s \in Servers : Claim(l, s)
Admits(l) == Activates(l) /\ UNCHANGED <<world, agent, net, revived>>

(* What a request does to the rows.                                        *)
LEMMA RequestCalm ==
    ASSUME LeaseInv, NEW l \in Requests, Owner(l) \/ Handle(l)
    PROVE  Calm \/ Arrives(l) \/ Claims(l) \/ Admits(l)
<1>0. /\ row \in [Requests -> Rows] /\ own \in [Requests -> Owners]
      /\ {"cancelled", "expired", "failed", "released"} \subseteq Terminal
  BY DEF LeaseInv, TypeOK, Terminal
<1>1. ASSUME UNCHANGED <<row, revived>> PROVE Calm BY <1>1, CalmSame DEF Calm
<1>2. ASSUME NEW outcome \in {"cancelled", "expired", "failed"}, GivesUp(l, outcome) PROVE Calm
  BY <1>1, <1>2 DEF GivesUp
<1>3. CASE FinishLeaving(l)
  <2>1. own[l].outcome \in Terminal
    BY <1>0, <1>3 DEF LeaseInv, FinishLeaving, CompletedIsServed, Owners, Ended, Terminal
  <2> QED BY <1>0, <1>3, <2>1, CalmChanges DEF FinishLeaving
<1>4. CASE Finalize(l)
  <2>1. CASE UNCHANGED row BY <1>1, <1>4, <2>1 DEF Finalize
  <2> QED BY <1>4, <2>1 DEF Finalize, Admits, Activates
<1>5. CASE PostFails(l) \/ CleanupCancel(l) \/ Abort(l) \/ Dispatch(l) \/ HeldFails(l)
           \/ RenewalTimesOut(l) \/ ReleaseCancel(l) \/ Crash(l)
  BY <1>1, <1>5 DEF PostFails, CleanupCancel, Abort, Dispatch, HeldFails, RenewalTimesOut,
                    ReleaseCancel, Crash
<1>6. CASE Requeue(l) BY <1>0, <1>6, CalmChanges DEF Requeue
<1>7. CASE WatcherSees(l) BY <1>0, <1>7, CalmChanges DEF WatcherSees
<1>8. CASE CancelHeld(l) \/ DisconnectSeen(l)
  BY <1>0, <1>8, CalmChanges DEF CancelHeld, DisconnectSeen
<1>9. CASE Renew(l)
  <2>1. CASE UNCHANGED <<row, revived>> BY <1>1, <2>1
  <2>2. CASE Renewable(l) /\ row' = [row EXCEPT ![l].due = FALSE]
             /\ revived' = IF row[l].due THEN revived \union {l} ELSE revived
    <3>1. revived \subseteq revived' /\ (row[l].due => l \in revived') BY <2>2
    <3>2. row[l].status = "active" BY <2>2 DEF Renewable
    <3> QED BY <1>0, <2>2, <3>1, <3>2, CalmChanges
  <2> QED BY <1>9, <2>1, <2>2 DEF Renew
<1>10. ASSUME NEW outcome \in Ended, ServingEnds(l, outcome) PROVE Calm
  BY <1>1, <1>10 DEF ServingEnds
<1>11. CASE ReleaseRow(l)
  <2>1. (IF own[l].outcome = "completed" THEN "released" ELSE own[l].outcome) \in Terminal
    BY <1>0 DEF Owners, Ended, Terminal
  <2> QED BY <1>0, <1>11, <2>1, CalmChanges DEF ReleaseRow
<1> QED BY <1>2, <1>3, <1>4, <1>5, <1>6, <1>7, <1>8, <1>9, <1>10, <1>11
    DEF Owner, Handle, Arrives, Claims

(* What a reconciliation makes of a row keeps its place in the queue, and  *)
(* is calm.                                                                *)
LEMMA CalmReconciled ==
    ASSUME row \in [Requests -> Rows], NEW w \in Reconcilers, NEW l \in Requests, NEW back,
           l \in Extended(w) => back
    PROVE  /\ Reconciled(w, l) \in Rows
           /\ Calmly(row[l], Reconciled(w, l), back)
<1>0. row[l] \in Rows OBVIOUS
<1>1. CASE l \in Abandoned(w)
  BY <1>0, <1>1, CalmRequeue, RequeuedType DEF Abandoned, Reconciled
<1>2. CASE l \notin Abandoned(w) /\ l \in Overdue(w)
  BY <1>0, <1>2, CalmEnd, StatusType DEF Reconciled, Terminal
<1>3. CASE l \notin Abandoned(w) /\ l \notin Overdue(w) /\ row[l].status = "active"
           /\ rec[w].verdict[l] = "old"
  BY <1>0, <1>3, CalmEnd, StatusType DEF Reconciled, Terminal
<1>4. CASE l \notin Abandoned(w) /\ l \notin Overdue(w) /\ l \in Extended(w)
           /\ ~(row[l].status = "active" /\ rec[w].verdict[l] = "old")
  <2>1. Reconciled(w, l) = [row[l] EXCEPT !.due = FALSE] BY <1>4 DEF Reconciled
  <2>2. row[l].status = "active" BY <1>4 DEF Extended, Lapsed
  <2>3. [row[l] EXCEPT !.due = FALSE] \in Rows BY <1>0 DEF Rows
  <2> QED BY <1>0, <1>4, <2>1, <2>2, <2>3, CalmRevival
<1>5. CASE l \notin Abandoned(w) /\ l \notin Overdue(w) /\ l \notin Extended(w)
           /\ ~(row[l].status = "active" /\ rec[w].verdict[l] = "old") /\ Lapsed(w, l)
  <2>1. Reconciled(w, l) = [row[l] EXCEPT !.status = Verdict(w, l)] BY <1>5 DEF Reconciled
  <2>2. Verdict(w, l) \in Terminal \union {"active"} BY DEF Verdict, Terminal
  <2>3. Calmly(row[l], [row[l] EXCEPT !.status = Verdict(w, l)], back)
    <3>1. CASE Verdict(w, l) = "active"
      <4>1. row[l].status = "active" BY <1>5 DEF Lapsed
      <4>2. [row[l] EXCEPT !.status = "active"] = row[l] BY <1>0, <4>1 DEF Rows
      <4> QED BY <3>1, <4>2, CalmSame
    <3>2. CASE Verdict(w, l) # "active" BY <1>0, <2>2, <3>2, CalmEnd
    <3> QED BY <3>1, <3>2
  <2> QED BY <1>0, <2>1, <2>2, <2>3, StatusType
<1>6. CASE Reconciled(w, l) = row[l] BY <1>0, <1>6, CalmSame
<1> QED BY <1>1, <1>2, <1>3, <1>4, <1>5, <1>6 DEF Reconciled

(* A row that ends after another calm change.                              *)
LEMMA CalmThenEnd ==
    ASSUME NEW r, NEW q \in Rows, NEW back, Calmly(r, q, back)
    PROVE  Calmly(r, [q EXCEPT !.status = "failed"], back)
<1>1. /\ [q EXCEPT !.status = "failed"].status = "failed"
      /\ [q EXCEPT !.status = "failed"].queuedAt = q.queuedAt
      /\ [q EXCEPT !.status = "failed"].place = q.place
  BY DEF Rows
<1> QED BY <1>1 DEF Calmly, Waiting

(* The agents, the reconcilers and the environment are calm.               *)
LEMMA OthersCalm ==
    ASSUME LeaseInv, Agents \/ (\E w \in Reconcilers : Reconciler(w)) \/ Environment
    PROVE  Calm
<1>0. row \in [Requests -> Rows] /\ "failed" \in Terminal /\ "cancelled" \in Terminal
  BY DEF LeaseInv, TypeOK, Terminal
<1>1. ASSUME UNCHANGED <<row, revived>> PROVE Calm BY <1>1, CalmSame DEF Calm
<1>2. CASE Agents
  <2>1. UNCHANGED <<row, revived>>
    BY <1>2 DEF Agents, AgentReserve, AgentCancel, AgentDispatch, AgentEnds, AgentClientLost,
                AgentExpire, world, brokers
  <2> QED BY <1>1, <2>1
<1>3. ASSUME NEW w \in Reconcilers, Reconciler(w) PROVE Calm
  <2>1. CASE RecCommit(w)
    <3>1. revived' = revived \union Extended(w) BY <2>1 DEF RecCommit
    <3>2. ASSUME NEW l \in Requests PROVE Calmly(row[l], row'[l], l \in revived')
      <4>1. /\ Reconciled(w, l) \in Rows
            /\ Calmly(row[l], Reconciled(w, l), l \in revived')
        BY <1>0, <3>1, CalmReconciled
      <4>2. \/ row'[l] = Reconciled(w, l)
            \/ row'[l] = [Reconciled(w, l) EXCEPT !.status = "failed"]
        BY <2>1 DEF RecCommit
      <4> QED BY <4>1, <4>2, CalmThenEnd
    <3> QED BY <3>1, <3>2 DEF Calm
  <2>2. CASE RecBegin(w) \/ RecAborts(w)
    BY <1>1, <2>2 DEF RecBegin, RecAborts
  <2>3. ASSUME NEW s \in Servers, AgentAnswers(w, s) \/ NoAnswer(w, s) PROVE Calm
    BY <1>1, <2>3 DEF AgentAnswers, NoAnswer
  <2> QED BY <1>3, <2>1, <2>2, <2>3 DEF Reconciler
<1>4. CASE Environment
  <2>1. ASSUME UNCHANGED revived,
               \A k \in Requests : \/ row'[k] = row[k]
                                   \/ row'[k] = [row[k] EXCEPT !.status = "failed"]
                                   \/ row'[k] = [row[k] EXCEPT !.status = "cancelled"]
        PROVE  Calm
    <3>1. ASSUME NEW k \in Requests PROVE Calmly(row[k], row'[k], k \in revived')
      <4>1. row[k] \in Rows BY <1>0
      <4>2. \A status \in Terminal :
               Calmly(row[k], [row[k] EXCEPT !.status = status], k \in revived')
        BY <4>1, CalmEnd
      <4>3. Calmly(row[k], row[k], k \in revived') BY CalmSame
      <4> QED BY <1>0, <2>1, <4>2, <4>3
    <3> QED BY <2>1, <3>1 DEF Calm
  <2>2. ASSUME NEW s \in Servers, Invalidate(s), UNCHANGED revived PROVE Calm
    BY <2>1, <2>2 DEF Invalidate
  <2>3. CASE ClearQueue BY <2>1, <2>3 DEF ClearQueue, brokers
  <2>4. ASSUME NEW l \in Requests, Lapse(l) \/ WindowLapses(l) PROVE Calm
    BY <1>0, <2>4, CalmChanges DEF Lapse, WindowLapses, brokers
  <2>5. ASSUME NEW s \in Servers,
               StartServer(s) \/ ServerStarted(s) \/ ProcessExits(s) \/ AgentRestarts(s)
        PROVE  Calm
    BY <1>1, <2>5 DEF StartServer, ServerStarted, ProcessExits, AgentRestarts, brokers
  <2>6. ASSUME NEW s \in Servers, AgentRegisters(s) \/ AgentUnreachable(s) PROVE Calm
    BY <1>1, <2>2, <2>6 DEF AgentRegisters, AgentUnreachable, Unavailable, brokers
  <2>7. ASSUME NEW s \in Servers, NEW healthy \in BOOLEAN, HealthReport(s, healthy) PROVE Calm
    BY <1>1, <2>2, <2>7 DEF HealthReport, brokers
  <2>8. ASSUME NEW s \in Servers, NEW status, ServerGone(s, status) PROVE Calm
    BY <2>2, <2>8 DEF ServerGone, brokers
  <2>9. ASSUME NEW s \in Servers, NEW force, RequestStop(s, force) PROVE Calm
    BY <2>2, <2>9 DEF RequestStop, brokers
  <2>10. ASSUME NEW c \in stops, NEW status, StopSettles(c, status) PROVE Calm
    BY <1>1, <2>10 DEF StopSettles, brokers
  <2>11. ASSUME NEW c \in stops, AgentStops(c) PROVE Calm
    BY <1>1, <2>11 DEF AgentStops, brokers
  <2> QED BY <1>4, <2>3, <2>4, <2>5, <2>6, <2>7, <2>8, <2>9, <2>10, <2>11 DEF Environment
<1> QED BY <1>2, <1>3, <1>4

-------------------------------------------------------------------------------
(* What a step does to the servers and their processes.                    *)

(* A start gives a server a new generation; nothing else gives it one.     *)
Regenerates(s) ==
    /\ UNCHANGED <<process, row, revived>>
    /\ \A t \in Servers \ {s} : server'[t] = server[t]
    /\ server'[s].gen = server[s].gen + 1 /\ server'[s].status = "starting"

GenerationsStay == \A s \in Servers : server'[s].gen = server[s].gen

(* The generation of a server changes when it is started only.             *)
LEMMA GenerationStep ==
    ASSUME LeaseInv, Next
    PROVE  GenerationsStay \/ \E s \in Servers : Regenerates(s)
<1>0. server \in [Servers -> ServerRows] BY DEF LeaseInv, TypeOK
<1>1. ASSUME UNCHANGED server PROVE GenerationsStay BY <1>1 DEF GenerationsStay
<1>2. ASSUME NEW s, NEW status, NEW healthy, SetServer(s, status, healthy)
      PROVE  GenerationsStay
  BY <1>0, <1>2 DEF SetServer, GenerationsStay, ServerRows
<1>3. ASSUME NEW l \in Requests, Owner(l) \/ Handle(l) PROVE GenerationsStay
  BY <1>1, <1>3 DEF Owner, Handle, Enqueue, FinishLeaving, PostFails, Finalize, CleanupCancel,
     Requeue, Abort, WatcherSees, GivesUp, Claim, CancelHeld, Dispatch, HeldFails, Renew,
     RenewalTimesOut, DisconnectSeen, ServingEnds, ReleaseCancel, ReleaseRow, Crash, world
<1>4. CASE Agents
  BY <1>1, <1>4 DEF Agents, AgentReserve, AgentCancel, AgentDispatch, AgentEnds,
     AgentClientLost, AgentExpire, world
<1>5. ASSUME NEW w \in Reconcilers, Reconciler(w) PROVE GenerationsStay
  <2>1. CASE RecCommit(w)
    BY <1>0, <2>1 DEF RecCommit, GenerationsStay, ServerRows
  <2>2. CASE ~RecCommit(w)
    BY <1>1, <1>5, <2>2 DEF Reconciler, RecBegin, RecAborts, AgentAnswers, NoAnswer, world
  <2> QED BY <2>1, <2>2
<1>6. CASE Environment
  <2>1. ASSUME NEW s \in Servers, StartServer(s) PROVE Regenerates(s)
    BY <1>0, <2>1 DEF StartServer, Regenerates, brokers, ServerRows
  <2>2. CASE ClearQueue BY <1>1, <2>2 DEF ClearQueue, world
  <2>3. ASSUME NEW l \in Requests, Lapse(l) \/ WindowLapses(l) PROVE GenerationsStay
    BY <1>1, <2>3 DEF Lapse, WindowLapses, world
  <2>4. ASSUME NEW s \in Servers,
               \/ ServerStarted(s) \/ AgentRegisters(s) \/ AgentUnreachable(s)
               \/ ProcessExits(s) \/ AgentRestarts(s)
        PROVE  GenerationsStay
    BY <1>1, <1>2, <2>4 DEF ServerStarted, AgentRegisters, AgentUnreachable, Unavailable,
       ProcessExits, AgentRestarts
  <2>5. ASSUME NEW s \in Servers, NEW healthy \in BOOLEAN, HealthReport(s, healthy)
        PROVE  GenerationsStay
    BY <1>2, <2>5 DEF HealthReport
  <2>6. ASSUME NEW s \in Servers, NEW status, ServerGone(s, status) PROVE GenerationsStay
    BY <1>2, <2>6 DEF ServerGone
  <2>7. ASSUME NEW s \in Servers, NEW force, RequestStop(s, force) PROVE GenerationsStay
    BY <1>2, <2>7 DEF RequestStop
  <2>8. ASSUME NEW c \in stops, AgentStops(c) PROVE GenerationsStay
    BY <1>1, <2>8 DEF AgentStops
  <2>9. ASSUME NEW c \in stops, NEW status, StopSettles(c, status) PROVE GenerationsStay
    BY <1>1, <1>2, <2>9 DEF StopSettles
  <2> QED BY <1>6, <2>1, <2>2, <2>3, <2>4, <2>5, <2>6, <2>7, <2>8, <2>9 DEF Environment
<1> QED BY <1>3, <1>4, <1>5, <1>6 DEF Next

-------------------------------------------------------------------------------
(* The bound on the rows of a server.                                      *)

(* No row comes to count against the slots of a server.                    *)
NoMore == \A k \in Requests, s \in Servers : CountsOn(k, s)' => CountsOn(k, s)

(* The generations of the servers are numbers.                             *)
LEMMA GenerationNumbers ==
    ASSUME TypeOK
    PROVE  /\ \A s \in Servers : server[s].gen \in Nat /\ process[s].gen \in Nat
           /\ \A l \in Requests : row[l].gen \in Nat /\ own[l].gen \in Nat
BY DEF TypeOK, ServerRows, Rows, Owners, Gens

(* A calm step, under generations that stay or grow, adds no row.          *)
LEMMA CalmAddsNone ==
    ASSUME TypeOK, ClaimedInPast, Calm, GenerationsStay \/ \E s \in Servers : Regenerates(s)
    PROVE  ClaimedInPast' /\ NoMore
<1>1. CASE GenerationsStay
  BY <1>1 DEF Calm, Calmly, GenerationsStay, ClaimedInPast, NoMore, CountsOn
<1>2. ASSUME NEW s \in Servers, Regenerates(s) PROVE ClaimedInPast' /\ NoMore
  <2>1. /\ row' = row /\ revived' = revived
        /\ \A t \in Servers \ {s} : server'[t].gen = server[t].gen
        /\ server'[s].gen = server[s].gen + 1
    BY <1>2 DEF Regenerates
  <2>2. ClaimedInPast'
    BY <2>1, GenerationNumbers DEF ClaimedInPast
  <2>3. NoMore
    BY <2>1, GenerationNumbers DEF ClaimedInPast, NoMore, CountsOn
  <2> QED BY <2>2, <2>3
<1> QED BY <1>1, <1>2

(* What _claim writes.                                                     *)
LEMMA ClaimedRow ==
    ASSUME TypeOK, NEW l \in Requests, NEW s \in Servers, Claim(l, s)
    PROVE  /\ row'[l].status = "reserving" /\ row'[l].server = s
           /\ row'[l].gen = server[s].gen /\ row'[l].attempt = own[l].attempt + 1
           /\ row'[l].late = FALSE /\ row'[l].due = row[l].due
           /\ row'[l].queuedAt = row[l].queuedAt /\ row'[l].place = row[l].place
           /\ \A k \in Requests \ {l} : row'[k] = row[k]
           /\ UNCHANGED <<server, process, revived>>
BY DEF Claim, TypeOK, Rows, world

(* What finalize() writes.                                                 *)
LEMMA ActivatedRow ==
    ASSUME TypeOK, NEW l \in Requests, Admits(l)
    PROVE  /\ row[l].status = "reserving" /\ row'[l].status = "active"
           /\ row'[l].server = row[l].server /\ row'[l].gen = row[l].gen
           /\ row'[l].due = FALSE
           /\ row'[l].queuedAt = row[l].queuedAt /\ row'[l].place = row[l].place
           /\ \A k \in Requests \ {l} : row'[k] = row[k]
           /\ UNCHANGED <<server, process, revived>>
BY DEF Admits, Activates, Finalizable, TypeOK, Rows, world

(* What acquire() writes first.                                            *)
LEMMA ArrivedRow ==
    ASSUME TypeOK, NEW l \in Requests, Arrives(l)
    PROVE  /\ own[l].pc = "new" /\ row'[l].status = "queued"
           /\ row'[l].place = Cardinality(Placed) + 1
           /\ \A k \in Requests \ {l} : row'[k] = row[k]
           /\ UNCHANGED <<server, process, revived>>
BY DEF Arrives, Enqueue, Placed, TypeOK, Rows, world

(* A claim adds its row to a server that has a slot left.                  *)
LEMMA ClaimFits ==
    ASSUME TypeOK, AdmissionBound, NEW l \in Requests, NEW s \in Servers, Claim(l, s)
    PROVE  AdmissionBound'
<1> DEFINE Counted(t) == {k \in Requests : CountsOn(k, t)}
<1>0. /\ \A t \in Servers : IsFiniteSet(Counted(t)) /\ Cardinality(Counted(t)) \in Nat
      /\ IsFiniteSet(Occupied(s)) /\ Cardinality(Occupied(s)) \in Nat
  <2>1. \A t \in Servers : Counted(t) \subseteq Requests OBVIOUS
  <2>2. Occupied(s) \subseteq Requests BY DEF Occupied
  <2> QED BY <2>1, <2>2, LeaseAssumption, FS_Subset, FS_CardinalityType
<1>1. ASSUME NEW t \in Servers PROVE Cardinality(Counted(t)') <= Capacity
  <2>1. CASE t # s
    <3>1. Counted(t)' \subseteq Counted(t) BY ZenonT(30), <2>1, ClaimedRow DEF CountsOn
    <3>2. Cardinality(Counted(t)) <= Capacity BY DEF AdmissionBound, CountsOn
    <3>3. Cardinality(Counted(t)') <= Cardinality(Counted(t)) /\ Cardinality(Counted(t)') \in Nat
      BY <1>0, <3>1, FS_Subset, FS_CardinalityType
    <3> QED BY <1>0, <3>2, <3>3, LeaseAssumption
  <2>2. CASE t = s
    <3>1. Counted(t)' \subseteq Occupied(s) \union {l}
      BY <2>2, ClaimedRow DEF CountsOn, Occupied
    <3>2. Cardinality(Occupied(s)) < Capacity BY DEF Claim
    <3>3. /\ IsFiniteSet(Occupied(s) \union {l})
          /\ Cardinality(Occupied(s) \union {l}) =
                IF l \in Occupied(s) THEN Cardinality(Occupied(s)) ELSE Cardinality(Occupied(s)) + 1
      BY <1>0, FS_AddElement
    <3>4. /\ IsFiniteSet(Occupied(s) \union {l})
          /\ Cardinality(Occupied(s) \union {l}) <= Cardinality(Occupied(s)) + 1
      BY <1>0, <3>3
    <3>5. /\ Cardinality(Counted(t)') <= Cardinality(Occupied(s) \union {l})
          /\ Cardinality(Counted(t)') \in Nat /\ Cardinality(Occupied(s) \union {l}) \in Nat
      BY <3>1, <3>4, FS_Subset, FS_CardinalityType
    <3> QED BY <1>0, <3>2, <3>4, <3>5, LeaseAssumption
  <2> QED BY <2>1, <2>2
<1> QED BY <1>1 DEF AdmissionBound, CountsOn

(* A step that adds no row keeps the bound.                                *)
LEMMA FewerFit ==
    ASSUME AdmissionBound, NoMore
    PROVE  AdmissionBound'
<1> DEFINE Counted(t) == {k \in Requests : CountsOn(k, t)}
<1>1. ASSUME NEW t \in Servers PROVE Cardinality(Counted(t)') <= Capacity
  <2>1. IsFiniteSet(Counted(t))
    <3>1. Counted(t) \subseteq Requests OBVIOUS
    <3> QED BY <3>1, LeaseAssumption, FS_Subset
  <2>2. Counted(t)' \subseteq Counted(t) BY DEF NoMore
  <2>3. Cardinality(Counted(t)) <= Capacity BY DEF AdmissionBound, CountsOn
  <2>4. /\ Cardinality(Counted(t)') <= Cardinality(Counted(t))
        /\ Cardinality(Counted(t)') \in Nat /\ Cardinality(Counted(t)) \in Nat
    BY <2>1, <2>2, FS_Subset, FS_CardinalityType
  <2> QED BY <2>3, <2>4, LeaseAssumption
<1> QED BY <1>1 DEF AdmissionBound, CountsOn

(* Every step is calm, or an arrival, a claim or an activation.            *)
LEMMA StepKinds ==
    ASSUME LeaseInv, [Next]_vars
    PROVE  Calm \/ \E l \in Requests : Arrives(l) \/ Claims(l) \/ Admits(l)
<1>1. CASE UNCHANGED vars BY <1>1, CalmSame DEF vars, Calm
<1>2. CASE Next BY <1>2, RequestCalm, OthersCalm DEF Next
<1> QED BY <1>1, <1>2

(* The rows that occupy a server, those being reserved included, never     *)
(* outnumber its slots, however the requests, reconcilers and server       *)
(* changes of any number of workers interleave, except for leases that had *)
(* expired, were left out of the count and were then renewed after all.    *)
THEOREM AdmissionBounded == Spec => []AdmissionBound
<1>1. Init => ClaimedInPast /\ AdmissionBound
  <2> SUFFICES ASSUME Init PROVE ClaimedInPast /\ AdmissionBound
    OBVIOUS
  <2>1. ClaimedInPast BY DEF Init, ClaimedInPast, NoRow
  <2>2. ASSUME NEW s \in Servers PROVE {k \in Requests : CountsOn(k, s)} = {}
    BY DEF Init, NoRow, CountsOn
  <2>3. ASSUME NEW s \in Servers PROVE Cardinality({k \in Requests : CountsOn(k, s)}) <= Capacity
    BY <2>2, FS_EmptySet, LeaseAssumption
  <2> QED BY <2>1, <2>3 DEF AdmissionBound, CountsOn
<1>2. LeaseInv /\ ClaimedInPast /\ AdmissionBound /\ [Next]_vars
        => ClaimedInPast' /\ AdmissionBound'
  <2> SUFFICES ASSUME LeaseInv, ClaimedInPast, AdmissionBound, [Next]_vars
               PROVE  ClaimedInPast' /\ AdmissionBound'
    OBVIOUS
  <2>0. TypeOK BY DEF LeaseInv
  <2>1. CASE Calm
    <3>1. GenerationsStay \/ \E s \in Servers : Regenerates(s)
      BY GenerationStep DEF vars, GenerationsStay
    <3> QED BY <2>0, <2>1, <3>1, CalmAddsNone, FewerFit
  <2>2. ASSUME NEW l \in Requests, Arrives(l) PROVE ClaimedInPast' /\ AdmissionBound'
    <3>1. ClaimedInPast' BY <2>0, <2>2, ArrivedRow DEF ClaimedInPast
    <3>2. NoMore BY <2>0, <2>2, ArrivedRow DEF NoMore, CountsOn
    <3> QED BY <3>1, <3>2, FewerFit
  <2>3. ASSUME NEW l \in Requests, NEW s \in Servers, Claim(l, s)
        PROVE  ClaimedInPast' /\ AdmissionBound'
    <3>1. server' = server /\ \A k \in Requests \ {l} : row'[k] = row[k]
      BY <2>0, <2>3, ClaimedRow
    <3>2. row'[l].server = s /\ row'[l].gen = server[s].gen /\ server[s].gen \in Nat
      BY <2>0, <2>3, ClaimedRow, GenerationNumbers
    <3>3. ClaimedInPast'
      <4>1. ASSUME NEW k \in Requests, row'[k].status \in {"reserving", "active"}
            PROVE  row'[k].server \in Servers /\ row'[k].gen <= server'[row'[k].server].gen
        <5>1. CASE k = l BY <3>1, <3>2, <5>1
        <5>2. CASE k # l BY <3>1, <4>1, <5>2 DEF ClaimedInPast
        <5> QED BY <5>1, <5>2
      <4> QED BY <4>1 DEF ClaimedInPast
    <3> QED BY <2>0, <2>3, <3>3, ClaimFits
  <2>4. ASSUME NEW l \in Requests, Admits(l) PROVE ClaimedInPast' /\ AdmissionBound'
    <3>1. ClaimedInPast' BY <2>0, <2>4, ActivatedRow DEF ClaimedInPast
    <3>2. NoMore BY <2>0, <2>4, ActivatedRow DEF NoMore, CountsOn
    <3> QED BY <3>1, <3>2, FewerFit
  <2> QED BY <2>1, <2>2, <2>3, <2>4, StepKinds DEF Claims
<1> QED BY <1>1, <1>2, LeaseInvariant, PTL DEF Spec

-------------------------------------------------------------------------------
(* The order of the queue.                                                 *)

(* Places are numbers.                                                     *)
LEMMA PlaceNumbers ==
    ASSUME TypeOK
    PROVE  /\ \A k \in Requests : row[k].place \in Nat /\ row[k].queuedAt \in Nat
           /\ IsFiniteSet(Placed) /\ Cardinality(Placed) \in Nat
<1>1. \A k \in Requests : row[k].place \in Nat /\ row[k].queuedAt \in Nat BY DEF TypeOK, Rows
<1>2. Placed \subseteq Requests BY DEF Placed
<1> QED BY <1>1, <1>2, LeaseAssumption, FS_Subset, FS_CardinalityType

(* Only an arrival gives a row a place, and it is the last one.            *)
LEMMA PlacesStep ==
    ASSUME LeaseInv, NewIsAbsent, PlacesAreCounted,
           Calm \/ \E l \in Requests : Arrives(l) \/ Claims(l) \/ Admits(l)
    PROVE  PlacesAreCounted'
<1>0. TypeOK BY DEF LeaseInv
<1>1. ASSUME \A k \in Requests : /\ row'[k].place = row[k].place
                                 /\ row'[k].status = "absent" => row[k].status = "absent"
      PROVE  PlacesAreCounted'
  <2>1. Placed' = Placed BY <1>1 DEF Placed
  <2> QED BY <1>1, <2>1 DEF PlacesAreCounted
<1>2. CASE Calm BY <1>1, <1>2 DEF Calm, Calmly
<1>3. ASSUME NEW l \in Requests, Claims(l) \/ Admits(l) PROVE PlacesAreCounted'
  <2>1. /\ row'[l].place = row[l].place /\ row'[l].status # "absent"
        /\ \A k \in Requests \ {l} : row'[k] = row[k]
    BY <1>0, <1>3, ClaimedRow, ActivatedRow DEF Claims
  <2> QED BY <1>1, <2>1
<1>4. ASSUME NEW l \in Requests, Arrives(l) PROVE PlacesAreCounted'
  <2>1. /\ row'[l].status = "queued" /\ row'[l].place = Cardinality(Placed) + 1
        /\ \A k \in Requests \ {l} : row'[k] = row[k]
    BY <1>0, <1>4, ArrivedRow
  <2>2. row[l].place = 0
    BY <1>0, <1>4, ArrivedRow DEF NewIsAbsent, PlacesAreCounted
  <2>3. Placed' = Placed \union {l} /\ l \notin Placed
    BY <1>0, <2>1, <2>2, PlaceNumbers DEF Placed
  <2>4. Cardinality(Placed') = Cardinality(Placed) + 1
    BY <1>0, <2>3, PlaceNumbers, FS_AddElement
  <2>5. ASSUME NEW k \in Requests
        PROVE  /\ row'[k].status = "absent" => row'[k].place = 0
               /\ row'[k].place <= Cardinality(Placed')
    <3>1. CASE k = l BY <1>0, <2>1, <2>4, <3>1, PlaceNumbers
    <3>2. CASE k # l
      <4>1. /\ row[k].status = "absent" => row[k].place = 0
            /\ row[k].place <= Cardinality(Placed)
        BY DEF PlacesAreCounted
      <4> QED BY <1>0, <2>1, <2>4, <3>2, <4>1, PlaceNumbers
    <3> QED BY <3>1, <3>2
  <2> QED BY <2>5 DEF PlacesAreCounted
<1> QED BY <1>2, <1>3, <1>4

(* Nobody comes to wait ahead of a row that is being reserved.             *)
LEMMA NobodyAheadStep ==
    ASSUME LeaseInv, PlacesAreCounted, NobodyAhead,
           Calm \/ \E l \in Requests : Arrives(l) \/ Claims(l) \/ Admits(l)
    PROVE  NobodyAhead'
<1>0. TypeOK BY DEF LeaseInv
<1>1. CASE Calm
  BY <1>1 DEF Calm, Calmly, NobodyAhead, Ahead, WaitingFor
<1>2. ASSUME NEW l \in Requests, Arrives(l) PROVE NobodyAhead'
  <2>1. /\ row'[l].status = "queued" /\ row'[l].place = Cardinality(Placed) + 1
        /\ \A k \in Requests \ {l} : row'[k] = row[k]
    BY <1>0, <1>2, ArrivedRow
  <2>2. ASSUME NEW m \in Requests, row'[m].status = "reserving",
               NEW k \in Requests, Ahead(k, m)', k \in WaitingFor(row[m].server)'
        PROVE  FALSE
    <3>1. m # l /\ row'[m] = row[m] BY <2>1, <2>2
    <3>2. k # l
      <4>1. row[m].place <= Cardinality(Placed) BY DEF PlacesAreCounted
      <4>2. row'[l].place > row'[m].place BY <1>0, <2>1, <3>1, <4>1, PlaceNumbers
      <4>3. row'[k].place < row'[m].place BY <2>2 DEF Ahead
      <4> QED BY <1>0, <2>1, <3>1, <4>2, <4>3, PlaceNumbers
    <3>3. row'[k] = row[k] BY <2>1, <3>2
    <3> QED BY <2>2, <3>1, <3>3 DEF NobodyAhead, Ahead, WaitingFor
  <2>3. \A m \in Requests : row'[m].status = "reserving" => row'[m] = row[m] BY <2>1
  <2> QED BY <2>2, <2>3 DEF NobodyAhead, WaitingFor
<1>3. ASSUME NEW l \in Requests, NEW s \in Servers, Claim(l, s) PROVE NobodyAhead'
  <2>1. /\ row'[l].status = "reserving" /\ row'[l].server = s
        /\ row'[l].due = row[l].due
        /\ row'[l].queuedAt = row[l].queuedAt /\ row'[l].place = row[l].place
        /\ \A k \in Requests \ {l} : row'[k] = row[k]
    BY <1>0, <1>3, ClaimedRow
  <2>2. row[l].status = "queued" /\ Head(l, s) BY <1>3 DEF Claim
  <2>3. \A k, m \in Requests : Ahead(k, m)' = Ahead(k, m) BY <2>1 DEF Ahead
  <2>4. \A k \in Requests : row'[k].status \in Waiting /\ ~row'[k].due =>
                              row[k].status \in Waiting /\ ~row[k].due
    BY <2>1, <2>2 DEF Waiting
  <2>5. ASSUME NEW k \in Requests, Ahead(k, l) PROVE k \notin WaitingFor(s)
    <3>1. row[k].queuedAt < row[l].queuedAt BY <2>5 DEF Ahead
    <3> QED BY <1>0, <2>2, <3>1, PlaceNumbers DEF Head
  <2>6. ASSUME NEW m \in Requests, row'[m].status = "reserving",
               NEW k \in Requests, Ahead(k, m)', k \in WaitingFor(row[m].server)'
        PROVE  FALSE
    <3>1. Ahead(k, m) BY <2>3, <2>6
    <3>2. CASE m = l
      <4>1. k \in WaitingFor(s) BY <2>1, <2>4, <2>6, <3>2 DEF WaitingFor
      <4> QED BY <2>5, <3>1, <3>2, <4>1
    <3>3. CASE m # l
      <4>1. k \in WaitingFor(row[m].server) BY <2>1, <2>4, <2>6, <3>3 DEF WaitingFor
      <4> QED BY <2>1, <2>6, <3>1, <3>3, <4>1 DEF NobodyAhead
    <3> QED BY <3>2, <3>3
  <2> QED BY <2>6 DEF NobodyAhead, WaitingFor
<1>4. ASSUME NEW l \in Requests, Admits(l) PROVE NobodyAhead'
  <2>1. /\ row'[l].status = "active"
        /\ row'[l].queuedAt = row[l].queuedAt /\ row'[l].place = row[l].place
        /\ \A k \in Requests \ {l} : row'[k] = row[k]
    BY <1>0, <1>4, ActivatedRow
  <2> QED BY <2>1 DEF NobodyAhead, Ahead, WaitingFor, Waiting
<1> QED BY <1>1, <1>2, <1>3, <1>4 DEF Claims

(* Admission is first come, first served on each server: a request is not  *)
(* activated while one that was queued before it, may run there and is not *)
(* expired still waits, whatever became of reservations in between.        *)
THEOREM FirstComeFirstServed == Spec => NoOvertaking
<1> DEFINE Order == PlacesAreCounted /\ NobodyAhead
<1>1. Init => Order
  <2> SUFFICES ASSUME Init PROVE Order
    OBVIOUS
  <2>1. Placed = {} BY DEF Init, Placed, NoRow
  <2>2. Cardinality(Placed) = 0 BY <2>1, FS_EmptySet
  <2> QED BY <2>2 DEF Init, PlacesAreCounted, NobodyAhead, NoRow
<1>2. LeaseInv /\ NewIsAbsent /\ Order /\ [Next]_vars => Order'
  BY StepKinds, PlacesStep, NobodyAheadStep
<1>3. Order =>
        [\A l \in Requests : row[l].status = "reserving" /\ row'[l].status = "active" =>
           \A k \in Requests :
              row[k].queuedAt < row[l].queuedAt /\ row[k].place < row[l].place =>
                 k \notin WaitingFor(row[l].server)]_vars
  BY DEF NobodyAhead, Ahead
<1> QED BY <1>1, <1>2, <1>3, RowsGoForward, PTL DEF Spec, NoOvertaking

-------------------------------------------------------------------------------
(* The reservation behind a lease.                                         *)

(* What a step does to a server and its process.  A process that is gone   *)
(* stays gone, and a later one has a later generation, that of its server; *)
(* a server that is said to be running has the generation of its process.  *)
Ages(s) == \/ process'[s] = process[s]
           \/ process'[s].gen = process[s].gen /\ ~process'[s].up
           \/ process'[s].gen > process[s].gen /\ process'[s].gen = server[s].gen
                 /\ server'[s].gen = server[s].gen

Serverly(s) ==
    /\ Ages(s)
    /\ server'[s].gen >= server[s].gen
    /\ server'[s].status = "running" =>
          \/ server[s].status = "running" /\ server'[s].gen = server[s].gen
          \/ process'[s].gen = server'[s].gen

(* Setting the status of a server.                                         *)
LEMMA SetStatus ==
    ASSUME TypeOK, NEW s \in Servers, NEW status, NEW healthy, SetServer(s, status, healthy)
    PROVE  /\ server'[s].status = status /\ server'[s].gen = server[s].gen
           /\ \A t \in Servers \ {s} : server'[t] = server[t]
BY DEF SetServer, TypeOK, ServerRows

(* Another process, or none.                                               *)
LEMMA ReplacedProcess ==
    ASSUME TypeOK, NEW s \in Servers, NEW gen, NEW up, ReplaceProcess(s, gen, up)
    PROVE  /\ process'[s].gen = gen /\ process'[s].up = up
           /\ \A t \in Servers \ {s} : process'[t] = process[t]
BY DEF ReplaceProcess, TypeOK

(* Servers that a step leaves alone.                                       *)
LEMMA ServerlySame ==
    ASSUME TypeOK, NEW s \in Servers, UNCHANGED <<server[s], process[s]>>
    PROVE  Serverly(s)
BY GenerationNumbers DEF Serverly, Ages

(* A server that is set to a status other than running while its process   *)
(* goes on or ends.                                                        *)
LEMMA ServerlyDown ==
    ASSUME TypeOK, NEW s \in Servers, server'[s].gen = server[s].gen,
           server'[s].status = "running" => server[s].status = "running",
           process'[s] = process[s] \/ (process'[s].gen = process[s].gen /\ ~process'[s].up)
    PROVE  Serverly(s)
BY GenerationNumbers DEF Serverly, Ages

(* A server whose process runs under its own generation may be said to be  *)
(* running.                                                                *)
LEMMA ServerlyUp ==
    ASSUME TypeOK, NEW s \in Servers, server'[s].gen = server[s].gen,
           process'[s].gen = server[s].gen,
           process'[s] = process[s] \/ process'[s].gen > process[s].gen
    PROVE  Serverly(s)
BY GenerationNumbers DEF Serverly, Ages

(* Every step treats the servers so.                                       *)
LEMMA ServerStep ==
    ASSUME LeaseInv, Next, NEW t \in Servers
    PROVE  Serverly(t)
<1>0. TypeOK BY DEF LeaseInv
<1>1. ASSUME UNCHANGED <<server, process>> PROVE Serverly(t) BY <1>0, <1>1, ServerlySame
<1>2. ASSUME NEW l \in Requests, Owner(l) \/ Handle(l) PROVE Serverly(t)
  BY <1>1, <1>2 DEF Owner, Handle, Enqueue, FinishLeaving, PostFails, Finalize, CleanupCancel,
     Requeue, Abort, WatcherSees, GivesUp, Claim, CancelHeld, Dispatch, HeldFails, Renew,
     RenewalTimesOut, DisconnectSeen, ServingEnds, ReleaseCancel, ReleaseRow, Crash, world
<1>3. CASE Agents
  BY <1>1, <1>3 DEF Agents, AgentReserve, AgentCancel, AgentDispatch, AgentEnds,
     AgentClientLost, AgentExpire, world
<1>4. ASSUME NEW w \in Reconcilers, Reconciler(w) PROVE Serverly(t)
  <2>1. CASE RecCommit(w)
    <3>1. server'[t] = server[t] \/ server'[t] = [server[t] EXCEPT !.status = "stopping"]
      BY <2>1 DEF RecCommit
    <3>2. server[t] \in ServerRows BY <1>0 DEF TypeOK
    <3>3. server'[t].gen = server[t].gen
      BY <3>1, <3>2 DEF ServerRows
    <3>4. server'[t].status = "running" => server[t].status = "running"
      BY <3>1, <3>2 DEF ServerRows
    <3>5. process'[t] = process[t] BY <2>1 DEF RecCommit
    <3> QED BY <1>0, <3>3, <3>4, <3>5, ServerlyDown
  <2>2. CASE ~RecCommit(w)
    BY <1>1, <1>4, <2>2 DEF Reconciler, RecBegin, RecAborts, AgentAnswers, NoAnswer, world
  <2> QED BY <2>1, <2>2
<1>5. CASE Environment
  <2>1. ASSUME NEW s \in Servers, StartServer(s) PROVE Serverly(t)
    <3>1. /\ process' = process /\ server'[s].gen = server[s].gen + 1
          /\ server'[s].status = "starting"
          /\ \A u \in Servers \ {s} : server'[u] = server[u]
      BY <1>0, <2>1 DEF StartServer, TypeOK, ServerRows
    <3>2. CASE t = s BY <1>0, <3>1, <3>2, GenerationNumbers DEF Serverly, Ages
    <3>3. CASE t # s BY <1>0, <3>1, <3>3, ServerlySame
    <3> QED BY <3>2, <3>3
  <2>2. ASSUME NEW s \in Servers, NEW status, NEW healthy, SetServer(s, status, healthy),
               UNCHANGED process,
               status # "running" \/ Runs(s, server[s].gen) \/ status = server[s].status
        PROVE  Serverly(t)
    <3>1. /\ server'[s].status = status /\ server'[s].gen = server[s].gen
          /\ \A u \in Servers \ {s} : server'[u] = server[u]
      BY <1>0, <2>2, SetStatus
    <3>2. CASE t = s /\ Runs(s, server[s].gen)
      BY <1>0, <2>2, <3>1, <3>2, ServerlyUp DEF Runs
    <3>3. CASE t = s /\ ~Runs(s, server[s].gen)
      BY <1>0, <2>2, <3>1, <3>3, ServerlyDown
    <3>4. CASE t # s BY <1>0, <2>2, <3>1, <3>4, ServerlySame
    <3> QED BY <3>2, <3>3, <3>4
  <2>3. ASSUME NEW s \in Servers, ServerStarted(s) PROVE Serverly(t)
    <3>1. SetServer(s, "running", TRUE) BY <2>3 DEF ServerStarted
    <3>2. CASE Runs(s, server[s].gen) /\ UNCHANGED process BY <2>2, <3>1, <3>2
    <3>3. CASE process[s].gen < server[s].gen /\ ReplaceProcess(s, server[s].gen, TRUE)
      <4>1. /\ server'[s].gen = server[s].gen
            /\ \A u \in Servers \ {s} : server'[u] = server[u]
        BY <1>0, <3>1, SetStatus
      <4>2. /\ process'[s].gen = server[s].gen
            /\ \A u \in Servers \ {s} : process'[u] = process[u]
        BY <1>0, <3>3, ReplacedProcess
      <4>3. CASE t = s
        <5>1. process'[s].gen > process[s].gen BY <1>0, <3>3, <4>2, GenerationNumbers
        <5> QED BY <1>0, <4>1, <4>2, <4>3, <5>1, ServerlyUp
      <4>4. CASE t # s BY <1>0, <4>1, <4>2, <4>4, ServerlySame
      <4> QED BY <4>3, <4>4
    <3> QED BY <2>3, <3>2, <3>3 DEF ServerStarted
  <2>4. ASSUME NEW s \in Servers, NEW healthy \in BOOLEAN, HealthReport(s, healthy)
        PROVE  Serverly(t)
    BY <2>2, <2>4 DEF HealthReport
  <2>5. ASSUME NEW s \in Servers, AgentRegisters(s) \/ AgentUnreachable(s) PROVE Serverly(t)
    BY <2>2, <2>5 DEF AgentRegisters, AgentUnreachable, Unavailable
  <2>6. ASSUME NEW s \in Servers, UNCHANGED server, process'[s].gen = process[s].gen,
               ~process'[s].up, \A u \in Servers \ {s} : process'[u] = process[u]
        PROVE  Serverly(t)
    <3>1. CASE t = s BY <1>0, <2>6, <3>1, ServerlyDown
    <3>2. CASE t # s BY <1>0, <2>6, <3>2, ServerlySame
    <3> QED BY <3>1, <3>2
  <2>7. ASSUME NEW s \in Servers, ProcessExits(s) \/ AgentRestarts(s) PROVE Serverly(t)
    <3>1. CASE ProcessExits(s)
      BY <1>0, <2>6, <3>1, ReplacedProcess DEF ProcessExits
    <3>2. CASE AgentRestarts(s)
      <4>1. /\ process'[s].gen = process[s].gen /\ process'[s].up = FALSE
            /\ \A u \in Servers \ {s} : process'[u] = process[u]
        BY <1>0, <3>2 DEF AgentRestarts, TypeOK
      <4> QED BY <2>6, <3>2, <4>1 DEF AgentRestarts
    <3> QED BY <2>7, <3>1, <3>2
  <2>8. ASSUME NEW s \in Servers, NEW status \in {"stopped", "error"}, ServerGone(s, status)
        PROVE  Serverly(t)
    BY <2>2, <2>8 DEF ServerGone
  <2>9. ASSUME NEW s \in Servers, NEW force, RequestStop(s, force) PROVE Serverly(t)
    BY <2>2, <2>9 DEF RequestStop
  <2>10. ASSUME NEW c \in stops, AgentStops(c) PROVE Serverly(t)
    <3>1. c.server \in Servers BY <1>0 DEF TypeOK, StopCommands
    <3>2. CASE Runs(c.server, c.gen)
      <4>1. ReplaceProcess(c.server, c.gen, FALSE) /\ UNCHANGED server
        BY <2>10, <3>2 DEF AgentStops
      <4> QED BY <1>0, <2>6, <3>1, <3>2, <4>1, ReplacedProcess DEF Runs
    <3>3. CASE ~Runs(c.server, c.gen) BY <1>1, <2>10, <3>3 DEF AgentStops
    <3> QED BY <3>2, <3>3
  <2>11. ASSUME NEW c \in stops, NEW status \in {"stopped", "error"}, StopSettles(c, status)
         PROVE  Serverly(t)
    <3>1. c.server \in Servers BY <1>0 DEF TypeOK, StopCommands
    <3> QED BY <1>1, <2>2, <2>11, <3>1 DEF StopSettles
  <2>12. CASE ClearQueue \/ \E l \in Requests : Lapse(l) \/ WindowLapses(l)
    BY <1>1, <2>12 DEF ClearQueue, Lapse, WindowLapses, world
  <2> QED BY <1>5, <2>1, <2>3, <2>4, <2>5, <2>7, <2>8, <2>9, <2>10, <2>11, <2>12
      DEF Environment
<1> QED BY <1>2, <1>3, <1>4, <1>5 DEF Next

(* The agent accepts the reservation that acquire() waits for.             *)
Accepted(k) ==
    /\ own[k].pc = "posted"
    /\ \E m \in CallsOf(k) : /\ m.attempt = own[k].attempt /\ m.server \in Servers
                            /\ agent'[m.server][k].status = "reserved"
                            /\ agent'[m.server][k].attempt = m.attempt

(* What a step does to the calls of acquire() and to the messages of a     *)
(* request: only a claim begins another attempt, and nothing is sent for   *)
(* an attempt that is being made but its reservation.                      *)
AttemptStays(k) ==
    /\ own'[k].attempt = own[k].attempt /\ own'[k].server = own[k].server
    /\ own'[k].gen = own[k].gen
    /\ own'[k].pc \in {"posted", "answered"} => own'[k].pc = own[k].pc \/ Accepted(k)

SentFor(m, l) ==
    /\ m.request = l /\ m.server = own[l].server
    /\ m.gen = own[l].gen /\ m.attempt = own[l].attempt

AttemptsStay ==
    /\ \A k \in Requests : AttemptStays(k)
    /\ \A m \in net' \ net : \E l \in Requests :
          SentFor(m, l) /\ own'[l].pc \notin {"posted", "answered"}

(* A request that moves on without sending anything.                       *)
LEMMA MovesOn ==
    ASSUME TypeOK, NEW l \in Requests, net' \subseteq net,
           \A k \in Requests \ {l} : own'[k] = own[k], AttemptStays(l)
    PROVE  AttemptsStay
BY DEF AttemptsStay, AttemptStays

(* A request that calls its agent.                                         *)
LEMMA CallsAgent ==
    ASSUME TypeOK, NEW l \in Requests, NEW kind, Send(l, kind),
           \A k \in Requests \ {l} : own'[k] = own[k], AttemptStays(l),
           own'[l].pc \notin {"posted", "answered"}
    PROVE  AttemptsStay
<1>1. \A m \in net' \ net : SentFor(m, l) BY DEF Send, SentFor
<1> QED BY <1>1 DEF AttemptsStay, AttemptStays

(* Going on to another point of acquire() or of the handle.                *)
LEMMA GoesTo ==
    ASSUME TypeOK, NEW l \in Requests, NEW pc, Goto(l, pc),
           pc \in {"posted", "answered"} => Accepted(l)
    PROVE  /\ AttemptStays(l) /\ own'[l].pc = pc
           /\ \A k \in Requests \ {l} : own'[k] = own[k]
BY DEF Goto, TypeOK, Owners, AttemptStays

(* Every step treats the attempts so, but for a claim.                     *)
LEMMA AttemptStep ==
    ASSUME LeaseInv, Next
    PROVE  AttemptsStay \/ \E l \in Requests : Claims(l)
<1>0. /\ TypeOK /\ own \in [Requests -> Owners]
      /\ agent \in [Servers -> [Requests -> Operations]]
  BY DEF LeaseInv, TypeOK
<1>1. ASSUME UNCHANGED own, net' \subseteq net PROVE AttemptsStay
  BY <1>1 DEF AttemptsStay, AttemptStays
<1>2. ASSUME NEW l \in Requests, Owner(l) \/ Handle(l) PROVE AttemptsStay \/ Claims(l)
  <2>1. ASSUME NEW pc, Goto(l, pc), net' \subseteq net, pc \notin {"posted", "answered"}
        PROVE  AttemptsStay
    BY <1>0, <2>1, GoesTo, MovesOn
  <2>2. ASSUME NEW pc, Goto(l, pc), NEW kind, Send(l, kind), pc \notin {"posted", "answered"}
        PROVE  AttemptsStay
    BY <1>0, <2>2, GoesTo, CallsAgent
  <2>3. ASSUME NEW queuedAt, Enqueue(l, queuedAt) PROVE AttemptsStay
    BY <2>1, <2>3 DEF Enqueue
  <2>4. CASE FinishLeaving(l) \/ PostFails(l) \/ Requeue(l) \/ ReleaseRow(l) \/ Crash(l)
    BY <2>1, <2>4 DEF FinishLeaving, PostFails, Requeue, ReleaseRow, Crash
  <2>5. CASE Finalize(l)
    BY <2>1, <2>5 DEF Finalize
  <2>6. CASE CleanupCancel(l) \/ CancelHeld(l) \/ Dispatch(l)
    BY <2>2, <2>6 DEF CleanupCancel, CancelHeld, Dispatch
  <2>7. CASE ReleaseCancel(l)
    BY <2>1, <2>2, <2>7 DEF ReleaseCancel
  <2>8. CASE Abort(l)
    <3>1. /\ \A k \in Requests \ {l} : own'[k] = own[k]
          /\ own'[l].attempt = own[l].attempt /\ own'[l].server = own[l].server
          /\ own'[l].gen = own[l].gen
      BY <1>0, <2>8 DEF Abort, Owners
    <3>2. own'[l].pc \in {own[l].pc, "leaving", "cleanup"}
      BY <1>0, <2>8 DEF Abort, Owners
    <3> QED BY <1>0, <2>8, <3>1, <3>2, MovesOn DEF Abort, AttemptStays
  <2>9. CASE WatcherSees(l)
    BY <1>0, <2>9, MovesOn DEF WatcherSees, AttemptStays, Owners
  <2>10. ASSUME NEW outcome, GivesUp(l, outcome) \/ ServingEnds(l, outcome) PROVE AttemptsStay
    BY <1>0, <2>10, MovesOn DEF GivesUp, ServingEnds, AttemptStays, Owners
  <2>11. CASE HeldFails(l) \/ RenewalTimesOut(l)
    BY <1>0, <2>11, MovesOn DEF HeldFails, RenewalTimesOut, AttemptStays, Owners
  <2>12. CASE Renew(l)
    BY <1>0, <2>12, MovesOn DEF Renew, AttemptStays, Owners
  <2>13. CASE DisconnectSeen(l)
    <3>1. /\ AttemptStays(l) /\ own'[l].pc \notin {"posted", "answered"}
          /\ \A k \in Requests \ {l} : own'[k] = own[k]
      BY <1>0, <2>13 DEF DisconnectSeen, AttemptStays, Owners
    <3> QED BY <1>0, <2>13, <3>1, CallsAgent DEF DisconnectSeen
  <2> QED BY <1>2, <2>3, <2>4, <2>5, <2>6, <2>7, <2>8, <2>9, <2>10, <2>11, <2>12, <2>13
      DEF Owner, Handle, Claims
<1>3. CASE Agents
  <2>1. ASSUME NEW m \in net, AgentReserve(m) PROVE AttemptsStay
    <3>1. m.request \in Requests /\ net' \subseteq net
      BY <1>0, <2>1 DEF TypeOK, Calls, AgentReserve
    <3>2. CASE UNCHANGED own BY <1>1, <3>1, <3>2
    <3>3. CASE Goto(m.request, "cleanup") BY <1>0, <3>1, <3>3, GoesTo, MovesOn
    <3>4. CASE /\ own[m.request].pc = "posted" /\ own[m.request].attempt = m.attempt
               /\ Goto(m.request, "answered")
               /\ agent' = [agent EXCEPT ![m.server][m.request] =
                              [status |-> "reserved", gen |-> m.gen, attempt |-> m.attempt,
                               dispatched |-> FALSE]]
      <4>1. m.server \in Servers BY DEF LeaseInv, CallsNameServers
      <4>2. /\ agent'[m.server][m.request].status = "reserved"
            /\ agent'[m.server][m.request].attempt = m.attempt
        BY <1>0, <3>1, <3>4, <4>1
      <4>3. Accepted(m.request) BY <3>1, <3>4, <4>1, <4>2 DEF Accepted, CallsOf
      <4> QED BY <1>0, <3>1, <3>4, <4>3, GoesTo, MovesOn
    <3> QED BY <2>1, <3>2, <3>3, <3>4 DEF AgentReserve
  <2>2. ASSUME NEW m \in net, AgentCancel(m) \/ AgentDispatch(m) PROVE AttemptsStay
    BY <1>1, <2>2 DEF AgentCancel, AgentDispatch, brokers
  <2>3. ASSUME NEW s \in Servers, NEW l \in Requests,
               \/ \E outcome \in Ended : AgentEnds(s, l, outcome)
               \/ AgentClientLost(s, l) \/ AgentExpire(s, l)
        PROVE  AttemptsStay
    BY <1>1, <2>3 DEF AgentEnds, AgentClientLost, AgentExpire, brokers
  <2> QED BY <1>3, <2>1, <2>2, <2>3 DEF Agents
<1>4. ASSUME NEW w \in Reconcilers, Reconciler(w) PROVE AttemptsStay
  BY <1>1, <1>4 DEF Reconciler, RecBegin, RecCommit, RecAborts, AgentAnswers, NoAnswer
<1>5. CASE Environment
  BY <1>1, <1>5 DEF Environment, ClearQueue, Lapse, WindowLapses, StartServer, ServerStarted,
     AgentRegisters, AgentUnreachable, ProcessExits, AgentRestarts, HealthReport, ServerGone,
     RequestStop, AgentStops, StopSettles, brokers
<1> QED BY <1>2, <1>3, <1>4, <1>5 DEF Next

(* What a step does to a reservation that an agent keeps: nothing, unless  *)
(* the process goes, the backend cancels or dispatches that attempt, or    *)
(* the attempt is out of its window.                                       *)
KeptBy(s, l) ==
    \/ agent'[s][l] = agent[s][l]
    \/ ~process'[s].up \/ process'[s].gen > process[s].gen
    \/ \E m \in CallsOf(l) : /\ m.server = s /\ m.attempt = agent[s][l].attempt
                             /\ m.kind # "reserve"
    \/ ~(row[l].status = "reserving" /\ row[l].attempt = agent[s][l].attempt /\ ~row[l].late)

(* Every step leaves reservations so.                                      *)
LEMMA AgentStep ==
    ASSUME LeaseInv, Next, NEW s \in Servers, NEW l \in Requests, agent[s][l].status = "reserved"
    PROVE  KeptBy(s, l)
<1>0. TypeOK /\ agent \in [Servers -> [Requests -> Operations]] BY DEF LeaseInv, TypeOK
<1>1. ASSUME UNCHANGED agent PROVE KeptBy(s, l) BY <1>1 DEF KeptBy
<1>2. ASSUME NEW k \in Requests, Owner(k) \/ Handle(k) PROVE KeptBy(s, l)
  BY <1>1, <1>2 DEF Owner, Handle, Enqueue, FinishLeaving, PostFails, Finalize, CleanupCancel,
     Requeue, Abort, WatcherSees, GivesUp, Claim, CancelHeld, Dispatch, HeldFails, Renew,
     RenewalTimesOut, DisconnectSeen, ServingEnds, ReleaseCancel, ReleaseRow, Crash
<1>3. CASE Agents
  <2>1. ASSUME NEW m \in net, AgentReserve(m) \/ AgentCancel(m) \/ AgentDispatch(m)
        PROVE  KeptBy(s, l)
    <3>1. m.request \in Requests BY <1>0 DEF TypeOK, Calls
    <3>2. CASE m.server # s \/ m.request # l
      <4>1. agent'[s][l] = agent[s][l]
        <5>1. CASE AgentReserve(m) BY <1>0, <3>2, <5>1 DEF AgentReserve
        <5>2. CASE AgentCancel(m) BY <1>0, <3>2, <5>2 DEF AgentCancel
        <5>3. CASE AgentDispatch(m) BY <1>0, <3>2, <5>3 DEF AgentDispatch
        <5> QED BY <2>1, <5>1, <5>2, <5>3
      <4> QED BY <4>1 DEF KeptBy
    <3>3. CASE m.server = s /\ m.request = l /\ AgentReserve(m)
      BY <1>1, <3>3 DEF AgentReserve
    <3>4. CASE m.server = s /\ m.request = l /\ (AgentCancel(m) \/ AgentDispatch(m))
      <4>1. m.kind # "reserve" BY <3>4 DEF AgentCancel, AgentDispatch
      <4>2. CASE m.attempt = agent[s][l].attempt
        BY <3>4, <4>1, <4>2 DEF KeptBy, CallsOf
      <4>3. CASE m.attempt # agent[s][l].attempt
        BY <1>1, <3>4, <4>3 DEF AgentCancel, AgentDispatch
      <4> QED BY <4>2, <4>3
    <3> QED BY <2>1, <3>2, <3>3, <3>4
  <2>2. ASSUME NEW t \in Servers, NEW k \in Requests,
               \/ \E outcome \in Ended : AgentEnds(t, k, outcome)
               \/ AgentClientLost(t, k)
        PROVE  KeptBy(s, l)
    <3>1. t # s \/ k # l BY <2>2 DEF AgentEnds, AgentClientLost
    <3> QED BY <1>0, <2>2, <3>1 DEF AgentEnds, AgentClientLost, KeptBy
  <2>3. ASSUME NEW t \in Servers, NEW k \in Requests, AgentExpire(t, k) PROVE KeptBy(s, l)
    BY <1>0, <2>3 DEF AgentExpire, KeptBy
  <2> QED BY <1>3, <2>1, <2>2, <2>3 DEF Agents
<1>4. ASSUME NEW w \in Reconcilers, Reconciler(w) PROVE KeptBy(s, l)
  BY <1>1, <1>4 DEF Reconciler, RecBegin, RecCommit, RecAborts, AgentAnswers, NoAnswer
<1>5. CASE Environment
  <2>1. ASSUME NEW t \in Servers, NEW gen, NEW up, ReplaceProcess(t, gen, up),
               ~up \/ gen > process[t].gen
        PROVE  KeptBy(s, l)
    <3>1. CASE t = s BY <1>0, <2>1, <3>1, ReplacedProcess DEF KeptBy
    <3>2. CASE t # s BY <1>0, <2>1, <3>2 DEF ReplaceProcess, KeptBy
    <3> QED BY <3>1, <3>2
  <2>2. ASSUME NEW t \in Servers, ServerStarted(t) PROVE KeptBy(s, l)
    <3>1. CASE UNCHANGED agent BY <1>1, <3>1
    <3>2. CASE process[t].gen < server[t].gen /\ ReplaceProcess(t, server[t].gen, TRUE)
      BY <1>0, <2>1, <3>2, GenerationNumbers
    <3> QED BY <2>2, <3>1, <3>2 DEF ServerStarted
  <2>3. ASSUME NEW t \in Servers, ProcessExits(t) \/ AgentRestarts(t) PROVE KeptBy(s, l)
    <3>1. CASE ProcessExits(t) BY <2>1, <3>1 DEF ProcessExits
    <3>2. CASE AgentRestarts(t)
      <4>1. CASE t = s
        <5>1. process'[s].up = FALSE BY <1>0, <3>2, <4>1 DEF AgentRestarts, TypeOK
        <5> QED BY <5>1 DEF KeptBy
      <4>2. CASE t # s BY <1>0, <3>2, <4>2 DEF AgentRestarts, KeptBy
      <4> QED BY <4>1, <4>2
    <3> QED BY <2>3, <3>1, <3>2
  <2>4. ASSUME NEW c \in stops, AgentStops(c) PROVE KeptBy(s, l)
    <3>1. c.server \in Servers BY <1>0 DEF TypeOK, StopCommands
    <3> QED BY <1>1, <2>1, <2>4, <3>1 DEF AgentStops
  <2>5. CASE \/ ClearQueue \/ \E k \in Requests : Lapse(k) \/ WindowLapses(k)
             \/ \E t \in Servers :
                  \/ StartServer(t) \/ AgentRegisters(t) \/ AgentUnreachable(t)
                  \/ \E healthy \in BOOLEAN : HealthReport(t, healthy)
                  \/ \E status \in {"stopped", "error"} : ServerGone(t, status)
                  \/ \E force \in BOOLEAN : RequestStop(t, force)
             \/ \E c \in stops, status \in {"stopped", "error"} : StopSettles(c, status)
    BY <1>1, <2>5 DEF ClearQueue, Lapse, WindowLapses, StartServer, AgentRegisters,
       AgentUnreachable, HealthReport, ServerGone, RequestStop, StopSettles
  <2> QED BY <1>5, <2>2, <2>3, <2>4, <2>5 DEF Environment
<1> QED BY <1>2, <1>3, <1>4, <1>5 DEF Next

(* Attempts are numbers.                                                   *)
LEMMA AttemptNumbers ==
    ASSUME TypeOK
    PROVE  /\ \A l \in Requests : own[l].attempt \in Nat /\ own[l].gen \in Nat
           /\ \A m \in net : m.attempt \in Nat /\ m.request \in Requests
BY DEF TypeOK, Owners, Calls, Attempts, Gens

(* What _claim makes of the request and its messages.                      *)
LEMMA ClaimedAttempt ==
    ASSUME TypeOK, NEW l \in Requests, NEW s \in Servers, Claim(l, s)
    PROVE  /\ own'[l].pc = "posted" /\ own'[l].server = s /\ own'[l].gen = server[s].gen
           /\ own'[l].attempt = own[l].attempt + 1
           /\ \A k \in Requests \ {l} : own'[k] = own[k]
           /\ \A m \in net' \ net : /\ m.kind = "reserve" /\ m.request = l /\ m.server = s
                                    /\ m.gen = server[s].gen /\ m.attempt = own[l].attempt + 1
           /\ UNCHANGED agent
<1>1. /\ own'[l].pc = "posted" /\ own'[l].server = s /\ own'[l].gen = server[s].gen
      /\ own'[l].attempt = own[l].attempt + 1
      /\ \A k \in Requests \ {l} : own'[k] = own[k]
  BY DEF Claim, TypeOK, Owners
<1>2. /\ \A m \in net' \ net : /\ m.kind = "reserve" /\ m.request = l /\ m.server = s
                               /\ m.gen = server[s].gen /\ m.attempt = own[l].attempt + 1
      /\ UNCHANGED agent
  BY DEF Claim
<1> QED BY <1>1, <1>2

(* Generations are started before they are run.                            *)
LEMMA StartedStep ==
    ASSUME TypeOK, TypeOK', StartedGenerations, \A s \in Servers : Serverly(s)
    PROVE  StartedGenerations'
<1>1. ASSUME NEW s \in Servers
      PROVE  /\ process'[s].gen <= server'[s].gen
             /\ server'[s].status = "running" => process'[s].gen = server'[s].gen
  <2>1. /\ server'[s].gen \in Nat /\ process'[s].gen \in Nat
        /\ server[s].gen \in Nat /\ process[s].gen \in Nat
    BY GenerationNumbers DEF TypeOK, ServerRows, Gens
  <2>2. Serverly(s) /\ process[s].gen <= server[s].gen
        /\ (server[s].status = "running" => process[s].gen = server[s].gen)
    BY DEF StartedGenerations
  <2>3. process'[s].gen = process[s].gen
        \/ (process'[s].gen = server[s].gen /\ server'[s].gen = server[s].gen)
    BY <2>2 DEF Serverly, Ages
  <2> QED BY <2>1, <2>2, <2>3 DEF Serverly
<1> QED BY <1>1 DEF StartedGenerations

(* The process of a claimed generation has been started.                   *)
LEMMA ClaimedOnStartedStep ==
    ASSUME LeaseInv, TypeOK', StartedGenerations, ClaimedOnStarted,
           \A s \in Servers : Serverly(s),
           Calm \/ \E l \in Requests : Arrives(l) \/ Claims(l) \/ Admits(l)
    PROVE  ClaimedOnStarted'
<1>0. TypeOK BY DEF LeaseInv
<1>1. \A s \in Servers : /\ process'[s].gen \in Nat /\ process[s].gen \in Nat
                         /\ process'[s].gen >= process[s].gen
  <2> SUFFICES ASSUME NEW s \in Servers
               PROVE  /\ process'[s].gen \in Nat /\ process[s].gen \in Nat
                      /\ process'[s].gen >= process[s].gen
    OBVIOUS
  <2>1. process'[s].gen \in Nat /\ process[s].gen \in Nat
    BY <1>0, GenerationNumbers DEF TypeOK, Gens
  <2> QED BY <2>1 DEF Serverly, Ages
<1>2. ASSUME NEW k \in Requests, row[k].status = "reserving", row'[k].server = row[k].server,
             row'[k].gen = row[k].gen
      PROVE  row'[k].server \in Servers /\ row'[k].gen <= process'[row'[k].server].gen
  <2>1. row[k].server \in Servers /\ row[k].gen <= process[row[k].server].gen
    BY <1>2 DEF ClaimedOnStarted
  <2> QED BY <1>0, <1>1, <1>2, <2>1, GenerationNumbers
<1>3. CASE Calm BY <1>2, <1>3 DEF Calm, Calmly, ClaimedOnStarted
<1>4. ASSUME NEW l \in Requests, \A k \in Requests \ {l} : row'[k] = row[k],
             row'[l].status = "reserving" =>
                 row'[l].server \in Servers /\ row'[l].gen <= process'[row'[l].server].gen
      PROVE  ClaimedOnStarted'
  BY <1>2, <1>4 DEF ClaimedOnStarted
<1>5. ASSUME NEW l \in Requests, Arrives(l) \/ Admits(l) PROVE ClaimedOnStarted'
  BY <1>0, <1>4, <1>5, ArrivedRow, ActivatedRow
<1>6. ASSUME NEW l \in Requests, NEW s \in Servers, Claim(l, s) PROVE ClaimedOnStarted'
  <2>1. /\ row'[l].server = s /\ row'[l].gen = server[s].gen /\ process' = process
        /\ \A k \in Requests \ {l} : row'[k] = row[k]
    BY <1>0, <1>6, ClaimedRow
  <2>2. process[s].gen = server[s].gen /\ server[s].gen \in Nat
    BY <1>0, <1>6, GenerationNumbers DEF Claim, Usable, StartedGenerations
  <2> QED BY <1>4, <2>1, <2>2
<1> QED BY <1>3, <1>5, <1>6 DEF Claims

(* The messages of a request are those of its attempts.                    *)
LEMMA CallsStep ==
    ASSUME LeaseInv, CallsAreOwn, AttemptsStay \/ \E l \in Requests : Claims(l)
    PROVE  CallsAreOwn'
<1>0. TypeOK BY DEF LeaseInv
<1>1. CASE AttemptsStay
  <2>1. ASSUME NEW l \in Requests, NEW m \in net', m.request = l
        PROVE  /\ m.attempt <= own'[l].attempt
               /\ m.attempt = own'[l].attempt =>
                     /\ m.server = own'[l].server /\ m.gen = own'[l].gen
                     /\ own'[l].pc \in {"posted", "answered"} => m.kind = "reserve"
    <3>1. AttemptStays(l) BY <1>1 DEF AttemptsStay
    <3>2. CASE m \in net
      <4>1. /\ m.attempt <= own[l].attempt
            /\ m.attempt = own[l].attempt =>
                  /\ m.server = own[l].server /\ m.gen = own[l].gen
                  /\ own[l].pc \in {"posted", "answered"} => m.kind = "reserve"
        BY <2>1, <3>2 DEF CallsAreOwn, CallsOf
      <4>2. /\ own'[l].attempt = own[l].attempt
            /\ own'[l].server = own[l].server /\ own'[l].gen = own[l].gen
            /\ own'[l].pc \in {"posted", "answered"} => own[l].pc \in {"posted", "answered"}
        BY <3>1 DEF AttemptStays, Accepted
      <4> QED BY <4>1, <4>2
    <3>3. CASE m \notin net
      <4>1. SentFor(m, l) /\ own'[l].pc \notin {"posted", "answered"}
        BY <1>1, <2>1, <3>3 DEF AttemptsStay, SentFor
      <4>2. m.attempt = own'[l].attempt /\ m.server = own'[l].server /\ m.gen = own'[l].gen
        BY <3>1, <4>1 DEF SentFor, AttemptStays
      <4>3. own[l].attempt \in Nat /\ own'[l].attempt = own[l].attempt
        BY <1>0, <3>1, AttemptNumbers DEF AttemptStays
      <4> QED BY <4>1, <4>2, <4>3
    <3> QED BY <3>2, <3>3
  <2> QED BY <2>1 DEF CallsAreOwn, CallsOf
<1>2. ASSUME NEW k \in Requests, NEW s \in Servers, Claim(k, s) PROVE CallsAreOwn'
  <2>1. ASSUME NEW l \in Requests, NEW m \in net', m.request = l
        PROVE  /\ m.attempt <= own'[l].attempt
               /\ m.attempt = own'[l].attempt =>
                     /\ m.server = own'[l].server /\ m.gen = own'[l].gen
                     /\ own'[l].pc \in {"posted", "answered"} => m.kind = "reserve"
    <3>1. CASE m \in net
      <4>1. /\ m.attempt <= own[l].attempt
            /\ m.attempt = own[l].attempt =>
                  /\ m.server = own[l].server /\ m.gen = own[l].gen
                  /\ own[l].pc \in {"posted", "answered"} => m.kind = "reserve"
        BY <2>1, <3>1 DEF CallsAreOwn, CallsOf
      <4>2. CASE l = k
        <5>1. own'[l].attempt = own[l].attempt + 1
          BY <1>0, <1>2, <4>2, ClaimedAttempt
        <5> QED BY <1>0, <3>1, <4>1, <5>1, AttemptNumbers
      <4>3. CASE l # k BY <1>0, <1>2, <4>1, <4>3, ClaimedAttempt
      <4> QED BY <4>2, <4>3
    <3>2. CASE m \notin net
      <4>1. /\ own'[k].attempt = own[k].attempt + 1 /\ own'[k].server = s
            /\ own'[k].gen = server[s].gen
            /\ m.kind = "reserve" /\ m.request = k /\ m.server = s
            /\ m.gen = server[s].gen /\ m.attempt = own[k].attempt + 1
        BY <1>0, <1>2, <2>1, <3>2, ClaimedAttempt
      <4> QED BY <1>0, <2>1, <4>1, AttemptNumbers
    <3> QED BY <3>1, <3>2
  <2> QED BY <2>1 DEF CallsAreOwn, CallsOf
<1> QED BY <1>1, <1>2 DEF Claims

(* A process that does not run a generation it has been past does not come *)
(* to run it again.                                                        *)
LEMMA GoneForGood ==
    ASSUME TypeOK, TypeOK', NEW s \in Servers, Serverly(s), NEW g \in Nat, g <= process[s].gen,
           ~Runs(s, g) \/ ~process'[s].up \/ process'[s].gen > process[s].gen
    PROVE  ~Runs(s, g)'
<1>1. process'[s].gen \in Nat /\ process[s].gen \in Nat
  BY GenerationNumbers DEF TypeOK, Gens
<1> QED BY <1>1 DEF Serverly, Ages, Runs

(* An agent keeps the reservation of an attempt while it is in its window. *)
LEMMA WindowStays ==
    ASSUME LeaseInv, TypeOK', ClaimedOnStarted, CallsAreOwn, ReservationKept, Next,
           NEW l \in Requests, InWindow(l), AttemptStays(l),
           \A s \in Servers : Serverly(s)
    PROVE  Backed(l)'
<1>0. TypeOK BY DEF LeaseInv
<1>1. PICK s, g : s = own[l].server /\ g = own[l].gen OBVIOUS
<1>2. s \in Servers /\ g \in Nat /\ g <= process[s].gen
  BY <1>0, <1>1, AttemptNumbers DEF InWindow, ClaimedOnStarted, LeaseInv, ReservedByOwner
<1>3. own'[l].server = s /\ own'[l].gen = g /\ own'[l].attempt = own[l].attempt
  BY <1>1 DEF AttemptStays
<1>4. /\ Backed(l) <=> \/ ~Runs(s, g)
                       \/ agent[s][l].status = "reserved" /\ agent[s][l].attempt = own[l].attempt
      /\ Backed(l)' <=> \/ ~(process'[s].up /\ process'[s].gen = g)
                        \/ agent'[s][l].status = "reserved" /\ agent'[s][l].attempt = own[l].attempt
  BY <1>1, <1>3 DEF Backed, Runs
<1>5. CASE ~Runs(s, g) BY <1>0, <1>2, <1>4, <1>5, GoneForGood DEF Runs
<1>6. CASE agent[s][l].status = "reserved" /\ agent[s][l].attempt = own[l].attempt
  <2>1. KeptBy(s, l) BY <1>2, <1>6, AgentStep
  <2>2. CASE agent'[s][l] = agent[s][l] BY <1>4, <1>6, <2>2
  <2>3. CASE ~process'[s].up \/ process'[s].gen > process[s].gen
    BY <1>0, <1>2, <1>4, <2>3, GoneForGood DEF Runs
  <2>4. ASSUME NEW m \in CallsOf(l), m.attempt = agent[s][l].attempt, m.kind # "reserve"
        PROVE  FALSE
    BY <1>6, <2>4 DEF CallsAreOwn, InWindow
  <2>5. row[l].status = "reserving" /\ row[l].attempt = agent[s][l].attempt /\ ~row[l].late
    BY <1>6 DEF InWindow
  <2> QED BY <2>1, <2>2, <2>3, <2>4, <2>5 DEF KeptBy
<1> QED BY <1>5, <1>6, <1>4 DEF ReservationKept

(* Every step keeps the reservations that are in their window.             *)
LEMMA KeptStep ==
    ASSUME LeaseInv, TypeOK', ClaimedOnStarted, CallsAreOwn, ReservationKept, Next,
           \A s \in Servers : Serverly(s),
           Calm \/ \E l \in Requests : Arrives(l) \/ Claims(l) \/ Admits(l)
    PROVE  ReservationKept'
<1>0. TypeOK BY DEF LeaseInv
<1>1. ASSUME NEW l \in Requests, InWindow(l)' PROVE Backed(l)'
  <2>1. own'[l].pc = "answered" BY <1>1 DEF InWindow
  <2>2. AttemptStays(l)
    <3>1. CASE AttemptsStay BY <3>1 DEF AttemptsStay
    <3>2. ASSUME NEW k \in Requests, NEW s \in Servers, Claim(k, s) PROVE AttemptStays(l)
      <4>1. l # k /\ own'[l] = own[l] BY <1>0, <2>1, <3>2, ClaimedAttempt
      <4> QED BY <4>1 DEF AttemptStays
    <3> QED BY <3>1, <3>2, AttemptStep DEF Claims
  <2>3. CASE Accepted(l)
    <3>1. PICK m \in CallsOf(l) : /\ m.attempt = own[l].attempt
                                  /\ agent'[m.server][l].status = "reserved"
                                  /\ agent'[m.server][l].attempt = m.attempt
      BY <2>3 DEF Accepted
    <3>2. m.server = own[l].server BY <3>1 DEF CallsAreOwn
    <3> QED BY <2>2, <3>1, <3>2 DEF AttemptStays, Backed
  <2>4. CASE own[l].pc = "answered"
    <3>1. /\ row[l].status = "reserving" /\ row[l].attempt = row'[l].attempt /\ ~row[l].late
      <4>1. row'[l].status = "reserving" /\ ~row'[l].late BY <1>1 DEF InWindow
      <4>2. CASE Calm BY <4>1, <4>2 DEF Calm, Calmly
      <4>3. ASSUME NEW k \in Requests, Arrives(k) \/ Claims(k) \/ Admits(k)
            PROVE  row'[l] = row[l]
        <5>1. CASE Arrives(k)
          <6>1. row'[k].status = "queued" BY <1>0, <5>1, ArrivedRow
          <6>2. l # k BY <4>1, <6>1
          <6> QED BY <1>0, <5>1, <6>2, ArrivedRow
        <5>3. CASE Admits(k)
          <6>1. row'[k].status = "active" BY <1>0, <5>3, ActivatedRow
          <6>2. l # k BY <4>1, <6>1
          <6> QED BY <1>0, <5>3, <6>2, ActivatedRow
        <5>2. CASE Claims(k)
          <6>1. PICK s \in Servers : Claim(k, s) BY <5>2 DEF Claims
          <6>2. own'[k].pc = "posted" BY <1>0, <6>1, ClaimedAttempt
          <6>3. l # k BY <2>1, <6>2
          <6> QED BY <1>0, <6>1, <6>3, ClaimedRow
        <5> QED BY <4>3, <5>1, <5>2, <5>3
      <4> QED BY <4>1, <4>2, <4>3
    <3>2. InWindow(l) BY <1>1, <2>2, <2>4, <3>1 DEF InWindow, AttemptStays
    <3> QED BY <2>2, <3>2, WindowStays
  <2> QED BY <2>1, <2>2, <2>3, <2>4 DEF AttemptStays
<1> QED BY <1>1 DEF ReservationKept

(* When a reservation becomes a lease, the agent still keeps it, unless    *)
(* the process is gone: no lease is handed out for a slot that the agent   *)
(* has already given away, whatever timeouts, late answers, cancellations, *)
(* restarts and reconciliations came before.                               *)
THEOREM LeasesHaveReservations == Spec => FinalizeFindsTheReservation
<1> DEFINE Kept4 == StartedGenerations /\ ClaimedOnStarted /\ CallsAreOwn /\ ReservationKept
<1>1. Init => Kept4
  <2> SUFFICES ASSUME Init PROVE Kept4
    OBVIOUS
  <2>1. StartedGenerations BY DEF Init, StartedGenerations
  <2>2. ClaimedOnStarted BY DEF Init, ClaimedOnStarted, NoRow
  <2>3. CallsAreOwn BY DEF Init, CallsAreOwn, CallsOf
  <2>4. ReservationKept BY DEF Init, ReservationKept, InWindow, NoRow
  <2> QED BY <2>1, <2>2, <2>3, <2>4
<1>2. LeaseInv /\ LeaseInv' /\ Kept4 /\ [Next]_vars => Kept4'
  <2> SUFFICES ASSUME LeaseInv, LeaseInv', Kept4, [Next]_vars PROVE Kept4'
    OBVIOUS
  <2>0. TypeOK /\ TypeOK' BY DEF LeaseInv
  <2>1. CASE UNCHANGED vars
    BY <2>1 DEF vars, StartedGenerations, ClaimedOnStarted, CallsAreOwn, CallsOf,
                ReservationKept, InWindow, Backed, Runs
  <2>2. CASE Next
    <3>1. \A s \in Servers : Serverly(s) BY <2>2, ServerStep
    <3> QED BY <2>0, <2>2, <3>1, StepKinds, StartedStep, ClaimedOnStartedStep, CallsStep,
               AttemptStep, KeptStep
  <2> QED BY <2>1, <2>2
<1>3. LeaseInv /\ Kept4 /\ [Next]_vars =>
        [\A l \in Requests : row[l].status = "reserving" /\ row'[l].status = "active" =>
           LET s == row[l].server IN
           \/ ~Runs(s, row[l].gen)
           \/ agent[s][l].status = "reserved" /\ agent[s][l].attempt = row[l].attempt]_vars
  <2> SUFFICES ASSUME LeaseInv, Kept4, Next, NEW l \in Requests,
                      row[l].status = "reserving", row'[l].status = "active"
               PROVE  LET s == row[l].server IN
                      \/ ~Runs(s, row[l].gen)
                      \/ agent[s][l].status = "reserved" /\ agent[s][l].attempt = row[l].attempt
    OBVIOUS
  <2>0. TypeOK BY DEF LeaseInv
  <2>1. ~Calm BY DEF Calm, Calmly
  <2>2. PICK k \in Requests : Arrives(k) \/ Claims(k) \/ Admits(k) BY <2>1, StepKinds
  <2>3. k = l /\ Admits(l)
    <3>1. CASE Arrives(k)
      <4>1. row'[k].status = "queued" /\ \A j \in Requests \ {k} : row'[j] = row[j]
        BY <2>0, <3>1, ArrivedRow
      <4> QED BY <4>1
    <3>2. CASE Claims(k)
      <4>1. row'[k].status = "reserving" /\ \A j \in Requests \ {k} : row'[j] = row[j]
        BY <2>0, <3>2, ClaimedRow DEF Claims
      <4> QED BY <4>1
    <3>3. CASE Admits(k)
      <4>1. \A j \in Requests \ {k} : row'[j] = row[j] BY <2>0, <3>3, ActivatedRow
      <4> QED BY <3>3, <4>1
    <3> QED BY <2>2, <3>1, <3>2, <3>3
  <2>4. InWindow(l) BY <2>3 DEF Admits, Activates, Finalizable, InWindow
  <2>5. /\ row[l].server = own[l].server /\ row[l].gen = own[l].gen
        /\ row[l].attempt = own[l].attempt
    BY <2>4 DEF LeaseInv, ReservedByOwner, InWindow
  <2> QED BY <2>4, <2>5 DEF ReservationKept, Backed
<1> QED BY <1>1, <1>2, <1>3, LeaseInvariant, PTL DEF Spec, FinalizeFindsTheReservation

-------------------------------------------------------------------------------
(* What the reconcilers know.                                              *)

(* The server of an active lease is running and healthy.                   *)
ActiveOnUsable == \A l \in Requests : row[l].status = "active" => Usable(row[l].server)

(* The reservation of an attempt has been handled once and for all when    *)
(* acquire() has its answer, and when its row is active.                   *)
AcceptedOnce ==
    \A m \in net : m.kind = "reserve" =>
        /\ own[m.request].pc = "answered" => m.attempt # own[m.request].attempt
        /\ row[m.request].status = "active" => m.attempt # row[m.request].attempt

(* What a reconciliation has found due is due, a reservation it has found  *)
(* late is late, and it has found no active row on an old process.         *)
DeadlinesKnown ==
    \A w \in Reconcilers, l \in Requests :
        /\ l \in rec[w].due => row[l].due
        /\ l \in rec[w].late /\ row[l].status = "reserving" => row[l].late
        /\ rec[w].verdict[l] # "old"

(* An active row that a reconciliation has found due is one it has asked   *)
(* for or will; what the agent has said to be over stays over.             *)
VerdictsAreTrue ==
    \A w \in Reconcilers, l \in Requests :
        l \in rec[w].due /\ row[l].status = "active" =>
            /\ rec[w].verdict[l] # "none"
            /\ rec[w].verdict[l] \in Ended \union {"unknown"} => ~Alive(l)

(* A reconciliation knows of no more deadlines than before, and of the     *)
(* same answers, if of any.                                                *)
KnowsLess(w) ==
    /\ rec'[w].due \subseteq rec[w].due /\ rec'[w].late \subseteq rec[w].late
    /\ \/ rec'[w].verdict = rec[w].verdict
       \/ rec'[w].due = {} /\ \A l \in Requests : rec'[w].verdict[l] = "none"

Hears(w) == \E s \in Servers : AgentAnswers(w, s) \/ NoAnswer(w, s)

(* What a step does to a reconciliation.                                   *)
Reconciles(w) ==
    \/ rec'[w].pc = rec[w].pc /\ KnowsLess(w)
    \/ RecBegin(w) \/ Hears(w)
    \/ RecCommit(w) \/ RecAborts(w)

(* A row that was due is still due, or no reconciliation knows it was.     *)
DeadlinesMove ==
    \A l \in Requests : \/ row[l].due => row'[l].due
                        \/ \A w \in Reconcilers : l \notin rec'[w].due

(* Taking rows out of the reconciliations.                                 *)
LEMMA ForgottenRecords ==
    ASSUME TypeOK, NEW ls, NEW w \in Reconcilers
    PROVE  /\ Forgotten(ls)[w].pc = rec[w].pc
           /\ Forgotten(ls)[w].due = rec[w].due \ ls
           /\ Forgotten(ls)[w].late = rec[w].late \ ls
           /\ Forgotten(ls)[w].verdict = rec[w].verdict
BY DEF Forgotten, TypeOK, Reconciliations

(* Reconciliations that a step leaves alone, or takes rows from.           *)
LEMMA ReconcilesForgotten ==
    ASSUME TypeOK, UNCHANGED rec \/ \E ls : rec' = Forgotten(ls), NEW w \in Reconcilers
    PROVE  Reconciles(w)
<1>1. CASE UNCHANGED rec BY <1>1 DEF Reconciles, KnowsLess
<1>2. ASSUME NEW ls, rec' = Forgotten(ls) PROVE Reconciles(w)
  BY <1>2, ForgottenRecords DEF Reconciles, KnowsLess
<1> QED BY <1>1, <1>2

(* What a reconciliation does to another.                                  *)
LEMMA ReconcilesAlone ==
    ASSUME TypeOK, NEW v \in Reconcilers, Reconciler(v), NEW w \in Reconcilers
    PROVE  Reconciles(w)
<1>0. rec \in [Reconcilers -> Reconciliations] BY DEF TypeOK
<1>1. CASE w = v
  BY <1>1 DEF Reconciler, Reconciles, Hears
<1>2. CASE w # v
  <2>1. CASE RecCommit(v)
    <3>1. rec'[w] = Forgotten(Extended(v))[w] BY <1>0, <1>2, <2>1 DEF RecCommit, Forgotten
    <3> QED BY <3>1, ForgottenRecords DEF Reconciles, KnowsLess
  <2>2. CASE ~RecCommit(v)
    <3>1. rec'[w] = rec[w]
      BY <1>0, <1>2, <2>2 DEF Reconciler, RecBegin, RecAborts, AgentAnswers, NoAnswer, Learns
    <3> QED BY <3>1 DEF Reconciles, KnowsLess
  <2> QED BY <2>1, <2>2
<1> QED BY <1>1, <1>2

(* Every step does one of these to every reconciliation.                   *)
LEMMA ReconcilesStep ==
    ASSUME TypeOK, Next, NEW w \in Reconcilers
    PROVE  Reconciles(w)
<1>1. ASSUME NEW l \in Requests, Owner(l) \/ Handle(l) PROVE Reconciles(w)
  <2>1. UNCHANGED rec \/ rec' = Forgotten({l})
    BY <1>1 DEF Owner, Handle, Enqueue, FinishLeaving, PostFails, Finalize, CleanupCancel,
     Requeue, Abort, WatcherSees, GivesUp, Claim, CancelHeld, Dispatch, HeldFails, Renew,
     RenewalTimesOut, DisconnectSeen, ServingEnds, ReleaseCancel, ReleaseRow, Crash
  <2> QED BY <2>1, ReconcilesForgotten
<1>2. CASE Agents
  <2>1. UNCHANGED rec
    BY <1>2 DEF Agents, AgentReserve, AgentCancel, AgentDispatch, AgentEnds, AgentClientLost,
                AgentExpire, brokers
  <2> QED BY <2>1, ReconcilesForgotten
<1>3. CASE Environment
  <2>1. UNCHANGED rec
    BY <1>3 DEF Environment, ClearQueue, Lapse, WindowLapses, StartServer, ServerStarted,
       AgentRegisters, AgentUnreachable, ProcessExits, AgentRestarts, HealthReport, ServerGone,
       RequestStop, AgentStops, StopSettles, brokers
  <2> QED BY <2>1, ReconcilesForgotten
<1> QED BY <1>1, <1>2, <1>3, ReconcilesAlone DEF Next

(* The end of a reconciliation.                                            *)
LEMMA EndsIdle ==
    ASSUME TypeOK, NEW w \in Reconcilers, RecCommit(w) \/ RecAborts(w)
    PROVE  KnowsLess(w)
<1>1. rec'[w] = Idle
  BY DEF RecCommit, RecAborts, Forgotten, TypeOK
<1> QED BY <1>1 DEF KnowsLess, Idle

(* Changes of a row that leave its deadline alone.                         *)
LEMMA SameDeadline ==
    ASSUME TypeOK, NEW l \in Requests
    PROVE  /\ \A status : /\ FinishQueued(l, status) \/ EndActive(l, status) => DeadlinesMove
                          /\ [row[l] EXCEPT !.status = status].due = row[l].due
           /\ row' = [row EXCEPT ![l] = AfterCleanup(l)] => DeadlinesMove
           /\ Requeued(row[l]).due = row[l].due
<1>0. row \in [Requests -> Rows] /\ row[l] \in Rows BY DEF TypeOK
<1>1. ASSUME NEW q, row' = [row EXCEPT ![l] = q], q.due = row[l].due PROVE DeadlinesMove
  BY <1>0, <1>1 DEF DeadlinesMove
<1>2. ASSUME NEW status PROVE [row[l] EXCEPT !.status = status].due = row[l].due
  BY <1>0 DEF Rows
<1>3. ASSUME NEW status, FinishQueued(l, status) \/ EndActive(l, status) PROVE DeadlinesMove
  <2>1. row' = row \/ row' = [row EXCEPT ![l] = [row[l] EXCEPT !.status = status]]
    BY <1>3 DEF FinishQueued, EndActive
  <2>2. CASE row' = row BY <2>2 DEF DeadlinesMove
  <2> QED BY <1>1, <1>2, <2>1, <2>2
<1>4. Requeued(row[l]).due = row[l].due BY <1>0 DEF Requeued, Rows
<1>5. AfterCleanup(l).due = row[l].due BY <1>2, <1>4 DEF AfterCleanup
<1> QED BY <1>1, <1>2, <1>3, <1>4, <1>5

(* A request moves only its own deadline, and then every reconciliation    *)
(* forgets it.                                                             *)
LEMMA RequestDeadlines ==
    ASSUME TypeOK, NEW l \in Requests, Owner(l) \/ Handle(l)
    PROVE  DeadlinesMove
<1>0. row \in [Requests -> Rows] /\ row[l] \in Rows BY DEF TypeOK
<1>1. ASSUME UNCHANGED row PROVE DeadlinesMove BY <1>1 DEF DeadlinesMove
<1>2. ASSUME rec' = Forgotten({l}), \A k \in Requests \ {l} : row'[k] = row[k]
      PROVE  DeadlinesMove
  <2>1. \A w \in Reconcilers : l \notin rec'[w].due BY <1>2, ForgottenRecords
  <2> QED BY <1>2, <2>1 DEF DeadlinesMove
<1>3. ASSUME NEW queuedAt, Enqueue(l, queuedAt) PROVE DeadlinesMove
  BY <1>0, <1>3 DEF Enqueue, DeadlinesMove, Rows
<1>4. ASSUME NEW s \in Servers, Claim(l, s) PROVE DeadlinesMove
  BY <1>2, <1>4, ClaimedRow DEF Claim
<1>5. CASE FinishLeaving(l) \/ WatcherSees(l) \/ CancelHeld(l) \/ DisconnectSeen(l)
           \/ ReleaseRow(l) \/ Requeue(l)
  BY <1>5, SameDeadline DEF FinishLeaving, WatcherSees, CancelHeld, DisconnectSeen, ReleaseRow,
     Requeue
<1>6. CASE Finalize(l) \/ Renew(l)
  BY <1>0, <1>1, <1>2, <1>6 DEF Finalize, Renew
<1>7. CASE PostFails(l) \/ CleanupCancel(l) \/ Abort(l) \/ Dispatch(l) \/ HeldFails(l)
           \/ RenewalTimesOut(l) \/ ReleaseCancel(l) \/ Crash(l)
  BY <1>1, <1>7 DEF PostFails, CleanupCancel, Abort, Dispatch, HeldFails, RenewalTimesOut,
                    ReleaseCancel, Crash
<1>8. ASSUME NEW outcome, GivesUp(l, outcome) \/ ServingEnds(l, outcome) PROVE DeadlinesMove
  BY <1>1, <1>8 DEF GivesUp, ServingEnds
<1> QED BY <1>3, <1>4, <1>5, <1>6, <1>7, <1>8 DEF Owner, Handle

(* A reconciliation moves the deadlines of the leases that go on, which    *)
(* every reconciliation forgets.                                           *)
LEMMA ReconcilerDeadlines ==
    ASSUME TypeOK, NEW w \in Reconcilers, Reconciler(w)
    PROVE  DeadlinesMove
<1>0. /\ row \in [Requests -> Rows] /\ rec \in [Reconcilers -> Reconciliations]
  BY DEF TypeOK
<1>1. CASE RecCommit(w)
  <2>1. ASSUME NEW l \in Requests
        PROVE  \/ row[l].due => row'[l].due
               \/ \A v \in Reconcilers : l \notin rec'[v].due
    <3>1. CASE l \in Extended(w)
      <4>1. ASSUME NEW v \in Reconcilers PROVE l \notin rec'[v].due
        <5>1. rec'[v] = Idle \/ rec'[v] = Forgotten(Extended(w))[v]
          BY <1>0, <1>1 DEF RecCommit, Forgotten
        <5> QED BY <3>1, <5>1, ForgottenRecords DEF Idle
      <4> QED BY <4>1
    <3>2. CASE l \notin Extended(w)
      <4>1. Reconciled(w, l).due = row[l].due
        BY <3>2, SameDeadline DEF Reconciled
      <4>2. Reconciled(w, l) \in Rows BY <1>0, ReconciledType
      <4>3. [Reconciled(w, l) EXCEPT !.status = "failed"].due = Reconciled(w, l).due
        BY <4>2 DEF Rows
      <4>4. \/ row'[l] = Reconciled(w, l)
            \/ row'[l] = [Reconciled(w, l) EXCEPT !.status = "failed"]
        BY <1>1 DEF RecCommit
      <4> QED BY <4>1, <4>3, <4>4
    <3> QED BY <3>1, <3>2
  <2> QED BY <2>1 DEF DeadlinesMove
<1>2. CASE ~RecCommit(w)
  <2>1. UNCHANGED row BY <1>2 DEF Reconciler, RecBegin, RecAborts, AgentAnswers, NoAnswer
  <2> QED BY <2>1 DEF DeadlinesMove
<1> QED BY <1>1, <1>2

(* Nothing else takes a deadline back.                                     *)
LEMMA OtherDeadlines ==
    ASSUME TypeOK, Agents \/ Environment
    PROVE  DeadlinesMove
<1>0. row \in [Requests -> Rows] BY DEF TypeOK
<1>1. ASSUME \A k \in Requests : \/ row'[k] = row[k]
                                 \/ row'[k] = [row[k] EXCEPT !.status = "failed"]
                                 \/ row'[k] = [row[k] EXCEPT !.status = "cancelled"]
      PROVE  DeadlinesMove
  <2>1. \A k \in Requests : row'[k].due = row[k].due BY ZenonT(30), <1>0, <1>1 DEF Rows
  <2> QED BY <2>1 DEF DeadlinesMove
<1>2. ASSUME UNCHANGED row PROVE DeadlinesMove BY <1>2 DEF DeadlinesMove
<1>3. ASSUME NEW s, Invalidate(s) PROVE DeadlinesMove BY <1>1, <1>3 DEF Invalidate
<1>4. CASE Agents
  BY <1>2, <1>4 DEF Agents, AgentReserve, AgentCancel, AgentDispatch, AgentEnds,
     AgentClientLost, AgentExpire, world
<1>5. CASE Environment
  <2>1. CASE ClearQueue BY <1>1, <2>1 DEF ClearQueue
  <2>2. ASSUME NEW l \in Requests, Lapse(l) \/ WindowLapses(l) PROVE DeadlinesMove
    BY <1>0, <2>2 DEF Lapse, WindowLapses, DeadlinesMove, Rows
  <2>3. ASSUME NEW s \in Servers,
               \/ StartServer(s) \/ ServerStarted(s) \/ ProcessExits(s) \/ AgentRestarts(s)
               \/ AgentRegisters(s) \/ AgentUnreachable(s)
        PROVE  DeadlinesMove
    BY <1>2, <1>3, <2>3 DEF StartServer, ServerStarted, ProcessExits, AgentRestarts,
       AgentRegisters, AgentUnreachable, Unavailable
  <2>4. ASSUME NEW s \in Servers, NEW healthy, HealthReport(s, healthy) PROVE DeadlinesMove
    BY <1>2, <1>3, <2>4 DEF HealthReport
  <2>5. ASSUME NEW s \in Servers, NEW x, ServerGone(s, x) \/ RequestStop(s, x) PROVE DeadlinesMove
    BY <1>3, <2>5 DEF ServerGone, RequestStop
  <2>6. ASSUME NEW c \in stops, NEW status, AgentStops(c) \/ StopSettles(c, status)
        PROVE  DeadlinesMove
    BY <1>2, <2>6 DEF AgentStops, StopSettles
  <2> QED BY <1>5, <2>1, <2>2, <2>3, <2>4, <2>5, <2>6 DEF Environment
<1> QED BY <1>4, <1>5

(* No step takes back a deadline that a reconciliation knows.              *)
LEMMA DeadlineStep == TypeOK /\ Next => DeadlinesMove
BY RequestDeadlines, ReconcilerDeadlines, OtherDeadlines DEF Next

(* Reservations are sent by claims.                                        *)
LEMMA ReservationsAreClaims ==
    ASSUME LeaseInv, Next, NEW m \in net' \ net, m.kind = "reserve"
    PROVE  Claims(m.request) /\ m.request \in Requests
<1>0. TypeOK BY DEF LeaseInv
<1>1. ASSUME NEW l \in Requests, Owner(l) \/ Handle(l)
      PROVE  Claims(m.request) /\ m.request \in Requests
  <2>1. ASSUME NEW kind \in {"cancel", "dispatch"}, Send(l, kind) PROVE FALSE
    BY <2>1 DEF Send
  <2>2. Claims(l)
    BY <1>1, <2>1 DEF Owner, Handle, Enqueue, FinishLeaving, PostFails, Finalize, CleanupCancel,
     Requeue, Abort, WatcherSees, GivesUp, Claims, CancelHeld, Dispatch, HeldFails, Renew,
     RenewalTimesOut, DisconnectSeen, ServingEnds, ReleaseCancel, ReleaseRow, Crash
  <2>3. m.request = l BY <1>0, <2>2, ClaimedAttempt DEF Claims
  <2> QED BY <2>2, <2>3
<1>2. CASE Agents
  BY <1>2 DEF Agents, AgentReserve, AgentCancel, AgentDispatch, AgentEnds, AgentClientLost,
              AgentExpire
<1>3. ASSUME NEW w \in Reconcilers, Reconciler(w) PROVE FALSE
  BY <1>3 DEF Reconciler, RecBegin, RecCommit, RecAborts, AgentAnswers, NoAnswer
<1>4. CASE Environment
  BY <1>4 DEF Environment, ClearQueue, Lapse, WindowLapses, StartServer, ServerStarted,
     AgentRegisters, AgentUnreachable, ProcessExits, AgentRestarts, HealthReport, ServerGone,
     RequestStop, AgentStops, StopSettles
<1> QED BY <1>1, <1>2, <1>3, <1>4 DEF Next

(* acquire() has its answer only once the reservation has been handled.    *)
LEMMA AnswersAreHandled ==
    ASSUME LeaseInv, Next, NEW k \in Requests, own'[k].pc = "answered", own[k].pc # "answered"
    PROVE  \E m \in CallsOf(k) : /\ m.kind = "reserve" /\ m.attempt = own[k].attempt
                                 /\ net' = net \ {m}
<1>0. TypeOK /\ own \in [Requests -> Owners] BY DEF LeaseInv, TypeOK
<1>1. Accepted(k)
  <2>1. CASE AttemptsStay BY <2>1 DEF AttemptsStay, AttemptStays
  <2>2. ASSUME NEW l \in Requests, NEW s \in Servers, Claim(l, s) PROVE FALSE
    BY <1>0, <2>2, ClaimedAttempt
  <2> QED BY <2>1, <2>2, AttemptStep DEF Claims
<1>2. own[k].pc = "posted" BY <1>1 DEF Accepted
<1>3. ASSUME NEW l \in Requests, Owner(l) \/ Handle(l) PROVE FALSE
  <2>1. \A j \in Requests \ {l} : own'[j] = own[j]
    BY <1>0, <1>3 DEF Owner, Handle, Enqueue, FinishLeaving, PostFails, Finalize, CleanupCancel,
     Requeue, Abort, WatcherSees, GivesUp, Claim, CancelHeld, Dispatch, HeldFails, Renew,
     RenewalTimesOut, DisconnectSeen, ServingEnds, ReleaseCancel, ReleaseRow, Crash, Goto
  <2>2. l = k BY <1>2, <2>1
  <2>3. PostFails(k) \/ Abort(k) \/ WatcherSees(k) \/ Crash(k)
    BY <1>2, <1>3, <2>2 DEF Owner, Handle, Enqueue, FinishLeaving, Finalize, CleanupCancel,
     Requeue, GivesUp, Claim, CancelHeld, Dispatch, HeldFails, Renew,
     RenewalTimesOut, DisconnectSeen, ServingEnds, ReleaseCancel, ReleaseRow
  <2> QED BY <1>0, <1>2, <2>3 DEF PostFails, Abort, WatcherSees, Crash, Goto, Owners
<1>4. ASSUME UNCHANGED own PROVE FALSE BY <1>4
<1>5. CASE Agents
  <2>1. PICK m \in net : AgentReserve(m)
    BY <1>4, <1>5 DEF Agents, AgentCancel, AgentDispatch, AgentEnds, AgentClientLost,
                      AgentExpire, brokers
  <2>2. m.request \in Requests BY <1>0 DEF TypeOK, Calls
  <2>3. m.request = k /\ own[k].attempt = m.attempt
    BY <1>0, <1>4, <2>1, <2>2 DEF AgentReserve, Goto
  <2> QED BY <2>1, <2>3 DEF AgentReserve, CallsOf
<1>6. ASSUME NEW w \in Reconcilers, Reconciler(w) PROVE FALSE
  BY <1>4, <1>6 DEF Reconciler, RecBegin, RecCommit, RecAborts, AgentAnswers, NoAnswer
<1>7. CASE Environment
  BY <1>4, <1>7 DEF Environment, ClearQueue, Lapse, WindowLapses, StartServer, ServerStarted,
     AgentRegisters, AgentUnreachable, ProcessExits, AgentRestarts, HealthReport, ServerGone,
     RequestStop, AgentStops, StopSettles, brokers
<1> QED BY <1>3, <1>5, <1>6, <1>7 DEF Next

(* There is one reservation per attempt.                                   *)
LEMMA OneReservation ==
    ASSUME TypeOK, CallsAreOwn, NEW l \in Requests, NEW m \in CallsOf(l), NEW n \in CallsOf(l),
           m.kind = n.kind, m.attempt = own[l].attempt, n.attempt = own[l].attempt
    PROVE  m = n
<1>1. /\ m \in Calls /\ n \in Calls /\ m.request = l /\ n.request = l
      /\ m.server = own[l].server /\ n.server = own[l].server
      /\ m.gen = own[l].gen /\ n.gen = own[l].gen
  BY DEF CallsAreOwn, CallsOf, TypeOK
<1> QED BY <1>1 DEF Calls

(* A reservation is handled before its answer and before its lease.        *)
LEMMA AcceptedOnceStep ==
    ASSUME LeaseInv, LeaseInv', CallsAreOwn, AcceptedOnce, Next
    PROVE  AcceptedOnce'
<1>0. TypeOK /\ TypeOK' BY DEF LeaseInv
<1>1. ASSUME NEW m \in net', m.kind = "reserve", NEW k, k = m.request
      PROVE  /\ own'[k].pc = "answered" => m.attempt # own'[k].attempt
             /\ row'[k].status = "active" => m.attempt # row'[k].attempt
  <2>0. k \in Requests BY <1>0, <1>1 DEF TypeOK, Calls
  <2>1. CASE m \notin net
    <3>1. PICK s \in Servers : Claim(k, s)
      BY <1>1, <2>1, ReservationsAreClaims DEF Claims
    <3>2. row'[k].status = "reserving" BY <1>0, <2>0, <3>1, ClaimedRow
    <3>3. own'[k].pc = "posted" BY <1>0, <2>0, <3>1, ClaimedAttempt
    <3> QED BY <3>2, <3>3
  <2>2. CASE m \in net
    <3>1. /\ own[k].pc = "answered" => m.attempt # own[k].attempt
          /\ row[k].status = "active" => m.attempt # row[k].attempt
      BY <1>1, <2>2 DEF AcceptedOnce
    <3>2. ASSUME own'[k].pc = "answered", own[k].pc = "answered"
          PROVE  own'[k].attempt = own[k].attempt
      <4>1. CASE AttemptsStay BY <2>0, <4>1 DEF AttemptsStay, AttemptStays
      <4>2. ASSUME NEW l \in Requests, NEW s \in Servers, Claim(l, s)
            PROVE  own'[k].attempt = own[k].attempt
        BY <1>0, <2>0, <3>2, <4>2, ClaimedAttempt
      <4> QED BY <4>1, <4>2, AttemptStep DEF Claims
    <3>3. ASSUME own'[k].pc = "answered", own[k].pc # "answered"
          PROVE  m.attempt # own'[k].attempt
      <4>1. PICK n \in CallsOf(k) : /\ n.kind = "reserve" /\ n.attempt = own[k].attempt
                                    /\ net' = net \ {n}
        BY <2>0, <3>3, AnswersAreHandled
      <4>2. m \in CallsOf(k) BY <1>1, <2>2 DEF CallsOf
      <4>3. m.attempt # own[k].attempt
        BY <1>0, <1>1, <2>0, <4>1, <4>2, OneReservation
      <4>4. CASE AttemptsStay BY <2>0, <4>3, <4>4 DEF AttemptsStay, AttemptStays
      <4>5. ASSUME NEW l \in Requests, NEW s \in Servers, Claim(l, s) PROVE FALSE
        BY <1>0, <2>0, <3>3, <4>5, ClaimedAttempt
      <4> QED BY <4>4, <4>5, AttemptStep DEF Claims
    <3>4. ASSUME row'[k].status = "active" PROVE m.attempt # row'[k].attempt
      <4>1. CASE row[k].status = "active" /\ row'[k].attempt = row[k].attempt
        BY <3>1, <4>1
      <4>2. CASE Calm BY <2>0, <3>4, <4>1, <4>2 DEF Calm, Calmly
      <4>3. ASSUME NEW l \in Requests, Arrives(l) \/ Claims(l)
            PROVE  m.attempt # row'[k].attempt
        <5>1. row'[k] = row[k]
          BY <1>0, <2>0, <3>4, <4>3, ArrivedRow, ClaimedRow DEF Claims
        <5> QED BY <3>1, <3>4, <5>1
      <4>4. ASSUME NEW l \in Requests, Admits(l) PROVE m.attempt # row'[k].attempt
        <5>1. CASE l = k
          <6>1. own[k].pc = "answered" /\ row[k].attempt = own[k].attempt
            BY <4>4, <5>1 DEF Admits, Activates, Finalizable
          <6>2. row'[k].attempt = row[k].attempt
            BY <1>0, <2>0, <4>4, <5>1 DEF Admits, Activates, TypeOK, Rows
          <6> QED BY <3>1, <6>1, <6>2
        <5>2. CASE l # k
          <6>1. row'[k] = row[k] BY <1>0, <2>0, <4>4, <5>2, ActivatedRow
          <6> QED BY <3>1, <3>4, <6>1
        <5> QED BY <5>1, <5>2
      <4> QED BY <4>2, <4>3, <4>4, StepKinds
    <3> QED BY <3>1, <3>2, <3>3, <3>4
  <2> QED BY <2>1, <2>2
<1> QED BY <1>1 DEF AcceptedOnce

(* A server that could be used still can be, or is taken away, and then    *)
(* its leases end.                                                         *)
UsableStays(s) ==
    Usable(s) => \/ Usable(s)'
                 \/ server'[s].status \notin {"running", "starting"}
                 \/ Invalidate(s)

(* Without new registrations of its agent, a server is treated so.         *)
LEMMA UsableStep ==
    ASSUME LeaseInv, Next, "report" \notin Faults, NEW t \in Servers
    PROVE  UsableStays(t)
<1>0. TypeOK /\ server \in [Servers -> ServerRows] BY DEF LeaseInv, TypeOK
<1>1. ASSUME server'[t] = server[t] PROVE UsableStays(t) BY <1>1 DEF UsableStays, Usable
<1>2. ASSUME NEW s \in Servers, NEW status, NEW healthy, SetServer(s, status, healthy),
             \/ status \notin {"running", "starting"}
             \/ healthy = TRUE /\ status = "running"
             \/ healthy = TRUE /\ status = server[s].status
             \/ Invalidate(s)
      PROVE  UsableStays(t)
  <2>1. server'[s].status = status /\ server'[s].healthy = healthy
    BY <1>0, <1>2 DEF SetServer, ServerRows
  <2>2. CASE s = t BY <1>2, <2>1, <2>2 DEF UsableStays, Usable
  <2>3. CASE s # t BY <1>0, <1>1, <1>2, <2>3, SetStatus
  <2> QED BY <2>2, <2>3
<1>3. ASSUME NEW l \in Requests, Owner(l) \/ Handle(l) PROVE UsableStays(t)
  BY <1>1, <1>3 DEF Owner, Handle, Enqueue, FinishLeaving, PostFails, Finalize, CleanupCancel,
     Requeue, Abort, WatcherSees, GivesUp, Claim, CancelHeld, Dispatch, HeldFails, Renew,
     RenewalTimesOut, DisconnectSeen, ServingEnds, ReleaseCancel, ReleaseRow, Crash, world
<1>4. CASE Agents
  BY <1>1, <1>4 DEF Agents, AgentReserve, AgentCancel, AgentDispatch, AgentEnds,
     AgentClientLost, AgentExpire, world
<1>5. ASSUME NEW w \in Reconcilers, Reconciler(w) PROVE UsableStays(t)
  <2>1. CASE RecCommit(w)
    <3>1. \/ server'[t] = server[t]
          \/ server'[t] = [server[t] EXCEPT !.status = "stopping"]
      BY <2>1 DEF RecCommit
    <3> QED BY <1>0, <1>1, <3>1 DEF UsableStays, ServerRows
  <2>2. CASE ~RecCommit(w)
    BY <1>1, <1>5, <2>2 DEF Reconciler, RecBegin, RecAborts, AgentAnswers, NoAnswer, world
  <2> QED BY <2>1, <2>2
<1>6. CASE Environment
  <2>1. CASE ClearQueue \/ \E l \in Requests : Lapse(l) \/ WindowLapses(l)
    BY <1>1, <2>1 DEF ClearQueue, Lapse, WindowLapses, world
  <2>2. ASSUME NEW s \in Servers, StartServer(s) PROVE UsableStays(t)
    <3>1. CASE s = t BY <2>2, <3>1 DEF StartServer, UsableStays, Usable
    <3>2. CASE s # t BY <1>0, <1>1, <2>2, <3>2 DEF StartServer
    <3> QED BY <3>1, <3>2
  <2>3. ASSUME NEW s \in Servers, ServerStarted(s) PROVE UsableStays(t)
    BY <1>2, <2>3 DEF ServerStarted
  <2>4. ASSUME NEW s \in Servers, AgentRegisters(s) \/ AgentUnreachable(s) PROVE UsableStays(t)
    BY <1>2, <2>4 DEF AgentRegisters, AgentUnreachable, Unavailable
  <2>5. ASSUME NEW s \in Servers, ProcessExits(s) \/ AgentRestarts(s) PROVE UsableStays(t)
    BY <1>1, <2>5 DEF ProcessExits, AgentRestarts
  <2>6. ASSUME NEW s \in Servers, NEW healthy \in BOOLEAN, HealthReport(s, healthy)
        PROVE  UsableStays(t)
    <3>1. CASE healthy = FALSE BY <1>2, <2>6, <3>1 DEF HealthReport
    <3>2. CASE healthy = TRUE BY <1>2, <2>6, <3>2 DEF HealthReport
    <3> QED BY <3>1, <3>2
  <2>7. ASSUME NEW s \in Servers, NEW status \in {"stopped", "error"}, ServerGone(s, status)
        PROVE  UsableStays(t)
    BY <1>2, <2>7 DEF ServerGone
  <2>8. ASSUME NEW s \in Servers, NEW force, RequestStop(s, force) PROVE UsableStays(t)
    BY <1>2, <2>8 DEF RequestStop
  <2>9. ASSUME NEW c \in stops, AgentStops(c) PROVE UsableStays(t)
    BY <1>1, <2>9 DEF AgentStops
  <2>10. ASSUME NEW c \in stops, NEW status \in {"stopped", "error"}, StopSettles(c, status)
         PROVE  UsableStays(t)
    <3>1. c.server \in Servers BY <1>0 DEF TypeOK, StopCommands
    <3> QED BY <1>1, <1>2, <2>10, <3>1 DEF StopSettles
  <2> QED BY <1>6, <2>1, <2>2, <2>3, <2>4, <2>5, <2>6, <2>7, <2>8, <2>9, <2>10 DEF Environment
<1> QED BY <1>3, <1>4, <1>5, <1>6 DEF Next

(* What becomes of an active row: it was active before and has kept its    *)
(* server, its generation and its attempt, or finalize() has just made it  *)
(* active.                                                                 *)
WasActive(l) ==
    /\ row[l].status = "active" /\ row'[l].server = row[l].server
    /\ row'[l].gen = row[l].gen /\ row'[l].attempt = row[l].attempt

LEMMA ActiveRow ==
    ASSUME LeaseInv, Next, NEW l \in Requests, row'[l].status = "active"
    PROVE  WasActive(l) \/ Admits(l)
<1>0. TypeOK BY DEF LeaseInv
<1>1. CASE Calm BY <1>1 DEF Calm, Calmly, WasActive
<1>2. ASSUME NEW k \in Requests, Arrives(k) \/ Claims(k) PROVE WasActive(l)
  <2>1. k # l /\ row'[l] = row[l] BY <1>0, <1>2, ArrivedRow, ClaimedRow DEF Claims
  <2> QED BY <2>1 DEF WasActive
<1>3. ASSUME NEW k \in Requests, Admits(k) PROVE WasActive(l) \/ Admits(l)
  <2>1. CASE k # l
    <3>1. row'[l] = row[l] BY <1>0, <1>3, <2>1, ActivatedRow
    <3> QED BY <3>1 DEF WasActive
  <2> QED BY <1>3, <2>1
<1> QED BY <1>1, <1>2, <1>3, StepKinds

(* The servers of active leases stay running and healthy.                  *)
LEMMA ActiveOnUsableStep ==
    ASSUME LeaseInv, LeaseInv', ActiveOnUsable, Next, "report" \notin Faults
    PROVE  ActiveOnUsable'
<1>0. TypeOK BY DEF LeaseInv
<1>1. ASSUME NEW l \in Requests, row'[l].status = "active", NEW s, s = row'[l].server
      PROVE  server'[s].status = "running" /\ server'[s].healthy
  <2>1. s \in Servers /\ server'[s].status \in {"running", "starting"}
    BY <1>1 DEF LeaseInv, ActiveOnLiveServer, Current
  <2>2. CASE WasActive(l)
    <3>1. row[l].server = s /\ row[l].status = "active" BY <1>1, <2>2 DEF WasActive
    <3>2. Usable(s) BY <3>1 DEF ActiveOnUsable
    <3>3. ~Invalidate(s) BY <1>0, <1>1, <3>1 DEF Invalidate, TypeOK, Rows
    <3> QED BY <2>1, <3>2, <3>3, UsableStep DEF UsableStays, Usable
  <2>3. CASE Admits(l)
    <3>1. own[l].server = s
      <4>1. row'[l].server = row[l].server /\ row[l].status = "reserving"
        BY <1>0, <2>3, ActivatedRow
      <4> QED BY <1>1, <4>1 DEF LeaseInv, ReservedByOwner
    <3>2. server' = server BY <1>0, <2>3, ActivatedRow
    <3> QED BY <2>3, <3>1, <3>2 DEF Admits, Activates, Finalizable, Usable
  <2> QED BY <1>1, <2>2, <2>3, ActiveRow
<1> QED BY <1>1 DEF ActiveOnUsable, Usable

(* An operation that is alive was alive before, under the same generation  *)
(* and for the same attempt, or its reservation has just been accepted.    *)
WasAlive(s, l) ==
    agent'[s][l].status \in Live =>
        \/ /\ agent[s][l].status \in Live
           /\ agent'[s][l].gen = agent[s][l].gen /\ agent'[s][l].attempt = agent[s][l].attempt
        \/ \E m \in CallsOf(l) : m.kind = "reserve" /\ m.attempt = agent'[s][l].attempt

(* Every step leaves the operations so.                                    *)
LEMMA AliveStep ==
    ASSUME LeaseInv, Next, NEW s \in Servers, NEW l \in Requests
    PROVE  WasAlive(s, l)
<1>0. /\ TypeOK /\ agent \in [Servers -> [Requests -> Operations]]
      /\ agent[s][l] \in Operations
  BY DEF LeaseInv, TypeOK
<1>1. ASSUME agent'[s][l] = agent[s][l] PROVE WasAlive(s, l) BY <1>1 DEF WasAlive
<1>2. ASSUME NEW k \in Requests, Owner(k) \/ Handle(k) PROVE WasAlive(s, l)
  BY <1>1, <1>2 DEF Owner, Handle, Enqueue, FinishLeaving, PostFails, Finalize, CleanupCancel,
     Requeue, Abort, WatcherSees, GivesUp, Claim, CancelHeld, Dispatch, HeldFails, Renew,
     RenewalTimesOut, DisconnectSeen, ServingEnds, ReleaseCancel, ReleaseRow, Crash
<1>3. CASE Agents
  <2>1. ASSUME NEW m \in net, AgentReserve(m) PROVE WasAlive(s, l)
    <3>1. CASE m.server = s /\ m.request = l
      <4>1. CASE agent' = [agent EXCEPT ![s][l] =
                             [status |-> "reserved", gen |-> m.gen, attempt |-> m.attempt,
                              dispatched |-> FALSE]]
        <5>1. agent'[s][l].attempt = m.attempt BY <1>0, <4>1
        <5> QED BY <2>1, <3>1, <5>1 DEF WasAlive, CallsOf, AgentReserve
      <4> QED BY <1>1, <2>1, <3>1, <4>1 DEF AgentReserve
    <3>2. CASE ~(m.server = s /\ m.request = l)
      <4>1. agent'[s][l] = agent[s][l] BY <1>0, <2>1, <3>2 DEF AgentReserve
      <4> QED BY <1>1, <4>1
    <3> QED BY <3>1, <3>2
  <2>2. ASSUME NEW m \in net, AgentCancel(m) PROVE WasAlive(s, l)
    <3>1. CASE m.server = s /\ m.request = l
      <4>1. \/ agent'[s][l] = agent[s][l]
            \/ /\ agent[s][l].status \in {"reserved", "active"}
               /\ agent'[s][l].gen = agent[s][l].gen
               /\ agent'[s][l].attempt = agent[s][l].attempt
        BY <1>0, <2>2, <3>1 DEF AgentCancel, Operations
      <4> QED BY <1>1, <4>1 DEF WasAlive, Live
    <3>2. CASE ~(m.server = s /\ m.request = l)
      <4>1. agent'[s][l] = agent[s][l] BY <1>0, <2>2, <3>2 DEF AgentCancel
      <4> QED BY <1>1, <4>1
    <3> QED BY <3>1, <3>2
  <2>3. ASSUME NEW m \in net, AgentDispatch(m) PROVE WasAlive(s, l)
    <3>1. CASE m.server = s /\ m.request = l
      <4>1. \/ agent'[s][l] = agent[s][l]
            \/ /\ agent[s][l].status = "reserved"
               /\ agent'[s][l].gen = agent[s][l].gen
               /\ agent'[s][l].attempt = agent[s][l].attempt
        BY <1>0, <2>3, <3>1 DEF AgentDispatch, Operations
      <4> QED BY <1>1, <4>1 DEF WasAlive, Live
    <3>2. CASE ~(m.server = s /\ m.request = l)
      <4>1. agent'[s][l] = agent[s][l] BY <1>0, <2>3, <3>2 DEF AgentDispatch
      <4> QED BY <1>1, <4>1
    <3> QED BY <3>1, <3>2
  <2>4. ASSUME NEW t \in Servers, NEW k \in Requests, NEW outcome \in Ended,
               agent' = [agent EXCEPT ![t][k].status = outcome]
        PROVE  WasAlive(s, l)
    <3>1. agent'[s][l] = agent[s][l] \/ agent'[s][l].status = outcome
      BY <1>0, <2>4 DEF Operations
    <3> QED BY <1>1, <3>1 DEF WasAlive, Live, Ended
  <2>5. ASSUME NEW t \in Servers, NEW k \in Requests,
               \/ \E outcome \in Ended : AgentEnds(t, k, outcome)
               \/ AgentClientLost(t, k) \/ AgentExpire(t, k)
        PROVE  WasAlive(s, l)
    BY <2>4, <2>5 DEF AgentEnds, AgentClientLost, AgentExpire, Ended
  <2> QED BY <1>3, <2>1, <2>2, <2>3, <2>5 DEF Agents
<1>4. ASSUME NEW w \in Reconcilers, Reconciler(w) PROVE WasAlive(s, l)
  BY <1>1, <1>4 DEF Reconciler, RecBegin, RecCommit, RecAborts, AgentAnswers, NoAnswer
<1>5. CASE Environment
  <2>1. ASSUME NEW t \in Servers, NEW gen, NEW up, ReplaceProcess(t, gen, up)
        PROVE  WasAlive(s, l)
    <3>1. \/ agent'[s][l] = agent[s][l]
          \/ agent[s][l].status \in Live /\ agent'[s][l] = [agent[s][l] EXCEPT !.status = "failed"]
      BY <1>0, <2>1 DEF ReplaceProcess, Fails
    <3>2. agent'[s][l] = agent[s][l] \/ agent'[s][l].status = "failed"
      BY <1>0, <3>1 DEF Operations
    <3> QED BY <1>1, <3>2 DEF WasAlive, Live
  <2>2. ASSUME NEW t \in Servers, AgentRestarts(t) PROVE WasAlive(s, l)
    <3>1. agent'[s][l] = agent[s][l] \/ agent'[s][l] = NoOp
      BY <1>0, <2>2 DEF AgentRestarts
    <3> QED BY <1>1, <3>1 DEF WasAlive, Live, NoOp
  <2>3. ASSUME NEW t \in Servers, ServerStarted(t) \/ ProcessExits(t) PROVE WasAlive(s, l)
    BY <1>1, <2>1, <2>3 DEF ServerStarted, ProcessExits
  <2>4. ASSUME NEW c \in stops, AgentStops(c) PROVE WasAlive(s, l)
    <3>1. c.server \in Servers BY <1>0 DEF TypeOK, StopCommands
    <3> QED BY <1>1, <2>1, <2>4, <3>1 DEF AgentStops
  <2>5. CASE \/ ClearQueue \/ \E k \in Requests : Lapse(k) \/ WindowLapses(k)
             \/ \E t \in Servers :
                  \/ StartServer(t) \/ AgentRegisters(t) \/ AgentUnreachable(t)
                  \/ \E healthy \in BOOLEAN : HealthReport(t, healthy)
                  \/ \E status \in {"stopped", "error"} : ServerGone(t, status)
                  \/ \E force \in BOOLEAN : RequestStop(t, force)
             \/ \E c \in stops, status \in {"stopped", "error"} : StopSettles(c, status)
    BY <1>1, <2>5 DEF ClearQueue, Lapse, WindowLapses, StartServer, AgentRegisters,
       AgentUnreachable, HealthReport, ServerGone, RequestStop, StopSettles
  <2> QED BY <1>5, <2>2, <2>3, <2>4, <2>5 DEF Environment
<1> QED BY <1>2, <1>3, <1>4, <1>5 DEF Next

(* The first transaction of a reconciliation.                              *)
LEMMA BegunRecord ==
    ASSUME TypeOK, NEW w \in Reconcilers, RecBegin(w)
    PROVE  /\ rec'[w].due = {l \in Requests : row[l].due}
           /\ rec'[w].late = {l \in Requests : row[l].late}
           /\ \A l \in Requests : rec'[w].verdict[l] =
                 IF row[l].status # "active" THEN "none"
                 ELSE IF ~Current(l) THEN "old"
                 ELSE IF row[l].due /\ Usable(row[l].server) THEN "ask" ELSE "none"
           /\ UNCHANGED <<row, agent>>
BY DEF RecBegin, TypeOK

(* What a reconciliation hears.                                            *)
LEMMA HeardRecord ==
    ASSUME TypeOK, NEW w \in Reconcilers, Hears(w)
    PROVE  /\ rec'[w].due = rec[w].due /\ rec'[w].late = rec[w].late
           /\ rec'[w].pc = "asking"
           /\ \A l \in Requests :
                 \/ rec'[w].verdict[l] = rec[w].verdict[l]
                 \/ rec'[w].verdict[l] = "deferred"
                 \/ rec'[w].verdict[l] = Reported(row[l].server, l)
           /\ UNCHANGED <<row, agent>>
<1>0. rec \in [Reconcilers -> Reconciliations] /\ rec[w] \in Reconciliations BY DEF TypeOK
<1>1. PICK s \in Servers : AgentAnswers(w, s) \/ NoAnswer(w, s) BY DEF Hears
<1>2. /\ rec[w].pc = "asking" /\ UNCHANGED <<row, agent>>
      /\ \E answer : /\ Learns(w, s, answer)
                     /\ \A l \in Requests : answer[l] \in {"deferred", Reported(s, l)}
  <2>1. \A l \in Requests : [k \in Requests |-> "deferred"][l] = "deferred" OBVIOUS
  <2>2. \A l \in Requests : [k \in Requests |-> Reported(s, k)][l] = Reported(s, l) OBVIOUS
  <2> QED BY <1>1, <2>1, <2>2 DEF AgentAnswers, NoAnswer
<1>3. PICK answer : /\ Learns(w, s, answer)
                    /\ \A l \in Requests : answer[l] \in {"deferred", Reported(s, l)}
  BY <1>2
<1>4. rec'[w] = [rec[w] EXCEPT !.verdict =
                   [l \in Requests |-> IF l \in Asked(w, s) THEN answer[l]
                                       ELSE rec[w].verdict[l]]]
  BY <1>0, <1>3 DEF Learns
<1>5. /\ rec'[w].due = rec[w].due /\ rec'[w].late = rec[w].late /\ rec'[w].pc = rec[w].pc
      /\ \A l \in Requests : rec'[w].verdict[l] =
            IF l \in Asked(w, s) THEN answer[l] ELSE rec[w].verdict[l]
  BY <1>0, <1>4 DEF Reconciliations
<1>6. \A l \in Asked(w, s) : row[l].server = s BY DEF Asked
<1> QED BY <1>2, <1>3, <1>5, <1>6

(* What an agent reports is a status or "unknown".                         *)
LEMMA ReportedStatus ==
    ASSUME TypeOK, NEW l \in Requests, row[l].server \in Servers
    PROVE  Reported(row[l].server, l) \in Live \union Ended \union {"unknown"}
BY DEF Reported, TypeOK, Operations

(* Only what waits to be asked hears anything.                             *)
LEMMA HeardOfActive ==
    ASSUME TypeOK, NEW w \in Reconcilers, Hears(w), NEW l \in Requests,
           rec'[w].verdict[l] # rec[w].verdict[l]
    PROVE  row[l].server \in Servers
<1>0. rec \in [Reconcilers -> Reconciliations] /\ rec[w] \in Reconciliations BY DEF TypeOK
<1>1. PICK s \in Servers : AgentAnswers(w, s) \/ NoAnswer(w, s) BY DEF Hears
<1>2. PICK answer : Learns(w, s, answer) BY <1>1 DEF AgentAnswers, NoAnswer
<1>3. l \in Asked(w, s)
  BY <1>0, <1>2 DEF Learns, Reconciliations
<1> QED BY <1>1, <1>3 DEF Asked

(* No reconciliation takes for due or late what is not.                    *)
LEMMA DeadlinesKnownStep ==
    ASSUME LeaseInv, DeadlinesKnown, Next
    PROVE  DeadlinesKnown'
<1>0. TypeOK BY DEF LeaseInv
<1>1. ASSUME NEW w \in Reconcilers, NEW l \in Requests
      PROVE  /\ l \in rec'[w].due => row'[l].due
             /\ l \in rec'[w].late /\ row'[l].status = "reserving" => row'[l].late
             /\ rec'[w].verdict[l] # "old"
  <2>0. /\ l \in rec[w].due => row[l].due
        /\ l \in rec[w].late /\ row[l].status = "reserving" => row[l].late
        /\ rec[w].verdict[l] # "old"
    BY DEF DeadlinesKnown
  <2>1. CASE KnowsLess(w)
    <3>1. l \in rec'[w].due => row'[l].due
      BY <1>0, <2>0, <2>1, DeadlineStep DEF DeadlinesMove, KnowsLess
    <3>2. rec'[w].verdict[l] # "old" BY <2>0, <2>1 DEF KnowsLess
    <3>3. ASSUME l \in rec'[w].late, row'[l].status = "reserving" PROVE row'[l].late
      <4>0. l \in rec[w].late BY <2>1, <3>3 DEF KnowsLess
      <4>1. CASE Calm BY <2>0, <3>3, <4>0, <4>1 DEF Calm, Calmly
      <4>2. ASSUME NEW k \in Requests, Arrives(k) \/ Claims(k) \/ Admits(k), k # l
            PROVE  row'[l].late
        <5>1. row'[l] = row[l]
          BY <1>0, <4>2, ArrivedRow, ClaimedRow, ActivatedRow DEF Claims
        <5> QED BY <2>0, <3>3, <4>0, <5>1
      <4>3. CASE Arrives(l) \/ Admits(l) BY <1>0, <3>3, <4>3, ArrivedRow, ActivatedRow
      <4>4. CASE Claims(l)
        <5>1. rec' = Forgotten({l}) BY <4>4 DEF Claims, Claim
        <5> QED BY <1>0, <3>3, <5>1, ForgottenRecords
      <4> QED BY <4>1, <4>2, <4>3, <4>4, StepKinds
    <3> QED BY <3>1, <3>2, <3>3
  <2>2. CASE RecBegin(w)
    <3>1. row[l].status = "active" => Current(l) BY DEF LeaseInv, ActiveOnLiveServer
    <3> QED BY <1>0, <2>2, <3>1, BegunRecord
  <2>3. CASE Hears(w)
    <3>1. rec'[w].verdict[l] # "old"
      <4>1. CASE rec'[w].verdict[l] = rec[w].verdict[l] BY <2>0, <4>1
      <4>2. CASE rec'[w].verdict[l] # rec[w].verdict[l]
        <5>1. row[l].server \in Servers BY <1>0, <2>3, <4>2, HeardOfActive
        <5>2. Reported(row[l].server, l) # "old"
          BY <1>0, <5>1, ReportedStatus DEF Live, Ended
        <5> QED BY <1>0, <2>0, <2>3, <5>2, HeardRecord
      <4> QED BY <4>1, <4>2
    <3> QED BY <1>0, <2>0, <2>3, <3>1, HeardRecord
  <2> QED BY <1>0, <2>1, <2>2, <2>3, ReconcilesStep, EndsIdle DEF Reconciles
<1> QED BY <1>1 DEF DeadlinesKnown

(* An active row that keeps its attempt is not alive unless it was.        *)
LEMMA DeadStaysDead ==
    ASSUME LeaseInv, AcceptedOnce, Next, NEW l \in Requests, WasActive(l), ~Alive(l)
    PROVE  ~Alive(l)'
<1>0. TypeOK BY DEF LeaseInv
<1>1. PICK s, g, a : s = row[l].server /\ g = row[l].gen /\ a = row[l].attempt OBVIOUS
<1>2. row'[l].server = s /\ row'[l].gen = g /\ row'[l].attempt = a
  BY <1>1 DEF WasActive
<1>3. s \in Servers BY <1>1 DEF WasActive, LeaseInv, ActiveOnLiveServer, Current
<1>4. Alive(l) <=> /\ agent[s][l].status \in Live /\ agent[s][l].gen = g
                   /\ agent[s][l].attempt = a
  BY <1>1 DEF Alive, Reported, Live
<1>5. Alive(l)' <=> /\ agent'[s][l].status \in Live /\ agent'[s][l].gen = g
                    /\ agent'[s][l].attempt = a
  BY <1>2 DEF Alive, Reported, Live
<1>6. ASSUME NEW m \in CallsOf(l), m.kind = "reserve", m.attempt = a PROVE FALSE
  BY <1>1, <1>6 DEF CallsOf, AcceptedOnce, WasActive
<1> QED BY <1>3, <1>4, <1>5, <1>6, AliveStep DEF WasAlive

(* What a reconciliation has been told stays true until it ends.           *)
LEMMA VerdictsStep ==
    ASSUME LeaseInv, ActiveOnUsable, AcceptedOnce, VerdictsAreTrue, DeadlinesKnown', Next
    PROVE  VerdictsAreTrue'
<1>0. TypeOK BY DEF LeaseInv
<1>1. ASSUME NEW w \in Reconcilers, NEW l \in Requests,
             l \in rec'[w].due, row'[l].status = "active"
      PROVE  /\ rec'[w].verdict[l] # "none"
             /\ rec'[w].verdict[l] \in Ended \union {"unknown"} => ~Alive(l)'
  <2>0. WasActive(l)
    <3>1. row'[l].due BY <1>1 DEF DeadlinesKnown
    <3>2. ~Admits(l) BY <1>0, <3>1, ActivatedRow
    <3> QED BY <1>1, <3>2, ActiveRow
  <2>1. row[l].server \in Servers /\ Current(l) /\ row[l].status = "active"
    BY <2>0 DEF WasActive, LeaseInv, ActiveOnLiveServer, Current
  <2>2. ASSUME l \in rec[w].due
        PROVE  /\ rec[w].verdict[l] # "none"
               /\ rec[w].verdict[l] \in Ended \union {"unknown"} => ~Alive(l)
    BY <2>1, <2>2 DEF VerdictsAreTrue
  <2>3. CASE KnowsLess(w)
    <3>1. l \in rec[w].due /\ rec'[w].verdict[l] = rec[w].verdict[l]
      BY <1>1, <2>3 DEF KnowsLess
    <3> QED BY <2>0, <2>2, <3>1, DeadStaysDead
  <2>4. CASE RecBegin(w)
    <3>1. row[l].due BY <1>0, <1>1, <2>4, BegunRecord
    <3>2. Usable(row[l].server) BY <2>1 DEF ActiveOnUsable
    <3>3. rec'[w].verdict[l] = "ask" BY <1>0, <2>1, <2>4, <3>1, <3>2, BegunRecord
    <3> QED BY <3>3 DEF Ended
  <2>5. CASE Hears(w)
    <3>0. l \in rec[w].due BY <1>0, <1>1, <2>5, HeardRecord
    <3>1. CASE rec'[w].verdict[l] = rec[w].verdict[l] BY <2>0, <2>2, <3>0, <3>1, DeadStaysDead
    <3>2. CASE rec'[w].verdict[l] = "deferred" BY <3>2 DEF Ended
    <3>3. CASE rec'[w].verdict[l] = Reported(row[l].server, l)
      <4>1. Reported(row[l].server, l) # "none"
        BY <1>0, <2>1, ReportedStatus DEF Live, Ended
      <4>2. Reported(row[l].server, l) \in Ended \union {"unknown"} => ~Alive(l)
        BY DEF Alive, Live, Ended
      <4> QED BY <2>0, <3>3, <4>1, <4>2, DeadStaysDead
    <3> QED BY <1>0, <2>5, <3>1, <3>2, <3>3, HeardRecord
  <2> QED BY <1>0, <2>3, <2>4, <2>5, ReconcilesStep, EndsIdle DEF Reconciles
<1> QED BY <1>1 DEF VerdictsAreTrue

(* The end of a reconciliation spares what is alive.                       *)
LEMMA CommitSpares ==
    ASSUME LeaseInv, DeadlinesKnown, VerdictsAreTrue, NEW w \in Reconcilers, RecCommit(w),
           NEW l \in Requests
    PROVE  Spares(l)
<1>0. TypeOK /\ row[l] \in Rows BY DEF LeaseInv, TypeOK
<1>1. /\ l \in rec[w].due => row[l].due
      /\ l \in rec[w].late /\ row[l].status = "reserving" => row[l].late
      /\ rec[w].verdict[l] # "old"
  BY DEF DeadlinesKnown
<1>2. row'[l] = IF l \in Stale(w) THEN [Reconciled(w, l) EXCEPT !.status = "failed"]
                ELSE Reconciled(w, l)
  BY DEF RecCommit
<1>3. ASSUME row[l].status = "reserving", ~row[l].late, ~row[l].due PROVE row'[l] = row[l]
  <2>1. l \notin Abandoned(w) /\ l \notin Overdue(w) /\ ~Lapsed(w, l) /\ l \notin Extended(w)
    BY <1>1, <1>3 DEF Abandoned, Overdue, Lapsed, Extended
  <2>2. Reconciled(w, l) = row[l] BY <1>3, <2>1 DEF Reconciled
  <2>3. l \notin Stale(w) BY <1>3, <2>2 DEF Stale
  <2> QED BY <1>2, <2>2, <2>3
<1>4. ASSUME row[l].status = "active", Usable(row[l].server), Alive(l)
      PROVE  row'[l].status = "active"
  <2>0. row[l].server \in Servers BY <1>4 DEF LeaseInv, ActiveOnLiveServer, Current
  <2>1. l \notin Abandoned(w) /\ l \notin Overdue(w)
    BY <1>4 DEF Abandoned, Overdue, Waiting
  <2>2. CASE l \in Extended(w)
    <3>1. Reconciled(w, l) = [row[l] EXCEPT !.due = FALSE]
      BY <1>1, <2>1, <2>2 DEF Reconciled
    <3>2. l \notin Stale(w) BY <1>4, <2>2 DEF Stale
    <3> QED BY <1>0, <1>2, <1>4, <3>1, <3>2 DEF Rows
  <2>3. CASE l \notin rec[w].due
    <3>1. Reconciled(w, l) = row[l]
      BY <1>1, <2>1, <2>3 DEF Reconciled, Extended, Lapsed
    <3>2. l \notin Stale(w) BY <1>4, <2>3 DEF Stale
    <3> QED BY <1>2, <1>4, <3>1, <3>2
  <2>4. CASE l \in rec[w].due /\ l \notin Extended(w)
    <3>1. /\ rec[w].verdict[l] # "none"
          /\ rec[w].verdict[l] \in Ended \union {"unknown"} => ~Alive(l)
      BY <1>4, <2>4 DEF VerdictsAreTrue
    <3>2. rec[w].verdict[l] # "ask" BY <2>0 DEF RecCommit, Asked
    <3>3. rec[w].verdict[l] \notin Live \union {"deferred"}
      BY <1>4, <2>4 DEF Extended, Lapsed
    <3>4. rec[w].verdict[l] \in Verdicts BY <1>0 DEF TypeOK, Reconciliations
    <3>5. FALSE BY <1>1, <1>4, <3>1, <3>2, <3>3, <3>4 DEF Verdicts
    <3> QED BY <3>5
  <2> QED BY <2>2, <2>3, <2>4
<1> QED BY <1>3, <1>4 DEF Spares

(* A reconciliation of reconcile_stale_leases() spares a reservation that  *)
(* is still in its window, and the lease of an operation that is alive on  *)
(* a server that stays healthy, whether its agent answers, is silent or    *)
(* answers late, and whatever the requests, the other reconcilers, the     *)
(* agents and the servers do between its two transactions.  Registrations  *)
(* are left out: register_agent() can find a server unhealthy and leave    *)
(* its leases, which a reconciliation then ends unasked.                   *)
THEOREM LivingAreSpared ==
    ASSUME "report" \notin Faults
    PROVE  Spec => ReconcilerSparesTheLiving
<1> DEFINE Known == /\ CallsAreOwn /\ ActiveOnUsable /\ AcceptedOnce
                    /\ DeadlinesKnown /\ VerdictsAreTrue
<1>1. Init => Known
  <2> SUFFICES ASSUME Init PROVE Known
    OBVIOUS
  <2>1. CallsAreOwn /\ AcceptedOnce BY DEF Init, CallsAreOwn, CallsOf, AcceptedOnce
  <2>2. ActiveOnUsable BY DEF Init, ActiveOnUsable, NoRow
  <2>3. DeadlinesKnown BY DEF Init, DeadlinesKnown, Idle
  <2>4. VerdictsAreTrue BY DEF Init, VerdictsAreTrue, Idle
  <2> QED BY <2>1, <2>2, <2>3, <2>4
<1>2. LeaseInv /\ LeaseInv' /\ Known /\ [Next]_vars => Known'
  <2> SUFFICES ASSUME LeaseInv, LeaseInv', Known, [Next]_vars PROVE Known'
    OBVIOUS
  <2>1. CASE UNCHANGED vars
    BY <2>1 DEF vars, CallsAreOwn, CallsOf, ActiveOnUsable, Usable, AcceptedOnce,
                DeadlinesKnown, VerdictsAreTrue, Alive, Reported
  <2>2. CASE Next
    <3>1. CallsAreOwn' BY <2>2, CallsStep, AttemptStep
    <3>2. ActiveOnUsable' BY <2>2, ActiveOnUsableStep
    <3>3. AcceptedOnce' BY <2>2, AcceptedOnceStep
    <3>4. DeadlinesKnown' BY <2>2, DeadlinesKnownStep
    <3>5. VerdictsAreTrue' BY <2>2, <3>4, VerdictsStep
    <3> QED BY <3>1, <3>2, <3>3, <3>4, <3>5
  <2> QED BY <2>1, <2>2
<1>3. LeaseInv /\ Known /\ [Next]_vars =>
        [\A w \in Reconcilers : Commits(w) => \A l \in Requests : Spares(l)]_vars
  <2> SUFFICES ASSUME LeaseInv, Known, Next, NEW w \in Reconcilers, Commits(w),
                      NEW l \in Requests
               PROVE  Spares(l)
    OBVIOUS
  <2>0. TypeOK BY DEF LeaseInv
  <2>1. RecCommit(w) \/ RecAborts(w)
    <3>1. Reconciles(w) BY <2>0, ReconcilesStep
    <3>2. ~RecBegin(w) BY DEF RecBegin, Commits
    <3>3. ~Hears(w) BY <2>0, HeardRecord DEF Commits
    <3> QED BY <3>1, <3>2, <3>3 DEF Reconciles, Commits
  <2>2. CASE RecCommit(w) BY <2>2, CommitSpares
  <2>3. CASE RecAborts(w) BY <2>3 DEF RecAborts, Spares
  <2> QED BY <2>1, <2>2, <2>3
<1> QED BY <1>1, <1>2, <1>3, LeaseInvariant, PTL DEF Spec, ReconcilerSparesTheLiving

-------------------------------------------------------------------------------
(* The agents' contract.  AgentSlots implements it for one llama-server;   *)
(* the agents of InferenceLeases stay within it, whatever calls reach them *)
(* and whatever becomes of their processes.                                *)

(* An agent knows of no operation of a process that is still to come, and  *)
(* what is alive belongs to the process that is up.                        *)
CurrentOp(s, l) ==
    /\ agent[s][l].gen <= process[s].gen
    /\ agent[s][l].status \in Live => process[s].up /\ agent[s][l].gen = process[s].gen

AgentsCurrent == \A s \in Servers : /\ process[s].up => process[s].gen # 0
                                    /\ \A l \in Requests : CurrentOp(s, l)

(* What becomes of an operation is what the contract allows, and it keeps  *)
(* its generation unless it is new to the process that is up.              *)
Promised(s, l) ==
    \/ AgentsContract!Reserve(s, l) \/ AgentsContract!Dispatch(s, l)
    \/ AgentsContract!Cancel(s, l) \/ AgentsContract!End(s, l)

MovesOperation(s, l, new) ==
    /\ UNCHANGED process /\ agent' = [agent EXCEPT ![s][l] = new]
    /\ \/ /\ new.gen = agent[s][l].gen
          /\ new.status \in Live => agent[s][l].status \in Live
       \/ process[s].up /\ new.gen = process[s].gen

(* The process is gone for good, or a later one takes its place.           *)
Replaces(s, gen, up) ==
    /\ ReplaceProcess(s, gen, up)
    /\ \/ process[s].up /\ gen = process[s].gen /\ ~up
       \/ gen \in Gens /\ gen > process[s].gen /\ up

(* What a step may do to the agents. *)
AgentMoves ==
    \/ UNCHANGED <<agent, process>>
    \/ \E s \in Servers, l \in Requests, new \in Operations :
         MovesOperation(s, l, new) /\ Promised(s, l)
    \/ \E s \in Servers, gen \in Nat, up \in BOOLEAN : Replaces(s, gen, up)
    \/ \E s \in Servers : AgentRestarts(s)

(* The process of an agent as the contract sees it. *)
LEMMA RunningProcess ==
    ASSUME NEW s \in Servers
    PROVE  Running[s] = IF process[s].up THEN process[s].gen ELSE 0
BY DEF Running

(* A slot the agent finds free is free in the contract. *)
LEMMA FreeSlot ==
    ASSUME NEW s \in Servers, AgentHasSlot(s) PROVE AgentsContract!Free(s)
<1>1. AgentsContract!Slots(s) = {l \in Requests : Holds(s, l)}
  BY DEF AgentsContract!Slots, AgentsContract!Live, Holds
<1> QED BY <1>1 DEF AgentHasSlot, AgentsContract!Free, AgentsContract!Cardinality, Cardinality

(* An operation that changes its status and nothing else.                  *)
LEMMA StatusMoves ==
    ASSUME TypeOK, NEW s \in Servers, NEW l \in Requests, NEW status \in Live \union Ended,
           UNCHANGED process, agent' = [agent EXCEPT ![s][l].status = status],
           agent[s][l].status \in Live,
           \/ agent[s][l].status = "active" /\ status = "cancelling"
           \/ agent[s][l].status = "reserved" /\ status = "cancelled"
           \/ agent[s][l].status \in {"active", "cancelling"} /\ status \in Ended
    PROVE  AgentMoves
<1> DEFINE new == [agent[s][l] EXCEPT !.status = status]
<1>1. agent[s][l] \in Operations BY DEF TypeOK
<1>2. new \in Operations /\ new.gen = agent[s][l].gen BY <1>1 DEF Operations
<1>3. agent' = [agent EXCEPT ![s][l] = new] OBVIOUS
<1>4. MovesOperation(s, l, new) BY <1>2, <1>3 DEF MovesOperation
<1>5. UNCHANGED Running BY DEF Running
<1>6. AgentsContract!Becomes(s, l, new) BY <1>3, <1>5 DEF AgentsContract!Becomes
<1>7. Promised(s, l)
  BY <1>6 DEF Promised, AgentsContract!Cancel, AgentsContract!End, AgentsContract!Ended, Ended
<1> QED BY <1>2, <1>4, <1>7 DEF AgentMoves

(* A call that reaches an agent does no more. *)
LEMMA CallMoves ==
    ASSUME LeaseInv, AgentsCurrent, NEW m \in net,
           AgentReserve(m) \/ AgentCancel(m) \/ AgentDispatch(m)
    PROVE  AgentMoves
<1> DEFINE s == m.server
           l == m.request
<1>0. /\ TypeOK /\ s \in Servers /\ l \in Requests /\ m \in Calls /\ agent[s][l] \in Operations
      /\ UNCHANGED process
  BY DEF LeaseInv, TypeOK, CallsNameServers, Calls, AgentReserve, AgentCancel, AgentDispatch, world
<1>1. CurrentOp(s, l) /\ (process[s].up => process[s].gen # 0) BY <1>0 DEF AgentsCurrent
<1>2. CASE UNCHANGED agent BY <1>0, <1>2 DEF AgentMoves
<1>3. CASE AgentReserve(m) /\ agent' # agent
  <2> DEFINE new == [status |-> "reserved", gen |-> m.gen, attempt |-> m.attempt,
                     dispatched |-> FALSE]
  <2>1. /\ Serves(m) /\ AgentHasSlot(s) /\ agent' = [agent EXCEPT ![s][l] = new]
        /\ \/ agent[s][l].status = "absent"
           \/ agent[s][l].status = "cancelled" /\ ~agent[s][l].dispatched
    BY <1>3 DEF AgentReserve
  <2>2. process[s].up /\ process[s].gen = m.gen BY <2>1 DEF Serves, Runs
  <2>3. new \in Operations BY <1>0 DEF Operations, Calls, Live
  <2>4. MovesOperation(s, l, new) BY <1>0, <2>1, <2>2 DEF MovesOperation
  <2>5. Running[s] = m.gen /\ m.gen # 0 BY <1>0, <1>1, <2>2, RunningProcess
  <2>6. AgentsContract!Becomes(s, l, new)
    BY <1>0, <2>1 DEF AgentsContract!Becomes, Running
  <2>7. m.attempt \in Attempts BY <1>0 DEF Calls
  <2>8. AgentsContract!Reserve(s, l)
    BY <1>0, <2>1, <2>5, <2>6, <2>7, FreeSlot DEF AgentsContract!Reserve
  <2> QED BY <1>0, <2>3, <2>4, <2>8 DEF AgentMoves, Promised
<1>4. CASE AgentCancel(m) /\ agent' # agent
  <2> DEFINE status == IF agent[s][l].status = "reserved" THEN "cancelled" ELSE "cancelling"
  <2>1. /\ agent[s][l].status \in {"reserved", "active"}
        /\ agent' = [agent EXCEPT ![s][l].status = status]
    BY <1>4 DEF AgentCancel
  <2>2. status \in Live \union Ended BY DEF Live, Ended
  <2>3. \/ agent[s][l].status = "active" /\ status = "cancelling"
        \/ agent[s][l].status = "reserved" /\ status = "cancelled"
    BY <2>1
  <2>4. agent[s][l].status \in Live BY <2>1 DEF Live
  <2> HIDE DEF status
  <2> QED BY <1>0, <2>1, <2>2, <2>3, <2>4, StatusMoves
<1>5. CASE AgentDispatch(m) /\ agent' # agent
  <2> DEFINE old == agent[s][l]
             m1 == [old EXCEPT !.status = "active"]
             new == [m1 EXCEPT !.dispatched = TRUE]
             rec4 == [status |-> "active", gen |-> old.gen, attempt |-> old.attempt,
                      dispatched |-> TRUE]
  <2>1. old.status = "reserved" /\ Serves(m) /\ agent' = [agent EXCEPT ![s][l] = new]
    BY <1>5 DEF AgentDispatch
  <2>2. /\ m1 \in Operations /\ m1.status = "active" /\ m1.gen = old.gen
        /\ m1.attempt = old.attempt
    BY <1>0 DEF Operations, Live
  <2>3. /\ new \in Operations /\ new.status = "active" /\ new.gen = old.gen
        /\ new.attempt = old.attempt /\ new.dispatched = TRUE
    <3> HIDE DEF m1
    <3> QED BY <2>2 DEF Operations
  <2>4. new = rec4
    <3> HIDE DEF new
    <3> QED BY <2>3 DEF Operations
  <2>5. old.gen = process[s].gen /\ process[s].up
    BY <1>1, <2>1 DEF CurrentOp, Live
  <2>6. Running[s] = old.gen BY <1>0, <2>5, RunningProcess
  <2> HIDE DEF new
  <2>7. MovesOperation(s, l, new) BY <1>0, <2>1, <2>3, <2>5 DEF MovesOperation
  <2>8. AgentsContract!Becomes(s, l, rec4)
    BY <1>0, <2>1, <2>4 DEF AgentsContract!Becomes, Running
  <2>9. AgentsContract!Dispatch(s, l) BY <2>1, <2>6, <2>8 DEF AgentsContract!Dispatch
  <2> QED BY <1>0, <2>3, <2>7, <2>9 DEF AgentMoves, Promised
<1> QED BY <1>2, <1>3, <1>4, <1>5

(* Neither does any other step. *)
LEMMA StepMoves ==
    ASSUME LeaseInv, AgentsCurrent, Next
    PROVE  AgentMoves
<1>0. TypeOK /\ process \in [Servers -> [gen : Gens, up : BOOLEAN]] BY DEF LeaseInv, TypeOK
<1>1. ASSUME UNCHANGED <<agent, process>> PROVE AgentMoves BY <1>1 DEF AgentMoves
<1>2. ASSUME NEW k \in Requests, Owner(k) \/ Handle(k) PROVE AgentMoves
  BY <1>1, <1>2 DEF Owner, Handle, Enqueue, FinishLeaving, PostFails, Finalize, CleanupCancel,
     Requeue, Abort, WatcherSees, GivesUp, Claim, CancelHeld, Dispatch, HeldFails, Renew,
     RenewalTimesOut, DisconnectSeen, ServingEnds, ReleaseCancel, ReleaseRow, Crash, world
<1>3. CASE Agents
  <2>1. ASSUME NEW s \in Servers, NEW l \in Requests, NEW outcome \in Ended,
               AgentEnds(s, l, outcome) \/ AgentClientLost(s, l) \/ AgentExpire(s, l)
        PROVE  AgentMoves
    <3>1. CASE AgentEnds(s, l, outcome)
      BY <1>0, <3>1, StatusMoves DEF AgentEnds, world, Ended, Live
    <3>2. CASE AgentClientLost(s, l)
      BY <1>0, <3>2, StatusMoves DEF AgentClientLost, world, Ended, Live
    <3>3. CASE AgentExpire(s, l)
      BY <1>0, <3>3, StatusMoves DEF AgentExpire, world, Ended, Live
    <3> QED BY <2>1, <3>1, <3>2, <3>3
  <2> QED BY <1>3, <2>1, CallMoves DEF Agents, Ended
<1>4. ASSUME NEW w \in Reconcilers, Reconciler(w) PROVE AgentMoves
  BY <1>1, <1>4 DEF Reconciler, RecBegin, RecCommit, RecAborts, AgentAnswers, NoAnswer, world
<1>5. CASE Environment
  <2>1. ASSUME NEW s \in Servers, NEW gen \in Nat, NEW up \in BOOLEAN, Replaces(s, gen, up)
        PROVE  AgentMoves
    BY <2>1 DEF AgentMoves
  <2>2. ASSUME NEW s \in Servers, ServerStarted(s) PROVE AgentMoves
    <3>1. CASE UNCHANGED <<agent, process>> BY <1>1, <3>1
    <3>2. CASE process[s].gen < server[s].gen /\ ReplaceProcess(s, server[s].gen, TRUE)
      <4>1. server[s].gen \in Gens /\ server[s].gen \in Nat /\ process[s].gen \in Nat
        BY <1>0, GenerationNumbers DEF TypeOK, ServerRows
      <4>2. Replaces(s, server[s].gen, TRUE) BY <3>2, <4>1 DEF Replaces
      <4> QED BY <2>1, <4>1, <4>2
    <3> QED BY <2>2, <3>1, <3>2 DEF ServerStarted
  <2>3. ASSUME NEW s \in Servers, ProcessExits(s) PROVE AgentMoves
    <3>1. Replaces(s, process[s].gen, FALSE) BY <2>3 DEF ProcessExits, Replaces
    <3>2. process[s].gen \in Nat BY <1>0, GenerationNumbers
    <3> QED BY <2>1, <3>1, <3>2
  <2>4. ASSUME NEW c \in stops, AgentStops(c) PROVE AgentMoves
    <3>1. c.server \in Servers BY <1>0 DEF TypeOK, StopCommands
    <3>2. CASE Runs(c.server, c.gen)
      <4>1. Replaces(c.server, process[c.server].gen, FALSE)
        BY <2>4, <3>2 DEF AgentStops, Replaces, Runs
      <4>2. process[c.server].gen \in Nat BY <1>0, <3>1, GenerationNumbers
      <4> QED BY <2>1, <3>1, <4>1, <4>2
    <3> QED BY <1>1, <2>4, <3>2 DEF AgentStops
  <2>5. ASSUME NEW s \in Servers, AgentRestarts(s) PROVE AgentMoves
    BY <2>5 DEF AgentMoves
  <2>6. CASE \/ ClearQueue \/ \E k \in Requests : Lapse(k) \/ WindowLapses(k)
             \/ \E t \in Servers :
                  \/ StartServer(t) \/ AgentRegisters(t) \/ AgentUnreachable(t)
                  \/ \E healthy \in BOOLEAN : HealthReport(t, healthy)
                  \/ \E status \in {"stopped", "error"} : ServerGone(t, status)
                  \/ \E force \in BOOLEAN : RequestStop(t, force)
             \/ \E c \in stops, status \in {"stopped", "error"} : StopSettles(c, status)
    BY <1>1, <2>6 DEF ClearQueue, Lapse, WindowLapses, StartServer, AgentRegisters, world,
       AgentUnreachable, HealthReport, ServerGone, RequestStop, StopSettles
  <2> QED BY <1>5, <2>2, <2>3, <2>4, <2>5, <2>6 DEF Environment
<1> QED BY <1>2, <1>3, <1>4, <1>5 DEF Next

(* An operation that a process leaves behind is over for the contract.     *)
LEMMA FailsIsOver ==
    ASSUME NEW op \in Operations
    PROVE  /\ Fails(op) = AgentsContract!Over(op)
           /\ Fails(op).gen = op.gen /\ Fails(op).status \notin Live
BY DEF Fails, AgentsContract!Over, AgentsContract!Live, Live, Operations

(* Generations tell the processes of an agent apart, and what an agent     *)
(* says is alive belongs to the one that is up.                            *)
LEMMA CurrentStep ==
    ASSUME TypeOK, AgentsCurrent, AgentMoves
    PROVE  AgentsCurrent'
<1>0. /\ process \in [Servers -> [gen : Gens, up : BOOLEAN]]
      /\ agent \in [Servers -> [Requests -> Operations]]
      /\ \A t \in Servers : process[t].gen \in Nat
  BY GenerationNumbers DEF TypeOK
<1>1. CASE UNCHANGED <<agent, process>> BY <1>1 DEF AgentsCurrent, CurrentOp
<1>2. ASSUME NEW s \in Servers, NEW l \in Requests, NEW new \in Operations,
             MovesOperation(s, l, new)
      PROVE  AgentsCurrent'
  <2>1. agent'[s][l] = new /\ process' = process BY <1>0, <1>2 DEF MovesOperation
  <2>2. \A t \in Servers, k \in Requests : t # s \/ k # l => agent'[t][k] = agent[t][k]
    BY <1>0, <1>2 DEF MovesOperation
  <2>3. CurrentOp(s, l)'
    BY <1>0, <1>2, <2>1 DEF MovesOperation, AgentsCurrent, CurrentOp
  <2>4. \A t \in Servers, k \in Requests : CurrentOp(t, k)'
    BY <2>1, <2>2, <2>3 DEF AgentsCurrent, CurrentOp
  <2> QED BY <2>1, <2>4 DEF AgentsCurrent
<1>3. ASSUME NEW s \in Servers, process'[s].gen >= process[s].gen, process'[s].gen \in Nat,
             process'[s].up => process'[s].gen # 0,
             \A l \in Requests : /\ agent'[s][l].gen = agent[s][l].gen \/ agent'[s][l].gen = 0
                                 /\ agent'[s][l].status \notin Live,
             \A t \in Servers \ {s} : process'[t] = process[t] /\ agent'[t] = agent[t]
      PROVE  AgentsCurrent'
  <2>1. \A l \in Requests : CurrentOp(s, l)'
    <3> TAKE l \in Requests
    <3>1. CurrentOp(s, l) /\ agent[s][l].gen \in Nat
      BY <1>0, GenerationNumbers, LeaseAssumption DEF AgentsCurrent, Operations, Gens
    <3> QED BY <1>0, <1>3, <3>1 DEF CurrentOp
  <2>2. \A t \in Servers \ {s} : \A l \in Requests : CurrentOp(t, l)'
    BY <1>3 DEF AgentsCurrent, CurrentOp
  <2> QED BY <1>3, <2>1, <2>2 DEF AgentsCurrent
<1>4. ASSUME NEW s \in Servers, NEW gen \in Nat, NEW up \in BOOLEAN, Replaces(s, gen, up)
      PROVE  AgentsCurrent'
  <2>1. /\ process'[s].gen = gen /\ process'[s].up = up
        /\ \A t \in Servers \ {s} : process'[t] = process[t]
    BY <1>4, ReplacedProcess DEF Replaces
  <2>2. \A l \in Requests : agent'[s][l] = Fails(agent[s][l])
    BY <1>0, <1>4 DEF Replaces, ReplaceProcess
  <2>3. \A t \in Servers \ {s} : agent'[t] = agent[t]
    BY <1>0, <1>4 DEF Replaces, ReplaceProcess
  <2>4. gen >= process[s].gen /\ (up => gen # 0) BY <1>0, <1>4 DEF Replaces
  <2>5. \A l \in Requests : /\ agent'[s][l].gen = agent[s][l].gen
                            /\ agent'[s][l].status \notin Live
    BY <1>0, <2>2, FailsIsOver
  <2> QED BY <1>3, <2>1, <2>3, <2>4, <2>5
<1>5. ASSUME NEW s \in Servers, AgentRestarts(s) PROVE AgentsCurrent'
  <2>1. /\ process'[s].gen = process[s].gen /\ process'[s].up = FALSE
        /\ \A l \in Requests : agent'[s][l] = NoOp
        /\ \A t \in Servers \ {s} : process'[t] = process[t] /\ agent'[t] = agent[t]
    BY <1>0, <1>5 DEF AgentRestarts
  <2>2. NoOp.gen = 0 /\ NoOp.status \notin Live BY DEF NoOp, Live
  <2>3. process[s].gen >= process[s].gen /\ process[s].gen \in Nat BY <1>0
  <2> QED BY <1>3, <2>1, <2>2, <2>3
<1> QED BY <1>1, <1>2, <1>4, <1>5 DEF AgentMoves

(* What a step may do to the agents, their contract allows.                *)
LEMMA AgentsContractStep ==
    ASSUME TypeOK, AgentsCurrent, AgentMoves
    PROVE  [AgentsContract!Next]_(AgentsContract!vars)
<1>0. /\ process \in [Servers -> [gen : Gens, up : BOOLEAN]]
      /\ agent \in [Servers -> [Requests -> Operations]]
      /\ \A t \in Servers : process[t].gen \in Nat
  BY GenerationNumbers DEF TypeOK
<1>1. AgentsContract!Step => AgentsContract!Next BY DEF AgentsContract!Next
<1>2. CASE UNCHANGED <<agent, process>> BY <1>2 DEF AgentsContract!vars, Running
<1>3. ASSUME NEW s \in Servers, NEW l \in Requests, Promised(s, l) PROVE AgentsContract!Step
  BY <1>3 DEF Promised, AgentsContract!Step
<1>4. ASSUME NEW s \in Servers, NEW gen \in Nat, NEW up \in BOOLEAN, Replaces(s, gen, up)
      PROVE  AgentsContract!Step
  <2> DEFINE run == IF up THEN gen ELSE 0
  <2>1. run \in Gens /\ run # Running[s]
    BY <1>0, <1>4, RunningProcess, LeaseAssumption DEF Replaces, AgentsCurrent, Gens
  <2>2. run # 0 => \A l \in Requests : agent[s][l].gen # run
    <3> SUFFICES ASSUME run # 0, NEW l \in Requests PROVE agent[s][l].gen # run
      OBVIOUS
    <3>1. /\ agent[s][l].gen <= process[s].gen /\ agent[s][l].gen \in Nat
      BY <1>0, LeaseAssumption DEF AgentsCurrent, CurrentOp, Operations, Gens
    <3>2. run > process[s].gen BY <1>4 DEF Replaces
    <3> HIDE DEF run
    <3>3. run \in Nat BY <2>1, LeaseAssumption DEF Gens
    <3> QED BY <1>0, <3>1, <3>2, <3>3
  <2>3. Running' = [Running EXCEPT ![s] = run]
    <3>1. process' = [process EXCEPT ![s] = [gen |-> gen, up |-> up]]
      BY <1>4 DEF Replaces, ReplaceProcess
    <3> QED BY <1>0, <3>1 DEF Running
  <2>4. agent' = [agent EXCEPT ![s] = [l \in Requests |-> AgentsContract!Over(@[l])]]
    BY <1>0, <1>4, FailsIsOver DEF Replaces, ReplaceProcess
  <2> HIDE DEF run
  <2>5. AgentsContract!Replace(s) BY <2>1, <2>2, <2>3, <2>4 DEF AgentsContract!Replace
  <2> QED BY <2>5 DEF AgentsContract!Step
<1>5. ASSUME NEW s \in Servers, AgentRestarts(s) PROVE AgentsContract!Step
  <2>1. Running' = [Running EXCEPT ![s] = 0] BY <1>0, <1>5 DEF AgentRestarts, Running
  <2>2. /\ \A l \in Requests : agent'[s][l].status = "absent"
        /\ \A t \in Servers \ {s} : agent'[t] = agent[t]
    BY <1>0, <1>5 DEF AgentRestarts, NoOp
  <2>3. AgentsContract!Restart(s) BY <2>1, <2>2 DEF AgentsContract!Restart
  <2> QED BY <2>3 DEF AgentsContract!Step
<1> QED BY <1>1, <1>2, <1>3, <1>4, <1>5 DEF AgentMoves

(* What an agent says is alive belongs to the process that is up, and no   *)
(* process comes up under a generation that an operation has had.          *)
THEOREM AgentsCurrentAlways == Spec => []AgentsCurrent
<1>1. Init => AgentsCurrent
  BY DEF Init, AgentsCurrent, CurrentOp, NoOp, Live
<1>2. LeaseInv /\ AgentsCurrent /\ [Next]_vars => AgentsCurrent'
  <2>1. LeaseInv /\ AgentsCurrent /\ Next => AgentsCurrent'
    BY StepMoves, CurrentStep DEF LeaseInv
  <2>2. AgentsCurrent /\ UNCHANGED vars => AgentsCurrent'
    BY DEF vars, AgentsCurrent, CurrentOp
  <2> QED BY <2>1, <2>2
<1> QED BY <1>1, <1>2, LeaseInvariant, PTL DEF Spec

(* The agents the broker talks to keep the contract that AgentSlots        *)
(* implements, although calls of any attempt and generation reach them     *)
(* late and their processes come and go: what is proved of the leases      *)
(* rests on nothing that the agent's registry does not do.                 *)
THEOREM AgentsContractKept == Spec => AgentsKeepContract
<1>1. Init => AgentsContract!Init
  BY DEF Init, AgentsContract!Init, NoOp, Running
<1>2. LeaseInv /\ AgentsCurrent /\ [Next]_vars => [AgentsContract!Next]_(AgentsContract!vars)
  <2>1. LeaseInv /\ AgentsCurrent /\ Next => [AgentsContract!Next]_(AgentsContract!vars)
    BY StepMoves, AgentsContractStep DEF LeaseInv
  <2>2. UNCHANGED vars => UNCHANGED AgentsContract!vars
    BY DEF vars, AgentsContract!vars, Running
  <2> QED BY <2>1, <2>2
<1> QED BY <1>1, <1>2, LeaseInvariant, AgentsCurrentAlways, PTL
        DEF Spec, AgentsKeepContract, AgentsContract!Spec

-------------------------------------------------------------------------------
(* What the contract is good for: whoever keeps it has these, too.         *)

(* The operations an agent is serving, and those it said were over.        *)
HeldBy(s) == {l \in Requests : Holds(s, l)}
SlotsSuffice == \A s \in Servers : Cardinality(HeldBy(s)) <= Capacity

(* What becomes of an end that was reported. *)
StaysOver(s, l) ==
    agent[s][l].status \in Ended =>
        \/ agent'[s][l] = agent[s][l] \/ agent'[s][l].status = "absent"
        \/ /\ agent[s][l].status = "cancelled" /\ ~agent[s][l].dispatched
           /\ agent'[s][l].status = "reserved"

(* One more operation fits where a slot is free, and fewer always do.      *)
LEMMA HeldFit ==
    ASSUME NEW s \in Servers, NEW l \in Requests, SlotsSuffice,
           \/ HeldBy(s)' \subseteq HeldBy(s)
           \/ AgentsContract!Free(s) /\ HeldBy(s)' \subseteq HeldBy(s) \union {l}
    PROVE  Cardinality(HeldBy(s)') <= Capacity
<1>1. /\ IsFiniteSet(HeldBy(s)) /\ Cardinality(HeldBy(s)) \in Nat
      /\ Cardinality(HeldBy(s)) <= Capacity /\ Capacity \in Nat
  BY LeaseAssumption, FS_Subset, FS_CardinalityType DEF HeldBy, SlotsSuffice
<1>2. CASE HeldBy(s)' \subseteq HeldBy(s)
  <2>1. Cardinality(HeldBy(s)') <= Cardinality(HeldBy(s)) /\ IsFiniteSet(HeldBy(s)')
    BY <1>1, <1>2, FS_Subset
  <2>2. Cardinality(HeldBy(s)') \in Nat BY <2>1, FS_CardinalityType
  <2> QED BY <1>1, <2>1, <2>2
<1>3. CASE AgentsContract!Free(s) /\ HeldBy(s)' \subseteq HeldBy(s) \union {l}
  <2>1. AgentsContract!Slots(s) = HeldBy(s)
    BY DEF AgentsContract!Slots, AgentsContract!Live, HeldBy, Holds
  <2>2. Cardinality(HeldBy(s)) < Capacity
    BY <1>3, <2>1 DEF AgentsContract!Free, AgentsContract!Cardinality, Cardinality
  <2> DEFINE more == HeldBy(s) \union {l}
  <2>3. IsFiniteSet(more) /\ Cardinality(more) <= Cardinality(HeldBy(s)) + 1
    BY <1>1, FS_AddElement
  <2>4. Cardinality(more) \in Nat BY <2>3, FS_CardinalityType
  <2>5. Cardinality(HeldBy(s)') <= Cardinality(more) /\ IsFiniteSet(HeldBy(s)')
    BY <1>3, <2>3, FS_Subset
  <2>6. Cardinality(HeldBy(s)') \in Nat BY <2>5, FS_CardinalityType
  <2> HIDE DEF more
  <2> QED BY <1>1, <2>2, <2>3, <2>4, <2>5, <2>6
<1> QED BY <1>2, <1>3

(* A step of the contract that changes one operation.                      *)
LEMMA ContractedOperation ==
    ASSUME TypeOK, NEW s \in Servers, NEW l \in Requests, SlotsSuffice,
           \/ AgentsContract!Reserve(s, l) \/ AgentsContract!Enlist(s, l)
           \/ AgentsContract!Admit(s, l) \/ AgentsContract!Dispatch(s, l)
           \/ AgentsContract!Cancel(s, l) \/ AgentsContract!End(s, l)
    PROVE  /\ SlotsSuffice'
           /\ \A t \in Servers, k \in Requests : StaysOver(t, k)
<1>0. /\ agent \in [Servers -> [Requests -> Operations]] /\ agent[s][l] \in Operations
  BY DEF TypeOK
<1>1. PICK new : agent' = [agent EXCEPT ![s][l] = new]
  BY DEF AgentsContract!Reserve, AgentsContract!Enlist, AgentsContract!Admit,
         AgentsContract!Dispatch, AgentsContract!Cancel, AgentsContract!End,
         AgentsContract!Becomes
<1>2. /\ agent'[s][l] = new
      /\ \A t \in Servers, k \in Requests : t # s \/ k # l => agent'[t][k] = agent[t][k]
  BY <1>0, <1>1
<1>3. \A t \in Servers \ {s} : HeldBy(t)' = HeldBy(t) BY <1>2 DEF HeldBy, Holds
<1>4. HeldBy(s)' \subseteq HeldBy(s) \union {l} BY <1>2 DEF HeldBy, Holds
<1>5. /\ \/ AgentsContract!Free(s)
         \/ agent'[s][l].status \in {"reserved", "active", "cancelling"} => Holds(s, l)
      /\ StaysOver(s, l)
  <2>1. CASE AgentsContract!Reserve(s, l)
    <3>1. agent'[s][l].status = "reserved"
      BY <1>0, <2>1 DEF AgentsContract!Reserve, AgentsContract!Becomes
    <3> QED BY <2>1, <3>1 DEF AgentsContract!Reserve, StaysOver, Ended
  <2>2. CASE AgentsContract!Enlist(s, l)
    <3>1. agent'[s][l].status = "queued" \/ AgentsContract!Free(s)
      BY <1>0, <2>2 DEF AgentsContract!Enlist, AgentsContract!Becomes
    <3> QED BY <2>2, <3>1 DEF AgentsContract!Enlist, StaysOver, Ended
  <2>3. CASE AgentsContract!Admit(s, l)
    BY <2>3 DEF AgentsContract!Admit, StaysOver, Ended
  <2>4. CASE AgentsContract!Dispatch(s, l) \/ AgentsContract!Cancel(s, l)
    <3>1. agent[s][l].status \in {"reserved", "active"}
      BY <2>4 DEF AgentsContract!Dispatch, AgentsContract!Cancel
    <3> QED BY <3>1 DEF Holds, StaysOver, Ended
  <2>5. CASE AgentsContract!End(s, l)
    <3>1. /\ agent'[s][l].status \in Ended
          /\ agent[s][l].status \in {"reserved", "queued", "active", "cancelling"}
      BY <1>0, <2>5 DEF AgentsContract!End, AgentsContract!Becomes, AgentsContract!Ended,
                        Ended, Operations
    <3> QED BY <3>1 DEF StaysOver, Ended
  <2> QED BY <2>1, <2>2, <2>3, <2>4, <2>5
<1>6. AgentsContract!Free(s) \/ HeldBy(s)' \subseteq HeldBy(s)
  BY <1>2, <1>5 DEF HeldBy, Holds
<1>7. Cardinality(HeldBy(s)') <= Capacity BY <1>4, <1>6, HeldFit
<1>8. SlotsSuffice' BY <1>3, <1>7 DEF SlotsSuffice
<1>9. \A t \in Servers, k \in Requests : StaysOver(t, k) BY <1>2, <1>5 DEF StaysOver
<1> QED BY <1>8, <1>9

(* A step of the contract that changes a process.                          *)
LEMMA ContractedProcess ==
    ASSUME TypeOK, NEW s \in Servers, SlotsSuffice,
           AgentsContract!Replace(s) \/ AgentsContract!Restart(s)
    PROVE  /\ SlotsSuffice'
           /\ \A t \in Servers, k \in Requests : StaysOver(t, k)
<1>0. agent \in [Servers -> [Requests -> Operations]] BY DEF TypeOK
<1>1. \A t \in Servers \ {s} : agent'[t] = agent[t]
  BY <1>0 DEF AgentsContract!Replace, AgentsContract!Restart
<1>2. \A k \in Requests : /\ StaysOver(s, k)
                          /\ agent'[s][k].status \notin {"reserved", "active", "cancelling"}
  <2> SUFFICES ASSUME NEW k \in Requests
               PROVE  /\ StaysOver(s, k)
                      /\ agent'[s][k].status \notin {"reserved", "active", "cancelling"}
    OBVIOUS
  <2>0. agent[s][k] \in Operations BY <1>0
  <2>1. CASE AgentsContract!Replace(s)
    <3>1. agent'[s][k] = AgentsContract!Over(agent[s][k])
      BY <1>0, <2>1 DEF AgentsContract!Replace
    <3>2. agent'[s][k] = Fails(agent[s][k]) /\ agent'[s][k].status \notin Live
      BY <2>0, <3>1, FailsIsOver
    <3> QED BY <3>2 DEF StaysOver, Fails, Live, Ended
  <2>2. CASE AgentsContract!Restart(s)
    BY <2>2 DEF AgentsContract!Restart, StaysOver
  <2> QED BY <2>1, <2>2
<1>3. \A t \in Servers \ {s} : HeldBy(t)' = HeldBy(t) BY <1>1 DEF HeldBy, Holds
<1>4. HeldBy(s)' = {} BY <1>2 DEF HeldBy, Holds
<1>5. Cardinality(HeldBy(s)') <= Capacity BY <1>4, FS_EmptySet, LeaseAssumption
<1>6. SlotsSuffice' BY <1>3, <1>5 DEF SlotsSuffice
<1>7. \A t \in Servers, k \in Requests : StaysOver(t, k) BY <1>1, <1>2 DEF StaysOver
<1> QED BY <1>6, <1>7

(* Every step of the contract keeps both.                                  *)
LEMMA ContractedStep ==
    ASSUME TypeOK, SlotsSuffice, [AgentsContract!Next]_(AgentsContract!vars)
    PROVE  /\ SlotsSuffice'
           /\ \A t \in Servers, k \in Requests : StaysOver(t, k)
<1>1. CASE UNCHANGED AgentsContract!vars
  <2>1. agent' = agent BY <1>1 DEF AgentsContract!vars
  <2> QED BY <2>1 DEF SlotsSuffice, HeldBy, Holds, StaysOver
<1>2. CASE AgentsContract!Next
  <2>1. AgentsContract!Step BY <1>2 DEF AgentsContract!Next
  <2> QED BY <2>1, ContractedOperation, ContractedProcess DEF AgentsContract!Step
<1> QED BY <1>1, <1>2

(* No process is ever given more operations than it has slots, however     *)
(* late a reservation, a cancellation or a dispatch reaches its agent and  *)
(* whatever the rows say of it meanwhile.                                  *)
THEOREM AgentsNeverOversubscribed == Spec => []SlotsSuffice
<1>1. Init => SlotsSuffice
  <2> SUFFICES ASSUME Init, NEW s \in Servers PROVE Cardinality(HeldBy(s)) <= Capacity
    BY DEF SlotsSuffice
  <2>1. HeldBy(s) = {} BY DEF Init, HeldBy, Holds, NoOp
  <2> QED BY <2>1, FS_EmptySet, LeaseAssumption
<1>2. TypeOK /\ SlotsSuffice /\ [AgentsContract!Next]_(AgentsContract!vars) => SlotsSuffice'
  BY ContractedStep
<1> QED BY <1>1, <1>2, TypeCorrect, AgentsContractKept, PTL
        DEF Spec, AgentsKeepContract, AgentsContract!Spec

(* What an agent has once said of the end of an operation it keeps saying  *)
(* until it restarts; only what was cancelled before any dispatch may be   *)
(* reserved again.  The verdicts of a reconciliation rest on it.           *)
THEOREM EndsAreFinal ==
    Spec => [][\A s \in Servers, l \in Requests :
                 agent[s][l].status \in Ended =>
                   \/ agent'[s][l] = agent[s][l] \/ agent'[s][l].status = "absent"
                   \/ /\ agent[s][l].status = "cancelled" /\ ~agent[s][l].dispatched
                      /\ agent'[s][l].status = "reserved"]_vars
<1>1. TypeOK /\ SlotsSuffice /\ [AgentsContract!Next]_(AgentsContract!vars)
      => [\A s \in Servers, l \in Requests :
            agent[s][l].status \in Ended =>
              \/ agent'[s][l] = agent[s][l] \/ agent'[s][l].status = "absent"
              \/ /\ agent[s][l].status = "cancelled" /\ ~agent[s][l].dispatched
                 /\ agent'[s][l].status = "reserved"]_vars
  BY ContractedStep DEF StaysOver
<1> QED BY <1>1, TypeCorrect, AgentsNeverOversubscribed, AgentsContractKept, PTL
        DEF AgentsKeepContract, AgentsContract!Spec

===============================================================================
