-------------------------- MODULE Benchmarks_proofs --------------------------
(***************************************************************************)
(* Theorems of Benchmarks, for any runs, workers, faults and bounds: its   *)
(* types, and that the first job of a run which was not given up runs      *)
(* under the gate, alone on the machine, without a request having been cut *)
(* that the idle check could see.  The inductive invariant is FullInv.     *)
(***************************************************************************)
EXTENDS Benchmarks, TLAPS

-------------------------------------------------------------------------------
(* Types *)

\* An executor that remembers a status remembers one it can act on.
Executions ==
    {e \in [at : Stages, of : RunStatus] :
        /\ e.at = "gate" => e.of \in Resumable
        /\ e.at = "result" => e.of \in Terminal}
Histories == [loose : SUBSET Runs, excused : BOOLEAN, again : SUBSET Runs, faults : 0 .. MaxFaults]

\* The gate is with the executors that are past it.
GateIsWithPast == \A w \in Workers, r \in Runs : <<w, r>> \in gate <=> exec[w][r].at \in Past

\* pg_try_advisory_lock lets one in.
OneHolder == \A g, h \in gate : g = h

\* A run that was not created has no executor.
NewIsNowhere == \A w \in Workers, r \in Runs : run[r] = "none" => exec[w][r].at = "none"

\* A handler at the agent is awaited by an executor that posts, or by nobody.
PostsAwaited ==
    \A p \in posts :
        IF p.to = Nobody THEN p.run \in history.loose ELSE exec[p.to][p.run].at = "posting"

\* What TypeOK says of the variables the executors share with nobody's place.
RestTypes ==
    /\ controls \subseteq Workers \X Runs
    /\ cut \in BOOLEAN
    /\ job \in [Runs -> Jobs]
    /\ events \in Seq(Runs \X (Terminal \union {"running"})) /\ Len(events) <= MaxEvents
    /\ server \in [row : {"stopped", "starting", "running", "error"}, up : BOOLEAN]
    /\ starter \in {"none", "checked", "waiting", "sent", "late"}
    /\ lease \in {"none", "reserving", "active"}
    /\ user \in Calls \union {NoCall}

\* And what it says of the executors, the gate, and what goes with them.
PlaceTypes ==
    /\ run \in [Runs -> RunStatus]
    /\ exec \in [Workers -> [Runs -> Executions]]
    /\ gate \subseteq Workers \X Runs
    /\ posts \subseteq [run : Runs, to : Workers \union {Nobody}]
    /\ history \in Histories

\* The parts the proofs go by say at least what TypeOK says.
LEMMA TypeParts == PlaceTypes /\ GateIsWithPast /\ RestTypes => TypeOK
BY DEF TypeOK, PlaceTypes, GateIsWithPast, RestTypes, Executions, Histories

\* The first part of the inductive invariant: who holds the gate, and who is waited for.
HoldersInv == PlaceTypes /\ GateIsWithPast /\ OneHolder /\ NewIsNowhere /\ PostsAwaited

\* What an executor does to the table of executors.
LEMMA Moved ==
    ASSUME NEW w \in Workers, NEW r \in Runs, exec \in [Workers -> [Runs -> Executions]],
           NEW stage, NEW status, [at |-> stage, of |-> status] \in Executions,
           GotoWith(w, r, stage, status)
    PROVE  /\ exec' \in [Workers -> [Runs -> Executions]]
           /\ exec'[w][r].at = stage /\ exec'[w][r].of = status
           /\ \A v \in Workers, q \in Runs : <<v, q>> # <<w, r>> => exec'[v][q] = exec[v][q]
<1> DEFINE e == [at |-> stage, of |-> status]
<1>1. e \in Executions OBVIOUS
<1>2. exec' = [exec EXCEPT ![w] = [exec[w] EXCEPT ![r] = e]] BY DEF GotoWith
<1>3. [exec[w] EXCEPT ![r] = e] \in [Runs -> Executions] BY <1>1
<1> HIDE DEF e
<1>4. exec'[w][r] = e BY <1>2
<1>5. exec' \in [Workers -> [Runs -> Executions]] BY <1>2, <1>3
<1>6. \A v \in Workers, q \in Runs : <<v, q>> # <<w, r>> => exec'[v][q] = exec[v][q] BY <1>2
<1> QED BY <1>4, <1>5, <1>6 DEF e

\* The same for a stage without a status to remember.
LEMMA MovedTo ==
    ASSUME NEW w \in Workers, NEW r \in Runs, exec \in [Workers -> [Runs -> Executions]],
           NEW stage \in Stages \ {"gate", "result"}, Goto(w, r, stage)
    PROVE  /\ exec' \in [Workers -> [Runs -> Executions]]
           /\ exec'[w][r].at = stage /\ exec'[w][r].of = "none"
           /\ \A v \in Workers, q \in Runs : <<v, q>> # <<w, r>> => exec'[v][q] = exec[v][q]
BY Moved, [at |-> stage, of |-> "none"] \in Executions
   DEF Goto, GotoWith, At, Executions, RunStatus, Missing

\* A status is written, or there is no row.
LEMMA RunWritten ==
    ASSUME run \in [Runs -> RunStatus], NEW r \in Runs, NEW status \in RunStatus, SetRun(r, status)
    PROVE  /\ run' \in [Runs -> RunStatus]
           /\ run'[r] = IF run[r] \in Missing THEN run[r] ELSE status
           /\ \A q \in Runs \ {r} : run'[q] = run[q]
BY DEF SetRun, Written

-------------------------------------------------------------------------------
(* Who holds the gate *)

\* A step of an executor that neither gets nor returns the gate, nor posts.
LEMMA PlainMove ==
    ASSUME HoldersInv, NEW w \in Workers, NEW r \in Runs,
           NEW stage, NEW status, [at |-> stage, of |-> status] \in Executions,
           GotoWith(w, r, stage, status),
           exec[w][r].at # "posting", stage \in Past <=> exec[w][r].at \in Past,
           run' \in [Runs -> RunStatus], \A q \in Runs : run'[q] = "none" => run[q] = "none",
           run'[r] # "none" \/ stage = "none",
           history' \in Histories, history.loose \subseteq history'.loose,
           UNCHANGED <<gate, posts>>
    PROVE  HoldersInv'
<1> USE DEF HoldersInv
<1>1. /\ exec' \in [Workers -> [Runs -> Executions]]
      /\ exec'[w][r].at = stage
      /\ \A v \in Workers, q \in Runs : <<v, q>> # <<w, r>> => exec'[v][q] = exec[v][q]
  BY Moved DEF PlaceTypes
<1>2. PlaceTypes' BY <1>1 DEF PlaceTypes
<1>3. GateIsWithPast' BY <1>1 DEF GateIsWithPast
<1>4. OneHolder' BY DEF OneHolder
<1>5. NewIsNowhere' BY <1>1 DEF NewIsNowhere
<1>6. PostsAwaited'
  <2> SUFFICES ASSUME NEW p \in posts
               PROVE  IF p.to = Nobody THEN p.run \in history'.loose
                      ELSE exec'[p.to][p.run].at = "posting"
    BY DEF PostsAwaited
  <2>1. p.run \in Runs /\ p.to \in Workers \union {Nobody} BY DEF PlaceTypes
  <2>2. CASE p.to = Nobody BY <2>2 DEF PostsAwaited
  <2>3. CASE p.to # Nobody
    <3>1. exec[p.to][p.run].at = "posting" /\ p.to \in Workers BY <2>1, <2>3 DEF PostsAwaited
    <3>2. <<p.to, p.run>> # <<w, r>> BY <3>1
    <3> QED BY <1>1, <2>1, <2>3, <3>1, <3>2
  <2> QED BY <2>2, <2>3
<1> QED BY <1>2, <1>3, <1>4, <1>5, <1>6

\* The same, where the run has an executor.
LEMMA ExecutorMove ==
    ASSUME HoldersInv, NEW w \in Workers, NEW r \in Runs,
           NEW stage, NEW status, [at |-> stage, of |-> status] \in Executions,
           GotoWith(w, r, stage, status),
           exec[w][r].at \notin {"none", "posting"}, stage \in Past <=> exec[w][r].at \in Past,
           UNCHANGED run \/ \E written \in RunStatus \ {"none"} : SetRun(r, written),
           history' \in Histories, history.loose \subseteq history'.loose,
           UNCHANGED <<gate, posts>>
    PROVE  HoldersInv'
<1>1. run \in [Runs -> RunStatus] BY DEF HoldersInv, PlaceTypes
<1>2. run[r] # "none" BY DEF HoldersInv, NewIsNowhere
<1>3. run' \in [Runs -> RunStatus] /\ \A q \in Runs : run'[q] = "none" => run[q] = "none"
  <2>1. CASE UNCHANGED run BY <1>1, <2>1
  <2>2. CASE \E written \in RunStatus \ {"none"} : SetRun(r, written)
    <3>1. PICK written \in RunStatus \ {"none"} : SetRun(r, written) BY <2>2
    <3>2. run' \in [Runs -> RunStatus] BY <1>1, <3>1, RunWritten
    <3>3. ASSUME NEW q \in Runs, run'[q] = "none" PROVE run[q] = "none"
      <4>1. CASE q # r BY <1>1, <3>1, <3>3, <4>1, RunWritten
      <4>2. CASE q = r /\ run[r] \in Missing BY <1>1, <3>1, <3>3, <4>2, RunWritten
      <4>3. CASE q = r /\ run[r] \notin Missing
        BY <1>1, <3>1, <3>3, <4>3 DEF SetRun, Written
      <4> QED BY <4>1, <4>2, <4>3
    <3> QED BY <3>2, <3>3
  <2> QED BY <2>1, <2>2
<1>4. run'[r] # "none" BY <1>2, <1>3
<1> QED BY <1>3, <1>4, PlainMove

\* The moves of an executor between getting the gate and returning it, and before it.
PlainExecutor(w, r) ==
    \/ Claim(w, r) \/ Requeue(w, r)
    \/ IdleCheck(w, r) \/ IdleDeadline(w, r) \/ Decide(w, r) \/ NotIdle(w, r)
    \/ Abandon(w, r) \/ MarkStopping(w, r) \/ ReadServers(w, r) \/ StopServers(w, r)
    \/ Posted(w, r) \/ Monitor(w, r) \/ WriteResult(w, r) \/ RecordFailure(w, r)

\* None of these moves touches the gate or a post.
LEMMA PlainExecutorHolds ==
    ASSUME HoldersInv, RestTypes, NEW w \in Workers, NEW r \in Runs, PlainExecutor(w, r)
    PROVE  HoldersInv'
<1>0. history \in Histories /\ exec[w][r] \in Executions /\ run[r] \in RunStatus
  BY DEF HoldersInv, PlaceTypes
<1>j. job[r] \in Jobs BY DEF RestTypes
<1>n. ASSUME NEW stage \in Stages \ {"gate", "result"}
      PROVE  [at |-> stage, of |-> "none"] \in Executions
  BY DEF Executions, RunStatus, Missing
<1>g. ASSUME NEW stage, Goto(w, r, stage) PROVE GotoWith(w, r, stage, "none")
  BY <1>g DEF Goto, GotoWith, At
<1>1. CASE Claim(w, r)
  <2>1. exec[w][r].at = "claim" /\ UNCHANGED <<gate, posts, history>>
    BY <1>1 DEF Claim, bench
  <2>2. CASE SetRun(r, "waiting_for_idle") /\ GotoWith(w, r, "gate", "waiting_for_idle")
    BY <1>0, <2>1, <2>2, ExecutorMove DEF Stages, Past, RunStatus, Active, Executions, Resumable
  <2>3. CASE run[r] \in Resumable /\ GotoWith(w, r, "gate", run[r]) /\ UNCHANGED run
    BY <1>0, <2>1, <2>3, ExecutorMove DEF Stages, Past, Executions, Resumable
  <2>4. CASE Goto(w, r, "none") /\ UNCHANGED run
    BY <1>0, <1>g, <1>n, <2>1, <2>4, ExecutorMove DEF Stages, Past
  <2> QED BY <1>1, <2>2, <2>3, <2>4 DEF Claim
<1>2. CASE Requeue(w, r)
  BY <1>0, <1>g, <1>n, <1>2, ExecutorMove DEF Requeue, bench, Stages, Past, RunStatus
<1>3. CASE IdleCheck(w, r)
  <2>1. exec[w][r].at = "idle" /\ UNCHANGED <<run, gate, posts>> BY <1>3 DEF IdleCheck, bench
  <2>2. history' \in Histories /\ history.loose \subseteq history'.loose
    BY <1>0, <1>3 DEF IdleCheck, Histories
  <2>3. PICK stage \in {"notidle", "mark", "deadline"} : Goto(w, r, stage)
    BY <1>3 DEF IdleCheck
  <2> QED BY <1>g, <1>n, <2>1, <2>2, <2>3, ExecutorMove DEF Stages, Past
<1>4. CASE IdleDeadline(w, r)
  BY <1>0, <1>g, <1>n, <1>4, ExecutorMove DEF IdleDeadline, bench, Stages, Past, RunStatus, Active
<1>5. CASE Decide(w, r)
  BY <1>0, <1>g, <1>n, <1>5, ExecutorMove DEF Decide, bench, Stages, Past
<1>6. CASE NotIdle(w, r)
  BY <1>0, <1>g, <1>n, <1>6, ExecutorMove DEF NotIdle, bench, Stages, Past
<1>7. CASE Abandon(w, r)
  BY <1>0, <1>g, <1>n, <1>7, ExecutorMove DEF Abandon, bench, Stages, Past, RunStatus
<1>8. CASE MarkStopping(w, r)
  BY <1>0, <1>g, <1>n, <1>8, ExecutorMove DEF MarkStopping, bench, Stages, Past, RunStatus, Active
<1>9. CASE ReadServers(w, r)
  BY <1>0, <1>g, <1>n, <1>9, ExecutorMove DEF ReadServers, bench, Stages, Past
<1>10. CASE StopServers(w, r)
  <2>1. exec[w][r].at = "stop" /\ UNCHANGED <<run, gate, posts>> BY <1>10 DEF StopServers, bench
  <2>2. history' \in Histories /\ history.loose \subseteq history'.loose
    BY <1>0, <1>10, BenchmarkAssumption DEF StopServers, Trouble, Histories
  <2>3. PICK stage \in {"post", "failing"} : Goto(w, r, stage) BY <1>10 DEF StopServers
  <2> QED BY <1>g, <1>n, <2>1, <2>2, <2>3, ExecutorMove DEF Stages, Past
<1>11. CASE Posted(w, r)
  BY <1>0, <1>g, <1>n, <1>11, ExecutorMove DEF Posted, bench, Stages, Past, RunStatus, Active
<1>12. CASE Monitor(w, r)
  <2>1. exec[w][r].at = "monitor" /\ UNCHANGED <<run, gate, posts, history>>
    BY <1>12 DEF Monitor, bench
  <2>2. CASE Goto(w, r, "leave")
    BY <1>0, <1>g, <1>n, <2>1, <2>2, ExecutorMove DEF Stages, Past
  <2>3. CASE job[r] \in Terminal /\ GotoWith(w, r, "result", job[r])
    BY <1>0, <2>1, <2>3, ExecutorMove DEF Stages, Past, RunStatus, Executions
  <2> QED BY <1>12, <2>2, <2>3 DEF Monitor
<1>13. CASE WriteResult(w, r)
  BY ZenonT(30), <1>0, <1>g, <1>n, <1>13, ExecutorMove
     DEF WriteResult, bench, Stages, Past, Executions, RunStatus, Terminal
<1>14. CASE RecordFailure(w, r)
  BY <1>0, <1>g, <1>n, <1>14, ExecutorMove DEF RecordFailure, bench, Stages, Past, RunStatus, Terminal
<1> QED BY <1>1, <1>2, <1>3, <1>4, <1>5, <1>6, <1>7, <1>8, <1>9, <1>10, <1>11, <1>12, <1>13, <1>14
    DEF PlainExecutor

\* One more fault, and runs whose executor is gone.
LEMMA HistoryGrows ==
    ASSUME history \in Histories, history.faults < MaxFaults, NEW more \in SUBSET Runs,
           history' = [history EXCEPT !.faults = @ + 1, !.loose = @ \union more]
    PROVE  /\ history' \in Histories
           /\ history.loose \subseteq history'.loose /\ more \subseteq history'.loose
<1>1. history.faults + 1 \in 0 .. MaxFaults BY BenchmarkAssumption DEF Histories
<1>2. history.loose \union more \in SUBSET Runs BY DEF Histories
<1>3. history' = [loose |-> history.loose \union more, excused |-> history.excused,
                 again |-> history.again, faults |-> history.faults + 1]
  BY DEF Histories
<1> QED BY <1>1, <1>2, <1>3 DEF Histories

\* An executor that gets the gate, or gives up on it.
LEMMA TryGateHolds ==
    ASSUME HoldersInv, NEW w \in Workers, NEW r \in Runs, TryGate(w, r) \/ SourceGone(w, r)
    PROVE  HoldersInv'
<1>0. /\ history \in Histories /\ exec[w][r] \in Executions /\ run[r] \in RunStatus
      /\ exec[w][r].at = "gate" /\ exec[w][r].of \in Resumable /\ UNCHANGED <<run, posts>>
  BY DEF HoldersInv, PlaceTypes, TryGate, SourceGone, bench, Executions
<1>1. history' \in Histories /\ history.loose \subseteq history'.loose
  <2>1. CASE TryGate(w, r) BY <1>0, <2>1 DEF TryGate, Histories
  <2>2. CASE SourceGone(w, r)
    <3>1. Loose(r) \subseteq Runs BY DEF Loose
    <3> QED BY <1>0, <2>2, <3>1, HistoryGrows DEF SourceGone
  <2> QED BY <2>1, <2>2
<1>2. CASE UNCHANGED gate /\ \E stage \in {"requeue", "none"} : Goto(w, r, stage)
  <2>1. PICK stage \in {"requeue", "none"} : Goto(w, r, stage) BY <1>2
  <2>2. [at |-> stage, of |-> "none"] \in Executions BY DEF Executions, Stages, RunStatus, Missing
  <2>3. GotoWith(w, r, stage, "none") BY <2>1 DEF Goto, GotoWith, At
  <2> QED BY <1>0, <1>1, <1>2, <2>2, <2>3, ExecutorMove DEF Past
<1>3. CASE /\ GateIsFree /\ gate' = {<<w, r>>}
           /\ \E stage \in {"leave", "monitor", "idle", "read", "failing"} : Goto(w, r, stage)
  <2>1. PICK stage \in {"leave", "monitor", "idle", "read", "failing"} : Goto(w, r, stage) BY <1>3
  <2>2. /\ exec' \in [Workers -> [Runs -> Executions]]
        /\ exec'[w][r].at = stage
        /\ \A v \in Workers, q \in Runs : <<v, q>> # <<w, r>> => exec'[v][q] = exec[v][q]
    BY <2>1, MovedTo DEF HoldersInv, PlaceTypes, Stages, Past
  <2>3. stage \in Past BY DEF Past
  <2>4. gate = {} BY <1>3 DEF GateIsFree
  <2>5. PlaceTypes' BY <1>0, <1>1, <1>3, <2>2 DEF HoldersInv, PlaceTypes
  <2>6. GateIsWithPast' BY <1>3, <2>2, <2>3, <2>4 DEF HoldersInv, GateIsWithPast
  <2>7. OneHolder' BY <1>3 DEF OneHolder
  <2>8. NewIsNowhere'
    <3>1. run[r] # "none" BY <1>0 DEF HoldersInv, NewIsNowhere
    <3> QED BY <1>0, <2>2, <3>1 DEF HoldersInv, NewIsNowhere
  <2>9. PostsAwaited'
    <3> SUFFICES ASSUME NEW p \in posts
                 PROVE  IF p.to = Nobody THEN p.run \in history'.loose
                        ELSE exec'[p.to][p.run].at = "posting"
      BY <1>0 DEF PostsAwaited
    <3>1. p.run \in Runs /\ p.to \in Workers \union {Nobody} BY DEF HoldersInv, PlaceTypes
    <3>2. CASE p.to = Nobody BY <1>1, <3>2 DEF HoldersInv, PostsAwaited
    <3>3. CASE p.to # Nobody
      <4>1. exec[p.to][p.run].at = "posting" /\ p.to \in Workers
        BY <3>1, <3>3 DEF HoldersInv, PostsAwaited
      <4>2. <<p.to, p.run>> # <<w, r>> BY <1>0, <4>1
      <4> QED BY <2>2, <3>1, <3>3, <4>1, <4>2
    <3> QED BY <3>2, <3>3
  <2> QED BY <2>5, <2>6, <2>7, <2>8, <2>9 DEF HoldersInv
<1>4. CASE TryGate(w, r)
  <2>1. CASE GateIsFree
    <3>1. Resumed(r, exec[w][r].of) \in {"leave", "monitor", "idle", "read"}
      BY <1>0 DEF Resumed, Resumable
    <3> QED BY <1>3, <1>4, <2>1, <3>1 DEF TryGate
  <2>2. CASE ~GateIsFree
    <3>1. (IF exec[w][r].of = "waiting_for_idle" THEN "requeue" ELSE "none") \in {"requeue", "none"}
      OBVIOUS
    <3> QED BY <1>2, <1>4, <2>2, <3>1 DEF TryGate
  <2> QED BY <2>1, <2>2
<1>5. CASE SourceGone(w, r) BY <1>3, <1>5 DEF SourceGone
<1> QED BY <1>4, <1>5

\* An executor that returns the gate.
LEMMA LeaveHolds ==
    ASSUME HoldersInv, NEW w \in Workers, NEW r \in Runs, Leave(w, r)
    PROVE  HoldersInv'
<1>1. exec[w][r].at = "leave" /\ gate' = {} /\ UNCHANGED <<run, posts, history>> /\ Goto(w, r, "none")
  BY DEF Leave, bench
<1>2. /\ exec' \in [Workers -> [Runs -> Executions]]
      /\ exec'[w][r].at = "none"
      /\ \A v \in Workers, q \in Runs : <<v, q>> # <<w, r>> => exec'[v][q] = exec[v][q]
  BY <1>1, MovedTo DEF HoldersInv, PlaceTypes, Stages
<1>3. <<w, r>> \in gate BY <1>1 DEF HoldersInv, GateIsWithPast, Past
<1>4. PlaceTypes' BY <1>1, <1>2 DEF HoldersInv, PlaceTypes
<1>5. GateIsWithPast'
  <2> SUFFICES ASSUME NEW v \in Workers, NEW q \in Runs PROVE exec'[v][q].at \notin Past
    BY <1>1 DEF GateIsWithPast
  <2>1. CASE <<v, q>> = <<w, r>> BY <1>2, <2>1 DEF Past
  <2>2. CASE <<v, q>> # <<w, r>>
    <3>1. <<v, q>> \notin gate BY <1>3, <2>2 DEF HoldersInv, OneHolder
    <3> QED BY <1>2, <2>2, <3>1 DEF HoldersInv, GateIsWithPast
  <2> QED BY <2>1, <2>2
<1>6. OneHolder' BY <1>1 DEF OneHolder
<1>7. NewIsNowhere' BY <1>1, <1>2 DEF HoldersInv, NewIsNowhere
<1>8. PostsAwaited'
  <2> SUFFICES ASSUME NEW p \in posts
               PROVE  IF p.to = Nobody THEN p.run \in history.loose
                      ELSE exec'[p.to][p.run].at = "posting"
    BY <1>1 DEF PostsAwaited
  <2>1. p.run \in Runs /\ p.to \in Workers \union {Nobody} BY DEF HoldersInv, PlaceTypes
  <2>2. CASE p.to = Nobody BY <2>2 DEF HoldersInv, PostsAwaited
  <2>3. CASE p.to # Nobody
    <3>1. exec[p.to][p.run].at = "posting" /\ p.to \in Workers
      BY <2>1, <2>3 DEF HoldersInv, PostsAwaited
    <3>2. <<p.to, p.run>> # <<w, r>> BY <1>1, <3>1
    <3> QED BY <1>2, <2>1, <2>3, <3>1, <3>2
  <2> QED BY <2>2, <2>3
<1> QED BY <1>4, <1>5, <1>6, <1>7, <1>8 DEF HoldersInv

\* An executor posts its job, or gives up on the answer.
LEMMA PostHolds ==
    ASSUME HoldersInv, NEW w \in Workers, NEW r \in Runs, Post(w, r) \/ PostGivesUp(w, r)
    PROVE  HoldersInv'
<1> DEFINE mine == [run |-> r, to |-> w]
           orphan == [run |-> r, to |-> Nobody]
<1>0. /\ run \in [Runs -> RunStatus] /\ exec \in [Workers -> [Runs -> Executions]]
      /\ history \in Histories /\ posts \subseteq [run : Runs, to : Workers \union {Nobody}]
      /\ exec[w][r].at \in {"post", "posting"} /\ UNCHANGED <<run, gate>>
      /\ w # Nobody
  BY NobodyAssumption DEF HoldersInv, PlaceTypes, Post, PostGivesUp
<1>1. PICK stage \in {"posting", "failing"} : Goto(w, r, stage) BY DEF Post, PostGivesUp
<1>2. /\ exec' \in [Workers -> [Runs -> Executions]]
      /\ exec'[w][r].at = stage
      /\ \A v \in Workers, q \in Runs : <<v, q>> # <<w, r>> => exec'[v][q] = exec[v][q]
  BY <1>0, <1>1, MovedTo DEF Stages, Past
<1>3. GateIsWithPast' BY <1>0, <1>2 DEF HoldersInv, GateIsWithPast, Past
<1>4. OneHolder' BY <1>0 DEF HoldersInv, OneHolder
<1>5. NewIsNowhere'
  <2>1. run[r] # "none" BY <1>0 DEF HoldersInv, NewIsNowhere
  <2> QED BY <1>0, <1>2, <2>1 DEF HoldersInv, NewIsNowhere
<1>6. CASE Post(w, r)
  <2>1. posts' = posts \union {mine} /\ history' = history /\ exec[w][r].at = "post"
        /\ exec'[w][r].at = "posting"
    BY <1>2, <1>6, <1>0 DEF Post, Goto, At, HoldersInv, PlaceTypes
  <2>2. mine \in [run : Runs, to : Workers \union {Nobody}] OBVIOUS
  <2>3. PlaceTypes' BY <1>0, <1>2, <2>1, <2>2 DEF PlaceTypes, HoldersInv
  <2>4. PostsAwaited'
    <3> SUFFICES ASSUME NEW p \in posts \union {mine}
                 PROVE  IF p.to = Nobody THEN p.run \in history.loose
                        ELSE exec'[p.to][p.run].at = "posting"
      BY <2>1 DEF PostsAwaited
    <3>1. CASE p = mine BY <1>0, <2>1, <3>1
    <3>2. CASE p \in posts
      <4>1. p.run \in Runs /\ p.to \in Workers \union {Nobody} BY <1>0, <3>2
      <4>2. CASE p.to = Nobody BY <3>2, <4>2 DEF HoldersInv, PostsAwaited
      <4>3. CASE p.to # Nobody
        <5>1. exec[p.to][p.run].at = "posting" /\ p.to \in Workers
          BY <3>2, <4>1, <4>3 DEF HoldersInv, PostsAwaited
        <5>2. <<p.to, p.run>> # <<w, r>> BY <2>1, <5>1
        <5> QED BY <1>2, <4>1, <4>3, <5>1, <5>2
      <4> QED BY <4>2, <4>3
    <3> QED BY <3>1, <3>2
  <2> QED BY <1>3, <1>4, <1>5, <2>3, <2>4 DEF HoldersInv
<1>7. CASE PostGivesUp(w, r)
  <2>1. posts' = (posts \ {mine}) \union {orphan} BY <1>7 DEF PostGivesUp
  <2>2. history' \in Histories /\ history.loose \subseteq history'.loose /\ r \in history'.loose
    <3>1. {r} \in SUBSET Runs OBVIOUS
    <3> QED BY <1>0, <1>7, <3>1, HistoryGrows DEF PostGivesUp
  <2>3. orphan \in [run : Runs, to : Workers \union {Nobody}] OBVIOUS
  <2>4. PlaceTypes' BY <1>0, <1>2, <2>1, <2>2, <2>3 DEF PlaceTypes, HoldersInv
  <2>5. PostsAwaited'
    <3> SUFFICES ASSUME NEW p \in (posts \ {mine}) \union {orphan}
                 PROVE  IF p.to = Nobody THEN p.run \in history'.loose
                        ELSE exec'[p.to][p.run].at = "posting"
      BY <2>1 DEF PostsAwaited
    <3>1. CASE p = orphan BY <2>2, <3>1
    <3>2. CASE p \in posts \ {mine}
      <4>1. p \in [run : Runs, to : Workers \union {Nobody}] BY <1>0, <3>2
      <4>2. CASE p.to = Nobody BY <2>2, <3>2, <4>2 DEF HoldersInv, PostsAwaited
      <4>3. CASE p.to # Nobody
        <5>1. exec[p.to][p.run].at = "posting" /\ p.to \in Workers
          BY <3>2, <4>1, <4>3 DEF HoldersInv, PostsAwaited
        <5>2. <<p.to, p.run>> # <<w, r>> BY <3>2, <4>1
        <5> QED BY <1>2, <4>1, <4>3, <5>1, <5>2
      <4> QED BY <4>2, <4>3
    <3> QED BY <3>1, <3>2
  <2> QED BY <1>3, <1>4, <1>5, <2>4, <2>5 DEF HoldersInv
<1> QED BY <1>6, <1>7

\* The agent takes a job, or fails the call.
LEMMA StartJobHolds ==
    ASSUME HoldersInv, NEW p \in posts, StartJob(p)
    PROVE  HoldersInv'
<1>0. /\ run \in [Runs -> RunStatus] /\ exec \in [Workers -> [Runs -> Executions]]
      /\ history \in Histories /\ posts \subseteq [run : Runs, to : Workers \union {Nobody}]
      /\ UNCHANGED <<run, gate>> /\ posts' = posts \ {p} /\ p.run \in Runs
  BY DEF HoldersInv, PlaceTypes, StartJob
<1>1. history' \in Histories /\ history'.loose = history.loose
  <2>1. CASE history' = history BY <1>0, <2>1
  <2>2. CASE history' = [history EXCEPT !.again = @ \union {p.run}]
    <3>1. history.again \union {p.run} \in SUBSET Runs BY <1>0 DEF Histories
    <3> QED BY <1>0, <2>2, <3>1 DEF Histories
  <2> QED BY <2>1, <2>2 DEF StartJob
<1>2. /\ exec' \in [Workers -> [Runs -> Executions]]
      /\ \A v \in Workers, q \in Runs : <<v, q>> # <<p.to, p.run>> => exec'[v][q] = exec[v][q]
      /\ p.to # Nobody => exec'[p.to][p.run].at \in {"failing", "posted"}
  <2>1. CASE p.to = Nobody
    <3>1. exec' = exec BY <2>1 DEF StartJob
    <3> QED BY <1>0, <2>1, <3>1
  <2>2. CASE p.to # Nobody
    <3>1. p.to \in Workers BY <1>0, <2>2
    <3>2. PICK stage \in {"failing", "posted"} : Goto(p.to, p.run, stage)
      BY <2>2 DEF StartJob, Goto
    <3> QED BY <1>0, <3>1, <3>2, MovedTo DEF Stages, Past
  <2> QED BY <2>1, <2>2
<1>3. p.to # Nobody => p.to \in Workers /\ exec[p.to][p.run].at = "posting"
  BY <1>0 DEF HoldersInv, PostsAwaited
<1>4. PlaceTypes' BY <1>0, <1>1, <1>2 DEF HoldersInv, PlaceTypes
<1>5. ASSUME NEW v \in Workers, NEW q \in Runs
      PROVE  /\ exec'[v][q].at \in Past <=> exec[v][q].at \in Past
             /\ exec[v][q].at = "none" => exec'[v][q].at = "none"
  <2>1. CASE <<v, q>> = <<p.to, p.run>> BY <1>2, <1>3, <2>1, NobodyAssumption DEF Past
  <2>2. CASE <<v, q>> # <<p.to, p.run>> BY <1>2, <2>2
  <2> QED BY <2>1, <2>2
<1>6. GateIsWithPast' BY <1>0, <1>5 DEF HoldersInv, GateIsWithPast
<1>7. OneHolder' BY <1>0 DEF HoldersInv, OneHolder
<1>8. NewIsNowhere' BY <1>0, <1>5 DEF HoldersInv, NewIsNowhere
<1>9. PostsAwaited'
  <2> SUFFICES ASSUME NEW o \in posts \ {p}
               PROVE  IF o.to = Nobody THEN o.run \in history'.loose
                      ELSE exec'[o.to][o.run].at = "posting"
    BY <1>0 DEF PostsAwaited
  <2>1. o \in [run : Runs, to : Workers \union {Nobody}] BY <1>0
  <2>2. CASE o.to = Nobody BY <1>1, <2>2 DEF HoldersInv, PostsAwaited
  <2>3. CASE o.to # Nobody
    <3>1. exec[o.to][o.run].at = "posting" /\ o.to \in Workers
      BY <2>1, <2>3 DEF HoldersInv, PostsAwaited
    <3>2. <<o.to, o.run>> # <<p.to, p.run>>
      <4>1. p \in [run : Runs, to : Workers \union {Nobody}] BY <1>0
      <4> QED BY <2>1, <4>1
    <3> QED BY <1>2, <2>1, <2>3, <3>1, <3>2
  <2> QED BY <2>2, <2>3
<1> QED BY <1>4, <1>6, <1>7, <1>8, <1>9 DEF HoldersInv

\* A worker is gone, and with it its executors and their hold of the gate.
LEMMA CrashHolds ==
    ASSUME HoldersInv, NEW w \in Workers, CrashWorker(w)
    PROVE  HoldersInv'
<1> DEFINE nowhere == [r \in Runs |-> At("none")]
           left(p) == IF p.to = w THEN [p EXCEPT !.to = Nobody] ELSE p
           lost == UNION {Loose(h[2]) : h \in gate \ gate'}
<1>0. /\ run \in [Runs -> RunStatus] /\ exec \in [Workers -> [Runs -> Executions]]
      /\ history \in Histories /\ posts \subseteq [run : Runs, to : Workers \union {Nobody}]
      /\ gate \subseteq Workers \X Runs
      /\ UNCHANGED run /\ gate' = {h \in gate : h[1] # w}
      /\ posts' = {left(p) : p \in posts}
      /\ exec' = [exec EXCEPT ![w] = nowhere]
  BY DEF HoldersInv, PlaceTypes, CrashWorker
<1>1. /\ exec' \in [Workers -> [Runs -> Executions]]
      /\ \A v \in Workers, q \in Runs :
            /\ v # w => exec'[v][q] = exec[v][q]
            /\ v = w => exec'[v][q].at = "none"
  <2>1. At("none") \in Executions BY DEF At, Executions, Stages, RunStatus, Missing
  <2>2. nowhere \in [Runs -> Executions] BY <2>1
  <2>3. \A q \in Runs : nowhere[q].at = "none" BY DEF At
  <2> HIDE DEF nowhere
  <2> QED BY <1>0, <2>2, <2>3
<1>2. lost \subseteq Runs
  <2> SUFFICES ASSUME NEW h \in gate PROVE Loose(h[2]) \subseteq Runs BY <1>0
  <2>1. h[2] \in Runs BY <1>0
  <2> QED BY <2>1 DEF Loose
<1>3. history' \in Histories /\ history.loose \subseteq history'.loose /\ lost \subseteq history'.loose
  <2>1. history.faults < MaxFaults
        /\ history' = [history EXCEPT !.faults = @ + 1, !.loose = @ \union lost]
    BY DEF CrashWorker
  <2>2. lost \in SUBSET Runs BY <1>2
  <2> HIDE DEF lost
  <2> QED BY <1>0, <2>1, <2>2, HistoryGrows
<1>4. \A p \in posts : left(p) \in [run : Runs, to : Workers \union {Nobody}] BY <1>0
<1>5. PlaceTypes' BY <1>0, <1>1, <1>3, <1>4 DEF PlaceTypes
<1>6. GateIsWithPast'
  <2> SUFFICES ASSUME NEW v \in Workers, NEW q \in Runs
               PROVE  <<v, q>> \in gate' <=> exec'[v][q].at \in Past
    BY DEF GateIsWithPast
  <2>1. CASE v = w BY <1>0, <1>1, <2>1 DEF Past
  <2>2. CASE v # w
    <3>1. <<v, q>> \in gate' <=> <<v, q>> \in gate BY <1>0, <2>2
    <3> QED BY <1>1, <2>2, <3>1 DEF HoldersInv, GateIsWithPast
  <2> QED BY <2>1, <2>2
<1>7. OneHolder' BY <1>0 DEF HoldersInv, OneHolder
<1>8. NewIsNowhere' BY <1>0, <1>1 DEF HoldersInv, NewIsNowhere
<1>9. PostsAwaited'
  <2> SUFFICES ASSUME NEW p \in posts
               PROVE  IF left(p).to = Nobody THEN left(p).run \in history'.loose
                      ELSE exec'[left(p).to][left(p).run].at = "posting"
    BY <1>0 DEF PostsAwaited
  <2>1. p \in [run : Runs, to : Workers \union {Nobody}] /\ left(p).run = p.run BY <1>0
  <2>2. CASE p.to = Nobody
    BY <1>3, <2>1, <2>2, NobodyAssumption DEF HoldersInv, PostsAwaited
  <2>3. CASE p.to = w
    <3>1. exec[w][p.run].at = "posting" BY <2>3, NobodyAssumption DEF HoldersInv, PostsAwaited
    <3>2. <<w, p.run>> \in gate BY <2>1, <3>1 DEF HoldersInv, GateIsWithPast, Past
    <3>3. <<w, p.run>> \notin gate' BY <1>0
    <3>4. p.run \in Loose(p.run) BY DEF Loose
    <3>5. p.run \in lost
      <4>1. Loose(<<w, p.run>>[2]) \in {Loose(h[2]) : h \in gate \ gate'} BY <3>2, <3>3
      <4> QED BY <3>4, <4>1
    <3> QED BY <1>3, <2>1, <2>3, <3>5
  <2>4. CASE p.to \in Workers \ {w}
    <3>1. exec[p.to][p.run].at = "posting" BY <2>4, NobodyAssumption DEF HoldersInv, PostsAwaited
    <3> QED BY <1>1, <2>1, <2>4, <3>1, NobodyAssumption
  <2> QED BY <2>1, <2>2, <2>3, <2>4
<1> QED BY <1>5, <1>6, <1>7, <1>8, <1>9 DEF HoldersInv

\* A step in which every executor stays where it is.
LEMMA OthersHold ==
    ASSUME HoldersInv, UNCHANGED <<exec, gate, posts>>,
           run' \in [Runs -> RunStatus], \A q \in Runs : run'[q] = "none" => run[q] = "none",
           history' \in Histories, history.loose \subseteq history'.loose
    PROVE  HoldersInv'
<1>1. PlaceTypes' BY DEF HoldersInv, PlaceTypes
<1>2. GateIsWithPast' BY DEF HoldersInv, GateIsWithPast
<1>3. OneHolder' BY DEF HoldersInv, OneHolder
<1>4. NewIsNowhere' BY DEF HoldersInv, NewIsNowhere
<1>5. PostsAwaited'
  <2> SUFFICES ASSUME NEW p \in posts
               PROVE  IF p.to = Nobody THEN p.run \in history'.loose
                      ELSE exec[p.to][p.run].at = "posting"
    BY DEF PostsAwaited
  <2> QED BY DEF HoldersInv, PostsAwaited
<1> QED BY <1>1, <1>2, <1>3, <1>4, <1>5 DEF HoldersInv

\* A run is created, on a worker that had no executor of it.
LEMMA CreateRunHolds ==
    ASSUME HoldersInv, NEW w \in Workers, NEW r \in Runs, CreateRun(w, r) \/ QueueLoop(w, r)
    PROVE  HoldersInv'
<1>1. /\ run \in [Runs -> RunStatus] /\ history \in Histories /\ exec[w][r].at = "none"
      /\ UNCHANGED <<gate, posts, history>> /\ Goto(w, r, "claim")
  BY DEF HoldersInv, PlaceTypes, NewIsNowhere, CreateRun, QueueLoop, bench
<1>2. run' \in [Runs -> RunStatus] /\ run'[r] # "none" /\ \A q \in Runs \ {r} : run'[q] = run[q]
  BY <1>1 DEF CreateRun, QueueLoop, RunStatus, Resumable
<1>3. [at |-> "claim", of |-> "none"] \in Executions BY DEF Executions, Stages, RunStatus, Missing
<1>4. GotoWith(w, r, "claim", "none") BY <1>1 DEF Goto, GotoWith, At
<1> QED BY <1>1, <1>2, <1>3, <1>4, PlainMove DEF Past

\* What the user and the agent do to the rows of runs.
LEMMA RowsHold ==
    ASSUME HoldersInv, RestTypes,
           \/ UserCancels \/ DeliverEvent \/ LoseEvents
           \/ \E r \in Runs : DeleteRun(r)
           \/ \E w \in Workers, r \in Runs, kind \in Decisions : UserCall(w, r, kind)
    PROVE  HoldersInv'
<1>0. run \in [Runs -> RunStatus] /\ history \in Histories BY DEF HoldersInv, PlaceTypes
<1>1. ASSUME NEW r \in Runs, NEW status \in RunStatus \ {"none"}, SetRun(r, status)
      PROVE  run' \in [Runs -> RunStatus] /\ \A q \in Runs : run'[q] = "none" => run[q] = "none"
  <2>1. CASE run[r] \in Missing BY <1>0, <1>1, <2>1 DEF SetRun, Written
  <2>2. CASE run[r] \notin Missing BY <1>0, <1>1, <2>2 DEF SetRun, Written
  <2> QED BY <2>1, <2>2
<1>2. ASSUME NEW r \in Runs PROVE Executed(r) \in SUBSET Runs BY DEF Executed
<1>3. CASE UserCancels
  <2>1. UNCHANGED <<exec, gate, posts>> BY <1>3 DEF UserCancels, bench
  <2>2. user.run \in Runs BY <1>3 DEF UserCancels, RestTypes, Calls, NoCall
  <2>3. CASE SetRun(user.run, "cancelled")
             /\ history' = [history EXCEPT !.loose = @ \union Executed(user.run)]
    <3>1. Executed(user.run) \in SUBSET Runs BY <1>2, <2>2
    <3>2. history' \in Histories /\ history.loose \subseteq history'.loose
      <4>1. history.loose \union Executed(user.run) \in SUBSET Runs BY <1>0, <3>1 DEF Histories
      <4> QED BY <1>0, <2>3, <4>1 DEF Histories
    <3> QED BY <1>1, <2>1, <2>2, <2>3, <3>2, OthersHold DEF RunStatus
  <2>4. CASE UNCHANGED <<run, history>> BY <1>0, <2>1, <2>4, OthersHold
  <2> QED BY <1>3, <2>3, <2>4 DEF UserCancels
<1>4. CASE DeliverEvent
  <2>1. Head(events) \in Runs \X (Terminal \union {"running"})
    BY <1>4 DEF DeliverEvent, RestTypes
  <2> QED BY <1>0, <1>1, <1>4, <2>1, OthersHold DEF DeliverEvent, RunStatus, Active, Terminal
<1>5. CASE LoseEvents
  <2>1. history' \in Histories /\ history'.loose = history.loose
    BY <1>0, <1>5, BenchmarkAssumption DEF LoseEvents, Trouble, Histories
  <2> QED BY <1>0, <1>5, <2>1, OthersHold DEF LoseEvents
<1>6. CASE \E r \in Runs : DeleteRun(r)
  <2>1. PICK r \in Runs : DeleteRun(r) BY <1>6
  <2>2. history' \in Histories /\ history.loose \subseteq history'.loose
    BY <1>0, <1>2, <2>1, HistoryGrows DEF DeleteRun
  <2>3. run' \in [Runs -> RunStatus] /\ \A q \in Runs : run'[q] = "none" => run[q] = "none"
    BY <1>0, <2>1 DEF DeleteRun, RunStatus, Missing
  <2> QED BY <2>1, <2>2, <2>3, OthersHold DEF DeleteRun, bench
<1>7. CASE \E w \in Workers, r \in Runs, kind \in Decisions : UserCall(w, r, kind)
  <2>1. history' \in Histories /\ history'.loose = history.loose
    BY <1>0, <1>7, BenchmarkAssumption DEF UserCall, Trouble, Histories
  <2> QED BY <1>0, <1>7, <2>1, OthersHold DEF UserCall, bench
<1> QED BY <1>3, <1>4, <1>5, <1>6, <1>7

\* The server, the requests and the job of a run do not move executors.
InferenceStep ==
    \/ CheckBlocking \/ ReserveStart \/ SendStart \/ StartAnswered \/ StartGivesUp \/ LateStart
    \/ ClaimLease \/ ActivateLease \/ EndLease
JobStep ==
    \/ UserStopsJob
    \/ \E r \in Runs : Spawn(r) \/ \E status \in Terminal : EndJob(r, status)

\* So they leave who holds what as it is.
LEMMA ElsewhereHolds ==
    ASSUME HoldersInv, InferenceStep \/ JobStep
    PROVE  HoldersInv'
<1>0. run \in [Runs -> RunStatus] /\ history \in Histories BY DEF HoldersInv, PlaceTypes
<1>1. UNCHANGED <<run, exec, gate, posts>>
  BY DEF InferenceStep, JobStep, CheckBlocking, ReserveStart, SendStart, StartAnswered,
         StartGivesUp, LateStart, ClaimLease, ActivateLease, EndLease, UserStopsJob, Spawn,
         EndJob, bench
<1>2. CASE UNCHANGED history BY <1>0, <1>1, <1>2, OthersHold
<1>3. CASE StartGivesUp
  <2>1. history' \in Histories /\ history'.loose = history.loose
    BY <1>0, <1>3, BenchmarkAssumption DEF StartGivesUp, Trouble, Histories
  <2> QED BY <1>0, <1>1, <2>1, OthersHold
<1> QED BY <1>2, <1>3
    DEF InferenceStep, JobStep, CheckBlocking, ReserveStart, SendStart, StartAnswered,
        LateStart, ClaimLease, ActivateLease, EndLease, UserStopsJob, Spawn, EndJob

\* A step, by what it does to the executors.
LEMMA Steps ==
    ASSUME Next
    PROVE  \/ \E w \in Workers, r \in Runs :
                 \/ CreateRun(w, r) \/ QueueLoop(w, r) \/ PlainExecutor(w, r)
                 \/ TryGate(w, r) \/ SourceGone(w, r) \/ Leave(w, r)
                 \/ Post(w, r) \/ PostGivesUp(w, r)
                 \/ \E kind \in Decisions : UserCall(w, r, kind)
           \/ \E w \in Workers : CrashWorker(w)
           \/ \E p \in posts : StartJob(p)
           \/ UserCancels \/ DeliverEvent \/ LoseEvents \/ \E r \in Runs : DeleteRun(r)
           \/ InferenceStep \/ JobStep
BY DEF Next, Executor, PlainExecutor, Agent, InferenceStep, JobStep

\* The gate is with one executor past it, whatever the step.
LEMMA HoldersStep == HoldersInv /\ RestTypes /\ [Next]_vars => HoldersInv'
<1> SUFFICES ASSUME HoldersInv, RestTypes, [Next]_vars PROVE HoldersInv' OBVIOUS
<1>1. ASSUME NEW w \in Workers, NEW r \in Runs,
             \/ CreateRun(w, r) \/ QueueLoop(w, r) \/ PlainExecutor(w, r)
             \/ TryGate(w, r) \/ SourceGone(w, r) \/ Leave(w, r)
             \/ Post(w, r) \/ PostGivesUp(w, r)
             \/ \E kind \in Decisions : UserCall(w, r, kind)
      PROVE  HoldersInv'
  BY <1>1, CreateRunHolds, PlainExecutorHolds, TryGateHolds, LeaveHolds, PostHolds, RowsHold
<1>2. CASE UNCHANGED vars
  BY <1>2, OthersHold DEF vars, bench, HoldersInv, PlaceTypes
<1>3. CASE Next
  BY <1>1, <1>3, Steps, CrashHolds, StartJobHolds, RowsHold, ElsewhereHolds
<1> QED BY <1>2, <1>3

\* One more event, if there is room for it.
LEMMA EventAdded ==
    ASSUME RestTypes, Len(events) < MaxEvents, NEW e \in Runs \X (Terminal \union {"running"}),
           events' = Append(events, e)
    PROVE  events' \in Seq(Runs \X (Terminal \union {"running"})) /\ Len(events') <= MaxEvents
BY BenchmarkAssumption DEF RestTypes

\* The states of the server.
Servers == [row : {"stopped", "starting", "running", "error"}, up : BOOLEAN]

\* A server's row is written, or its process comes up.
LEMMA ServerWritten ==
    ASSUME server \in Servers
    PROVE  /\ \A row \in {"stopped", "starting", "running", "error"} :
                 [server EXCEPT !.row = row] \in Servers
           /\ [server EXCEPT !.up = TRUE] \in Servers
BY DEF Servers

\* The variables beside the executors keep their types.
LEMMA RestTypesStep == PlaceTypes /\ RestTypes /\ [Next]_vars => RestTypes'
<1> SUFFICES ASSUME PlaceTypes, RestTypes, [Next]_vars PROVE RestTypes' OBVIOUS
<1>1. ASSUME NEW w \in Workers, NEW r \in Runs, PlainExecutor(w, r) PROVE RestTypes'
  <2>1. UNCHANGED <<controls, job, events, starter, user>>
    BY <1>1 DEF PlainExecutor, Claim, Requeue, IdleCheck, IdleDeadline, Decide, NotIdle, Abandon,
       MarkStopping, ReadServers, StopServers, Posted, Monitor, WriteResult, RecordFailure,
       bench, inference
  <2>2. CASE ReadServers(w, r) BY <2>1, <2>2 DEF ReadServers, RestTypes, inference
  <2>3. CASE StopServers(w, r)
    <3>1. server' \in Servers
      <4>1. server \in Servers BY DEF RestTypes, Servers
      <4>2. CASE server' = [server EXCEPT !.row = "error"] BY <4>1, <4>2, ServerWritten
      <4>3. CASE server' = IF cut THEN [row |-> "stopped", up |-> FALSE] ELSE server
        BY <4>1, <4>3 DEF Servers
      <4> QED BY <2>3, <4>2, <4>3 DEF StopServers
    <3>2. lease' \in {"none", "reserving", "active"} /\ cut' \in BOOLEAN
      BY <2>3 DEF StopServers, RestTypes
    <3> QED BY <2>1, <3>1, <3>2 DEF RestTypes, Servers
  <2>4. CASE UNCHANGED <<cut, server, lease>> BY <2>1, <2>4 DEF RestTypes
  <2> QED
    BY <1>1, <2>2, <2>3, <2>4
    DEF PlainExecutor, Claim, Requeue, IdleCheck, IdleDeadline, Decide, NotIdle, Abandon,
        MarkStopping, Posted, Monitor, WriteResult, RecordFailure, inference
<1>2. ASSUME NEW w \in Workers, NEW r \in Runs,
             \/ CreateRun(w, r) \/ QueueLoop(w, r) \/ TryGate(w, r) \/ SourceGone(w, r)
             \/ Post(w, r) \/ PostGivesUp(w, r)
      PROVE  RestTypes'
  BY <1>2 DEF CreateRun, QueueLoop, TryGate, SourceGone, Post, PostGivesUp, bench, inference, RestTypes
<1>3. ASSUME NEW w \in Workers, NEW r \in Runs, Leave(w, r) PROVE RestTypes'
  BY <1>3 DEF Leave, bench, inference, RestTypes
<1>4. ASSUME NEW w \in Workers, NEW r \in Runs, NEW kind \in Decisions, UserCall(w, r, kind)
      PROVE  RestTypes'
  <2>1. run[r] \in RunStatus BY DEF PlaceTypes
  <2>2. user' \in Calls BY <1>4, <2>1 DEF UserCall, Calls
  <2>3. controls' \subseteq Workers \X Runs BY <1>4 DEF UserCall, RestTypes
  <2> QED BY <1>4, <2>2, <2>3 DEF UserCall, bench, inference, RestTypes
<1>5. ASSUME NEW w \in Workers, CrashWorker(w) PROVE RestTypes'
  BY <1>5 DEF CrashWorker, inference, RestTypes
<1>6. ASSUME NEW p \in posts, StartJob(p) PROVE RestTypes'
  <2>1. p.run \in Runs BY DEF PlaceTypes
  <2>2. CASE UNCHANGED <<job, events>> BY <1>6, <2>2 DEF StartJob, inference, RestTypes
  <2>3. CASE /\ Len(events) < MaxEvents
             /\ job' = [job EXCEPT ![p.run] = "starting"]
             /\ events' = Append(events, <<p.run, "running">>)
    <3>1. job' \in [Runs -> Jobs] BY <2>3 DEF RestTypes, Jobs
    <3>2. events' \in Seq(Runs \X (Terminal \union {"running"})) /\ Len(events') <= MaxEvents
      BY <2>1, <2>3, EventAdded
    <3> QED BY <1>6, <3>1, <3>2 DEF StartJob, inference, RestTypes
  <2> QED BY <1>6, <2>2, <2>3 DEF StartJob
<1>7. CASE UserCancels
  <2>1. user' \in Calls
    <3>1. user \in Calls BY <1>7 DEF UserCancels, RestTypes
    <3> QED BY <1>7, <3>1 DEF UserCancels, Calls, RunStatus, Missing
  <2> QED BY <1>7, <2>1 DEF UserCancels, bench, inference, RestTypes
<1>8. CASE DeliverEvent \/ LoseEvents
  <2>1. events' \in Seq(Runs \X (Terminal \union {"running"})) /\ Len(events') <= MaxEvents
    <3>1. CASE events' = <<>> BY <3>1, BenchmarkAssumption
    <3>2. CASE events # <<>> /\ events' = Tail(events) BY <3>2, BenchmarkAssumption DEF RestTypes
    <3> QED BY <1>8, <3>1, <3>2 DEF DeliverEvent, LoseEvents
  <2> QED BY <1>8, <2>1 DEF DeliverEvent, LoseEvents, inference, RestTypes
<1>9. CASE \E r \in Runs : DeleteRun(r) BY <1>9 DEF DeleteRun, bench, inference, RestTypes
<1>10. CASE InferenceStep
  <2>1. UNCHANGED <<controls, cut, job, events, user>>
    BY <1>10 DEF InferenceStep, CheckBlocking, ReserveStart, SendStart, StartAnswered,
       StartGivesUp, LateStart, ClaimLease, ActivateLease, EndLease, bench
  <2>2. server' \in Servers
    <3>1. server \in Servers BY DEF RestTypes, Servers
    <3>2. CASE ReserveStart BY <3>1, <3>2, ServerWritten DEF ReserveStart
    <3>3. CASE StartGivesUp BY <3>1, <3>3, ServerWritten DEF StartGivesUp
    <3>4. CASE LateStart BY <3>1, <3>4, ServerWritten DEF LateStart
    <3>5. CASE StartAnswered BY <3>1, <3>5 DEF StartAnswered, Servers
    <3>6. CASE UNCHANGED server BY <3>1, <3>6
    <3> QED
      BY <1>10, <3>2, <3>3, <3>4, <3>5, <3>6
      DEF InferenceStep, CheckBlocking, SendStart, ClaimLease, ActivateLease, EndLease
  <2>3. starter' \in {"none", "checked", "waiting", "sent", "late"}
        /\ lease' \in {"none", "reserving", "active"}
    BY <1>10 DEF InferenceStep, CheckBlocking, ReserveStart, SendStart, StartAnswered,
       StartGivesUp, LateStart, ClaimLease, ActivateLease, EndLease, RestTypes
  <2> QED BY <2>1, <2>2, <2>3 DEF RestTypes, Servers
<1>11. CASE UserStopsJob
  <2>1. job' \in [Runs -> Jobs] BY <1>11 DEF UserStopsJob, RestTypes, Jobs
  <2> QED BY <1>11, <2>1 DEF UserStopsJob, inference, RestTypes
<1>12. ASSUME NEW r \in Runs, Spawn(r) PROVE RestTypes'
  BY <1>12 DEF Spawn, inference, RestTypes, Jobs
<1>13. ASSUME NEW r \in Runs, NEW status \in Terminal, EndJob(r, status) PROVE RestTypes'
  <2>1. job' \in [Runs -> Jobs] BY <1>13 DEF EndJob, RestTypes, Jobs
  <2>2. events' \in Seq(Runs \X (Terminal \union {"running"})) /\ Len(events') <= MaxEvents
    BY <1>13, EventAdded DEF EndJob
  <2> QED BY <1>13, <2>1, <2>2 DEF EndJob, inference, RestTypes
<1>14. CASE UNCHANGED vars BY <1>14 DEF vars, bench, inference, RestTypes
<1>15. CASE Next
  BY <1>1, <1>2, <1>3, <1>4, <1>5, <1>6, <1>7, <1>8, <1>9, <1>10, <1>11, <1>12, <1>13, <1>15, Steps
     DEF JobStep
<1> QED BY <1>14, <1>15

\* At the start nothing is held and everything has its type.
LEMMA InitTypes == Init => HoldersInv /\ RestTypes
<1> SUFFICES ASSUME Init PROVE HoldersInv /\ RestTypes OBVIOUS
<1>1. At("none") \in Executions BY DEF At, Executions, Stages, RunStatus, Missing
<1>2. PlaceTypes BY <1>1, BenchmarkAssumption DEF Init, PlaceTypes, Histories, RunStatus, Missing
<1>3. RestTypes
  <2>1. events \in Seq(Runs \X (Terminal \union {"running"})) /\ Len(events) <= MaxEvents
    BY BenchmarkAssumption DEF Init
  <2> QED BY <2>1 DEF Init, RestTypes, Jobs, NoCall
<1>4. GateIsWithPast /\ OneHolder /\ NewIsNowhere /\ PostsAwaited
  BY DEF Init, At, Past, GateIsWithPast, OneHolder, NewIsNowhere, PostsAwaited
<1> QED BY <1>2, <1>3, <1>4 DEF HoldersInv

\* Every variable keeps its type, and the gate is with the executors that are past it.
THEOREM TypeCorrect == Spec => []TypeOK
<1>1. HoldersInv /\ RestTypes /\ [Next]_vars => (HoldersInv /\ RestTypes)'
  BY HoldersStep, RestTypesStep DEF HoldersInv
<1>2. HoldersInv /\ RestTypes => TypeOK BY TypeParts DEF HoldersInv
<1> QED BY InitTypes, <1>1, <1>2, PTL DEF Spec

-------------------------------------------------------------------------------
(* Who is where *)

\* An executor moves by steps of its own, by the answer to its post, or dies.
LEMMA Places ==
    ASSUME HoldersInv, [Next]_vars, NEW v \in Workers, NEW q \in Runs
    PROVE  \/ exec'[v][q] = exec[v][q]
           \/ CreateRun(v, q) \/ QueueLoop(v, q) \/ PlainExecutor(v, q)
           \/ TryGate(v, q) \/ SourceGone(v, q) \/ Leave(v, q)
           \/ Post(v, q) \/ PostGivesUp(v, q)
           \/ CrashWorker(v)
           \/ \E p \in posts : StartJob(p) /\ p.to = v /\ p.run = q
<1>0. exec \in [Workers -> [Runs -> Executions]] BY DEF HoldersInv, PlaceTypes
<1>1. ASSUME NEW w \in Workers, NEW r \in Runs, NEW stage, NEW status,
             GotoWith(w, r, stage, status), <<w, r>> # <<v, q>>
      PROVE  exec'[v][q] = exec[v][q]
  BY <1>0, <1>1 DEF GotoWith
<1>2. ASSUME NEW w \in Workers, NEW r \in Runs, NEW stage, Goto(w, r, stage), <<w, r>> # <<v, q>>
      PROVE  exec'[v][q] = exec[v][q]
  BY <1>0, <1>2 DEF Goto
<1>3. ASSUME NEW w \in Workers, NEW r \in Runs, <<w, r>> # <<v, q>>,
             \/ CreateRun(w, r) \/ QueueLoop(w, r) \/ TryGate(w, r) \/ SourceGone(w, r)
             \/ Leave(w, r) \/ Post(w, r) \/ PostGivesUp(w, r)
      PROVE  exec'[v][q] = exec[v][q]
  BY <1>2, <1>3 DEF CreateRun, QueueLoop, TryGate, SourceGone, Leave, Post, PostGivesUp
<1>4. ASSUME NEW w \in Workers, NEW r \in Runs, <<w, r>> # <<v, q>>, PlainExecutor(w, r)
      PROVE  exec'[v][q] = exec[v][q]
  BY <1>1, <1>2, <1>4
     DEF PlainExecutor, Claim, Requeue, IdleCheck, IdleDeadline, Decide, NotIdle, Abandon,
         MarkStopping, ReadServers, StopServers, Posted, Monitor, WriteResult, RecordFailure
<1>5. ASSUME NEW w \in Workers, NEW r \in Runs, NEW kind \in Decisions, UserCall(w, r, kind)
      PROVE  exec'[v][q] = exec[v][q]
  BY <1>5 DEF UserCall
<1>6. ASSUME NEW w \in Workers, w # v, CrashWorker(w) PROVE exec'[v][q] = exec[v][q]
  BY <1>0, <1>6 DEF CrashWorker
<1>7. ASSUME NEW p \in posts, StartJob(p), <<p.to, p.run>> # <<v, q>>
      PROVE  exec'[v][q] = exec[v][q]
  <2>1. p.to \in Workers \union {Nobody} /\ p.run \in Runs BY DEF HoldersInv, PlaceTypes
  <2>2. CASE exec' = exec BY <2>2
  <2>3. CASE p.to # Nobody
    <3>1. PICK stage : Goto(p.to, p.run, stage) BY <1>7, <2>3 DEF StartJob, Goto
    <3> QED BY <1>2, <1>7, <2>1, <2>3, <3>1
  <2> QED BY <1>7, <2>2, <2>3 DEF StartJob
<1>8. CASE \/ UserCancels \/ DeliverEvent \/ LoseEvents \/ \E r \in Runs : DeleteRun(r)
           \/ InferenceStep \/ JobStep \/ UNCHANGED vars
  <2>1. exec' = exec
    BY <1>8 DEF UserCancels, DeliverEvent, LoseEvents, DeleteRun, InferenceStep, JobStep,
       CheckBlocking, ReserveStart, SendStart, StartAnswered, StartGivesUp, LateStart,
       ClaimLease, ActivateLease, EndLease, UserStopsJob, Spawn, EndJob, vars
  <2> QED BY <2>1
<1>9. CASE Next
  <2>1. CASE \E w \in Workers, r \in Runs :
                 \/ CreateRun(w, r) \/ QueueLoop(w, r) \/ PlainExecutor(w, r)
                 \/ TryGate(w, r) \/ SourceGone(w, r) \/ Leave(w, r)
                 \/ Post(w, r) \/ PostGivesUp(w, r)
                 \/ \E kind \in Decisions : UserCall(w, r, kind)
    <3>1. PICK w \in Workers, r \in Runs :
                 \/ CreateRun(w, r) \/ QueueLoop(w, r) \/ PlainExecutor(w, r)
                 \/ TryGate(w, r) \/ SourceGone(w, r) \/ Leave(w, r)
                 \/ Post(w, r) \/ PostGivesUp(w, r)
                 \/ \E kind \in Decisions : UserCall(w, r, kind)
      BY <2>1
    <3>2. CASE <<w, r>> = <<v, q>>
      <4>1. w = v /\ r = q BY <3>2
      <4> QED BY <3>1, <4>1, <1>5
    <3>3. CASE <<w, r>> # <<v, q>> BY <3>1, <3>3, <1>3, <1>4, <1>5
    <3> QED BY <3>2, <3>3
  <2>2. CASE \E w \in Workers : CrashWorker(w) BY <1>6, <2>2
  <2>3. CASE \E p \in posts : StartJob(p) BY <1>7, <2>3
  <2> QED BY <1>8, <1>9, <2>1, <2>2, <2>3, Steps
<1> QED BY <1>8, <1>9

\* Where an executor can have come from.
LEMMA Arrivals ==
    ASSUME HoldersInv, [Next]_vars, NEW v \in Workers, NEW q \in Runs, exec'[v][q] # exec[v][q]
    PROVE  /\ exec'[v][q].at = "monitor" => Posted(v, q) \/ TryGate(v, q)
           /\ exec'[v][q].at = "posted" => exec[v][q].at = "posting"
           /\ exec'[v][q].at = "posting" => Post(v, q)
           /\ exec'[v][q].at = "post" => StopServers(v, q)
           /\ exec'[v][q].at = "stop" => ReadServers(v, q)
           /\ exec'[v][q].at = "read" => MarkStopping(v, q) \/ TryGate(v, q)
           /\ exec'[v][q].at = "mark" => IdleCheck(v, q)
           /\ exec'[v][q].at \in Past \ {"leave"} =>
                 \/ exec[v][q].at \in Past \ {"leave"}
                 \/ gate = {} /\ (TryGate(v, q) \/ SourceGone(v, q))
           /\ exec[v][q].at \in {"posted", "monitor"} =>
                 \/ exec'[v][q].at \in {"posted", "monitor"}
                 \/ Monitor(v, q) \/ CrashWorker(v)
<1>0. exec \in [Workers -> [Runs -> Executions]] BY DEF HoldersInv, PlaceTypes
<1>1. ASSUME NEW stage, Goto(v, q, stage) PROVE exec'[v][q].at = stage
  BY <1>0, <1>1 DEF Goto, At
<1>2. ASSUME NEW stage, NEW status, GotoWith(v, q, stage, status) PROVE exec'[v][q].at = stage
  BY <1>0, <1>2 DEF GotoWith
<1>3. CASE CreateRun(v, q) \/ QueueLoop(v, q)
  <2>1. exec'[v][q].at = "claim" /\ exec[v][q].at = "none"
    BY <1>1, <1>3 DEF CreateRun, QueueLoop, HoldersInv, NewIsNowhere
  <2> QED BY <2>1 DEF Past
<1>4. CASE PlainExecutor(v, q)
  <2>1. CASE Claim(v, q)
    <3>1. exec[v][q].at = "claim" /\ exec'[v][q].at \in {"gate", "none"}
      BY <1>1, <1>2, <2>1 DEF Claim
    <3> QED BY <3>1 DEF Past
  <2>2. CASE Requeue(v, q)
    <3>1. exec[v][q].at = "requeue" /\ exec'[v][q].at = "none" BY <1>1, <2>2 DEF Requeue
    <3> QED BY <3>1 DEF Past
  <2>3. CASE IdleCheck(v, q)
    <3>1. exec[v][q].at = "idle" /\ exec'[v][q].at \in {"notidle", "mark", "deadline"}
      BY <1>1, <2>3 DEF IdleCheck
    <3> QED BY <2>3, <3>1 DEF Past
  <2>4. CASE IdleDeadline(v, q)
    <3>1. exec[v][q].at = "deadline" /\ exec'[v][q].at \in {"idle", "decide"}
      BY <1>1, <2>4 DEF IdleDeadline
    <3> QED BY <3>1 DEF Past
  <2>5. CASE Decide(v, q)
    <3>1. exec[v][q].at = "decide" /\ exec'[v][q].at = "notidle" BY <1>1, <2>5 DEF Decide
    <3> QED BY <3>1 DEF Past
  <2>6. CASE NotIdle(v, q)
    <3>1. exec[v][q].at = "notidle" /\ exec'[v][q].at \in {"leave", "abandon"}
      BY <1>1, <2>6 DEF NotIdle
    <3> QED BY <3>1 DEF Past
  <2>7. CASE Abandon(v, q)
    <3>1. exec[v][q].at = "abandon" /\ exec'[v][q].at = "leave" BY <1>1, <2>7 DEF Abandon
    <3> QED BY <3>1 DEF Past
  <2>8. CASE MarkStopping(v, q)
    <3>1. exec[v][q].at = "mark" /\ exec'[v][q].at = "read" BY <1>1, <2>8 DEF MarkStopping
    <3> QED BY <2>8, <3>1 DEF Past
  <2>9. CASE ReadServers(v, q)
    <3>1. exec[v][q].at = "read" /\ exec'[v][q].at = "stop" BY <1>1, <2>9 DEF ReadServers
    <3> QED BY <2>9, <3>1 DEF Past
  <2>10. CASE StopServers(v, q)
    <3>1. exec[v][q].at = "stop" /\ exec'[v][q].at \in {"post", "failing"}
      BY <1>1, <2>10 DEF StopServers
    <3> QED BY <2>10, <3>1 DEF Past
  <2>11. CASE Posted(v, q)
    <3>1. exec[v][q].at = "posted" /\ exec'[v][q].at = "monitor" BY <1>1, <2>11 DEF Posted
    <3> QED BY <2>11, <3>1 DEF Past
  <2>12. CASE Monitor(v, q)
    <3>1. exec[v][q].at = "monitor" /\ exec'[v][q].at \in {"leave", "result"}
      BY <1>1, <1>2, <2>12 DEF Monitor
    <3> QED BY <2>12, <3>1 DEF Past
  <2>13. CASE WriteResult(v, q)
    <3>1. exec[v][q].at = "result" /\ exec'[v][q].at = "leave" BY <1>1, <2>13 DEF WriteResult
    <3> QED BY <3>1 DEF Past
  <2>14. CASE RecordFailure(v, q)
    <3>1. exec[v][q].at = "failing" /\ exec'[v][q].at = "leave" BY <1>1, <2>14 DEF RecordFailure
    <3> QED BY <3>1 DEF Past
  <2> QED
    BY <1>4, <2>1, <2>2, <2>3, <2>4, <2>5, <2>6, <2>7, <2>8, <2>9, <2>10, <2>11, <2>12, <2>13, <2>14
    DEF PlainExecutor
<1>5. CASE TryGate(v, q)
  <2>1. exec[v][q].at = "gate" BY <1>5 DEF TryGate
  <2>2. CASE GateIsFree /\ Goto(v, q, Resumed(q, exec[v][q].of))
    <3>1. exec[v][q].of \in Resumable BY <1>0, <2>1 DEF Executions
    <3>2. Resumed(q, exec[v][q].of) \in {"leave", "monitor", "idle", "read"}
      BY <3>1 DEF Resumed, Resumable
    <3>3. exec'[v][q].at \in {"leave", "monitor", "idle", "read"} BY <1>1, <2>2, <3>2
    <3> QED BY <1>5, <2>1, <2>2, <3>3 DEF GateIsFree
  <2>3. CASE Goto(v, q, IF exec[v][q].of = "waiting_for_idle" THEN "requeue" ELSE "none")
    <3>1. exec'[v][q].at \in {"requeue", "none"} BY <1>1, <2>3
    <3> QED BY <2>1, <3>1 DEF Past
  <2> QED BY <1>5, <2>2, <2>3 DEF TryGate
<1>6. CASE SourceGone(v, q)
  <2>1. exec[v][q].at = "gate" /\ exec'[v][q].at = "failing" /\ gate = {}
    BY <1>1, <1>6 DEF SourceGone, GateIsFree
  <2> QED BY <1>6, <2>1
<1>7. CASE Leave(v, q)
  <2>1. exec[v][q].at = "leave" /\ exec'[v][q].at = "none" BY <1>1, <1>7 DEF Leave
  <2> QED BY <2>1 DEF Past
<1>8. CASE Post(v, q)
  <2>1. exec[v][q].at = "post" /\ exec'[v][q].at = "posting" BY <1>1, <1>8 DEF Post
  <2> QED BY <1>8, <2>1 DEF Past
<1>9. CASE PostGivesUp(v, q)
  <2>1. exec[v][q].at = "posting" /\ exec'[v][q].at = "failing" BY <1>1, <1>9 DEF PostGivesUp
  <2> QED BY <2>1 DEF Past
<1>10. CASE CrashWorker(v)
  <2>1. exec'[v][q].at = "none" BY <1>0, <1>10 DEF CrashWorker, At
  <2> QED BY <1>10, <2>1 DEF Past
<1>11. CASE \E p \in posts : StartJob(p) /\ p.to = v /\ p.run = q
  <2>1. exec[v][q].at = "posting"
    BY <1>11, NobodyAssumption DEF HoldersInv, PostsAwaited
  <2>2. exec'[v][q].at \in {"failing", "posted"}
    <3>1. PICK p \in posts : StartJob(p) /\ p.to = v /\ p.run = q BY <1>11
    <3>2. PICK stage \in {"failing", "posted"} : Goto(v, q, stage)
      BY <3>1, NobodyAssumption DEF StartJob, Goto
    <3> QED BY <1>1, <3>2
  <2> QED BY <2>1, <2>2 DEF Past
<1> QED BY <1>3, <1>4, <1>5, <1>6, <1>7, <1>8, <1>9, <1>10, <1>11, Places

-------------------------------------------------------------------------------
(* Jobs *)

\* What is remembered of a run is not forgotten.
LEMMA HistoryKept ==
    ASSUME HoldersInv, RestTypes, [Next]_vars
    PROVE  history.loose \subseteq history'.loose /\ history.again \subseteq history'.again
<1>0. history \in Histories BY DEF HoldersInv, PlaceTypes
<1>1. CASE UNCHANGED history BY <1>1
<1>2. ASSUME NEW w \in Workers, NEW r \in Runs,
             \/ CreateRun(w, r) \/ QueueLoop(w, r) \/ PlainExecutor(w, r)
             \/ TryGate(w, r) \/ SourceGone(w, r) \/ Leave(w, r)
             \/ Post(w, r) \/ PostGivesUp(w, r)
             \/ \E kind \in Decisions : UserCall(w, r, kind)
      PROVE  history.loose \subseteq history'.loose /\ history.again \subseteq history'.again
  <2>1. CASE PlainExecutor(w, r)
    BY <1>0, <2>1
       DEF PlainExecutor, Claim, Requeue, IdleCheck, IdleDeadline, Decide, NotIdle, Abandon,
           MarkStopping, ReadServers, StopServers, Posted, Monitor, WriteResult, RecordFailure,
           Trouble, Histories
  <2>2. CASE \/ TryGate(w, r) \/ SourceGone(w, r) \/ PostGivesUp(w, r)
             \/ \E kind \in Decisions : UserCall(w, r, kind)
    BY ZenonT(30), <1>0, <2>2 DEF TryGate, SourceGone, PostGivesUp, UserCall, Trouble, Histories
  <2> QED BY <1>1, <1>2, <2>1, <2>2 DEF CreateRun, QueueLoop, Leave, Post
<1>3. CASE \/ LoseEvents \/ UserCancels \/ StartGivesUp \/ \E r \in Runs : DeleteRun(r)
  BY ZenonT(30), <1>0, <1>3 DEF LoseEvents, UserCancels, StartGivesUp, DeleteRun, Trouble, Histories
<1>4. CASE \E p \in posts : StartJob(p)
  BY <1>0, <1>4 DEF StartJob, Histories
<1>5. CASE \E w \in Workers : CrashWorker(w)
  BY <1>0, <1>5 DEF CrashWorker, Histories
<1>6. CASE DeliverEvent \/ (InferenceStep /\ ~StartGivesUp) \/ JobStep \/ UNCHANGED vars
  <2>1. UNCHANGED history
    BY <1>6 DEF DeliverEvent, InferenceStep, JobStep, CheckBlocking, ReserveStart, SendStart,
       StartAnswered, LateStart, ClaimLease, ActivateLease, EndLease, UserStopsJob, Spawn,
       EndJob, vars
  <2> QED BY <1>1, <2>1
<1>7. CASE Next BY <1>2, <1>3, <1>4, <1>5, <1>6, <1>7, Steps
<1> QED BY <1>6, <1>7

\* Only the agent's answer to a post starts a job; what is over goes on being over.
LEMMA JobSteps ==
    ASSUME HoldersInv, RestTypes, [Next]_vars, NEW r \in Runs
    PROVE  \/ job'[r] = job[r]
           \/ job[r] \in Going /\ job'[r] \in Going
           \/ JobStep /\ job[r] # "none" /\ job'[r] \in Terminal
           \/ \E p \in posts : StartJob(p) /\ p.run = r /\ job'[r] = "starting"
<1>0. job \in [Runs -> Jobs] BY DEF RestTypes
<1>1. CASE UNCHANGED job BY <1>1
<1>2. CASE \E p \in posts : StartJob(p)
  <2>1. PICK p \in posts : StartJob(p) BY <1>2
  <2>2. CASE UNCHANGED job BY <2>2
  <2>3. CASE job' = [job EXCEPT ![p.run] = "starting"] BY <1>0, <2>1, <2>3
  <2> QED BY <2>1, <2>2, <2>3 DEF StartJob
<1>3. CASE UserStopsJob BY <1>0, <1>3 DEF UserStopsJob, Going
<1>4. ASSUME NEW q \in Runs, Spawn(q)
      PROVE  job'[r] = job[r] \/ (job[r] \in Going /\ job'[r] \in Going)
  BY <1>0, <1>4 DEF Spawn, Going
<1>5. ASSUME NEW q \in Runs, NEW status \in Terminal, EndJob(q, status)
      PROVE  job'[r] = job[r] \/ (JobStep /\ job[r] # "none" /\ job'[r] \in Terminal)
  BY <1>0, <1>5 DEF EndJob, JobStep, Going, Terminal
<1>6. CASE Next
  <2>1. ASSUME NEW w \in Workers, NEW q \in Runs,
               \/ CreateRun(w, q) \/ QueueLoop(w, q) \/ PlainExecutor(w, q)
               \/ TryGate(w, q) \/ SourceGone(w, q) \/ Leave(w, q)
               \/ Post(w, q) \/ PostGivesUp(w, q)
               \/ \E kind \in Decisions : UserCall(w, q, kind)
        PROVE  UNCHANGED job
    BY <2>1 DEF CreateRun, QueueLoop, TryGate, SourceGone, Leave, Post, PostGivesUp, UserCall,
       PlainExecutor, Claim, Requeue, IdleCheck, IdleDeadline, Decide, NotIdle, Abandon,
       MarkStopping, ReadServers, StopServers, Posted, Monitor, WriteResult, RecordFailure, bench
  <2>2. CASE \/ UserCancels \/ DeliverEvent \/ LoseEvents \/ \E q \in Runs : DeleteRun(q)
             \/ InferenceStep \/ \E w \in Workers : CrashWorker(w)
    <3>1. UNCHANGED job
      BY <2>2 DEF UserCancels, DeliverEvent, LoseEvents, DeleteRun, CrashWorker, InferenceStep,
         CheckBlocking, ReserveStart, SendStart, StartAnswered, StartGivesUp, LateStart,
         ClaimLease, ActivateLease, EndLease, bench
    <3> QED BY <1>1, <3>1
  <2> QED BY <1>1, <1>2, <1>3, <1>4, <1>5, <1>6, <2>1, <2>2, Steps DEF JobStep
<1>7. CASE UNCHANGED vars BY <1>1, <1>7 DEF vars, bench
<1> QED BY <1>6, <1>7

\* The proper job of a run that is awaited: it was proper before, or just began.
LEMMA ProperSteps ==
    ASSUME HoldersInv, RestTypes, [Next]_vars, NEW r \in Runs, Proper(r)'
    PROVE  \/ Proper(r)
           \/ \E p \in posts :
                 /\ StartJob(p) /\ p.run = r /\ p.to \in Workers /\ job[r] = "none"
                 /\ exec[p.to][r].at = "posting" /\ exec'[p.to][r].at = "posted"
<1>0. /\ exec \in [Workers -> [Runs -> Executions]] /\ history \in Histories
      /\ posts \subseteq [run : Runs, to : Workers \union {Nobody}]
  BY DEF HoldersInv, PlaceTypes
<1>1. job'[r] \in Going /\ r \notin history'.loose \union history'.again BY DEF Proper
<1>2. r \notin history.loose \union history.again BY <1>1, HistoryKept
<1>3. CASE job[r] \in Going BY <1>2, <1>3 DEF Proper
<1>4. CASE job[r] \notin Going
  <2>1. PICK p \in posts : StartJob(p) /\ p.run = r BY <1>1, <1>4, JobSteps DEF Going, Terminal
  <2>2. ~UNCHANGED job BY <1>1, <1>4
  <2>3. /\ exec' = IF p.to = Nobody THEN exec ELSE [exec EXCEPT ![p.to][p.run] = At("posted")]
        /\ history' = IF job[p.run] = "none" THEN history
                      ELSE [history EXCEPT !.again = @ \union {p.run}]
    BY <2>1, <2>2 DEF StartJob
  <2>4. job[r] = "none"
    <3> SUFFICES ASSUME job[r] # "none" PROVE FALSE OBVIOUS
    <3>1. history' = [history EXCEPT !.again = @ \union {r}] BY <2>1, <2>3
    <3>2. r \in history'.again BY <1>0, <3>1 DEF Histories
    <3> QED BY <1>1, <3>2
  <2>5. p.to # Nobody BY <1>2, <2>1 DEF HoldersInv, PostsAwaited
  <2>6. p.to \in Workers /\ exec[p.to][r].at = "posting"
    BY <1>0, <2>1, <2>5 DEF HoldersInv, PostsAwaited
  <2>7. exec'[p.to][r].at = "posted"
    <3>1. Goto(p.to, r, "posted") BY <2>1, <2>3, <2>5 DEF Goto
    <3> QED BY <1>0, <2>6, <3>1, MovedTo DEF Stages, Past
  <2> QED BY <2>1, <2>4, <2>6, <2>7
<1> QED BY <1>3, <1>4

\* A job that begins a second time is remembered.
LEMMA StartedAgain ==
    ASSUME HoldersInv, RestTypes, NEW r \in Runs, job'[r] # job[r], job[r] # "none",
           NEW p \in posts, StartJob(p), p.run = r
    PROVE  r \in history'.again
<1>1. history \in Histories BY DEF HoldersInv, PlaceTypes
<1>2. history' = [history EXCEPT !.again = @ \union {r}] BY DEF StartJob
<1> QED BY <1>1, <1>2 DEF Histories

-------------------------------------------------------------------------------
(* The rows of runs *)

\* The statuses at which _monitor_agent_run stops watching.
Over == Terminal \union Missing \union {"cancelled"}

\* Who can have written that a run is over, or deleted it.
LEMMA RunSteps ==
    ASSUME HoldersInv, RestTypes, [Next]_vars, NEW r \in Runs, run'[r] # run[r]
    PROVE  /\ run'[r] \in Missing => DeleteRun(r)
           /\ run'[r] \in Over =>
                 \/ DeleteRun(r)
                 \/ UserCancels /\ Executed(r) \subseteq history'.loose
                 \/ DeliverEvent /\ Head(events)[1] = r /\ Head(events)[2] \in Terminal
                 \/ \E w \in Workers : exec[w][r].at \in {"abandon", "result", "failing"}
<1>0. /\ run \in [Runs -> RunStatus] /\ history \in Histories
      /\ exec \in [Workers -> [Runs -> Executions]]
  BY DEF HoldersInv, PlaceTypes
<1>1. ASSUME NEW q \in Runs, NEW status, SetRun(q, status)
      PROVE  q = r /\ run'[r] = status /\ run[r] \notin Missing
  <2>1. CASE run[q] \in Missing BY <1>1, <2>1 DEF SetRun, Written
  <2>2. CASE run[q] \notin Missing BY <1>0, <1>1, <2>2 DEF SetRun, Written
  <2> QED BY <2>1, <2>2
<1>2. ASSUME NEW w \in Workers, NEW q \in Runs,
             \/ CreateRun(w, q) \/ QueueLoop(w, q) \/ TryGate(w, q) \/ SourceGone(w, q)
             \/ Leave(w, q) \/ Post(w, q) \/ PostGivesUp(w, q)
             \/ \E kind \in Decisions : UserCall(w, q, kind)
      PROVE  run'[r] \notin Over
  <2>1. CASE CreateRun(w, q)
    <3>1. q = r /\ run'[r] = "queued" BY <1>0, <2>1 DEF CreateRun
    <3> QED BY <3>1 DEF Over, Terminal, Missing
  <2>2. CASE UNCHANGED run BY <2>2
  <2> QED BY <1>2, <2>1, <2>2 DEF QueueLoop, TryGate, SourceGone, Leave, Post, PostGivesUp, UserCall
<1>3. ASSUME NEW w \in Workers, NEW q \in Runs, PlainExecutor(w, q)
      PROVE  \/ run'[r] \notin Over
             \/ run'[r] \notin Missing /\ exec[w][r].at \in {"abandon", "result", "failing"}
  <2>1. CASE Abandon(w, q) \/ RecordFailure(w, q)
    <3>1. q = r /\ run'[r] \in {"cancelled", "failed"} BY <1>1, <2>1 DEF Abandon, RecordFailure
    <3> QED BY <2>1, <3>1 DEF Abandon, RecordFailure, Missing
  <2>2. CASE WriteResult(w, q)
    <3>1. q = r /\ run'[r] = exec[w][r].of /\ exec[w][r].at = "result" BY <1>1, <2>2 DEF WriteResult
    <3>2. exec[w][r].of \in Terminal BY <1>0, <3>1 DEF Executions
    <3> QED BY <3>1, <3>2 DEF Terminal, Missing
  <2>3. CASE \E status \in Active \union {"queued"} : SetRun(q, status)
    BY <1>1, <2>3 DEF Over, Terminal, Missing, Active
  <2>4. CASE UNCHANGED run BY <2>4
  <2> QED
    BY <1>3, <2>1, <2>2, <2>3, <2>4
    DEF PlainExecutor, Claim, Requeue, IdleCheck, IdleDeadline, Decide, NotIdle, MarkStopping,
        ReadServers, StopServers, Posted, Monitor, Active
<1>4. CASE UserCancels
  <2>1. user.run \in Runs BY <1>4 DEF UserCancels, RestTypes, Calls, NoCall
  <2>2. SetRun(user.run, "cancelled") /\ history' = [history EXCEPT !.loose = @ \union Executed(user.run)]
    BY <1>4 DEF UserCancels
  <2>3. user.run = r /\ run'[r] = "cancelled" BY <1>1, <2>1, <2>2
  <2>4. Executed(r) \subseteq history'.loose BY <1>0, <2>2, <2>3 DEF Histories
  <2> QED BY <1>4, <2>3, <2>4 DEF Missing
<1>5. CASE DeliverEvent
  <2>1. Head(events) \in Runs \X (Terminal \union {"running"}) BY <1>5 DEF DeliverEvent, RestTypes
  <2>2. Head(events)[1] = r /\ run'[r] = Head(events)[2] BY <1>1, <1>5, <2>1 DEF DeliverEvent
  <2> QED BY <1>5, <2>1, <2>2 DEF Over, Terminal, Missing
<1>6. CASE \E q \in Runs : DeleteRun(q) BY <1>0, <1>6 DEF DeleteRun
<1>7. CASE \/ LoseEvents \/ InferenceStep \/ JobStep \/ UNCHANGED vars
           \/ (\E w \in Workers : CrashWorker(w)) \/ \E p \in posts : StartJob(p)
  <2>1. UNCHANGED run
    BY <1>7 DEF LoseEvents, InferenceStep, JobStep, CheckBlocking, ReserveStart, SendStart,
       StartAnswered, StartGivesUp, LateStart, ClaimLease, ActivateLease, EndLease,
       UserStopsJob, Spawn, EndJob, CrashWorker, StartJob, vars
  <2> QED BY <2>1
<1>8. CASE Next
  BY <1>2, <1>3, <1>4, <1>5, <1>6, <1>7, <1>8, Steps DEF Over
<1> QED BY <1>7, <1>8

\* A run that was deleted under an executor is remembered, unless that is leaving.
MissingIsLoose ==
    \A w \in Workers, r \in Runs :
        exec[w][r].at \in Past \ {"leave"} /\ run[r] \in Missing => r \in history.loose

\* DELETE marks the runs it takes from an executor; one without a row leaves at once.
LEMMA MissingIsLooseStep ==
    HoldersInv /\ RestTypes /\ MissingIsLoose /\ [Next]_vars => MissingIsLoose'
<1> SUFFICES ASSUME HoldersInv, RestTypes, MissingIsLoose, [Next]_vars,
                    NEW v \in Workers, NEW q \in Runs,
                    exec'[v][q].at \in Past \ {"leave"}, run'[q] \in Missing
             PROVE  q \in history'.loose
  BY DEF MissingIsLoose
<1>0. exec \in [Workers -> [Runs -> Executions]] /\ history \in Histories
  BY DEF HoldersInv, PlaceTypes
<1>1. CASE run'[q] # run[q]
  <2>1. DeleteRun(q) BY <1>1, RunSteps
  <2>2. exec' = exec /\ history' = [history EXCEPT !.faults = @ + 1, !.loose = @ \union Executed(q)]
    BY <2>1 DEF DeleteRun
  <2>3. <<v, q>> \in gate BY <2>2 DEF HoldersInv, GateIsWithPast
  <2>4. q \in Executed(q) BY <2>3 DEF Executed
  <2> QED BY <1>0, <2>2, <2>4 DEF Histories
<1>2. CASE run'[q] = run[q]
  <2>1. CASE exec[v][q].at \in Past \ {"leave"} BY <1>2, <2>1, HistoryKept DEF MissingIsLoose
  <2>2. CASE exec[v][q].at \notin Past \ {"leave"}
    <3>1. gate = {} /\ (TryGate(v, q) \/ SourceGone(v, q)) BY <2>2, Arrivals
    <3>2. TryGate(v, q) BY <1>2, <3>1 DEF SourceGone
    <3>3. PICK stage \in {"leave", "requeue", "none"} : Goto(v, q, stage)
      <4>1. run[q] \in Missing BY <1>2
      <4>2. CASE Goto(v, q, Resumed(q, exec[v][q].of)) BY <4>1, <4>2 DEF Resumed
      <4>3. CASE Goto(v, q, IF exec[v][q].of = "waiting_for_idle" THEN "requeue" ELSE "none")
        <5>1. CASE exec[v][q].of = "waiting_for_idle" BY <4>3, <5>1
        <5>2. CASE exec[v][q].of # "waiting_for_idle" BY <4>3, <5>2
        <5> QED BY <5>1, <5>2
      <4> QED BY <3>2, <4>2, <4>3 DEF TryGate
    <3>4. exec'[v][q].at = stage BY <1>0, <3>3 DEF Goto, At
    <3> QED BY <3>3, <3>4 DEF Past
  <2> QED BY <2>1, <2>2
<1> QED BY <1>1, <1>2

\* A proper job is watched by an executor that was told of it.
JobsHeld ==
    \A r \in Runs : Proper(r) => \E w \in Workers : exec[w][r].at \in {"posted", "monitor"}

\* Its run is not over as long as it is watched.
WatchedGoesOn ==
    \A w \in Workers, r \in Runs :
        Proper(r) /\ exec[w][r].at = "monitor" => run[r] \notin Over

\* An event that tells the end of a job is not overtaken, but by a second job.
EndsOfEnded ==
    \A i \in DOMAIN events : events[i][2] \in Terminal =>
        /\ job[events[i][1]] # "none"
        /\ job[events[i][1]] \in Going => events[i][1] \in history.again

\* The second part: a proper job has a watcher, and that has the gate.
JobsInv == MissingIsLoose /\ JobsHeld /\ WatchedGoesOn /\ EndsOfEnded

\* Only one executor is past the gate.
LEMMA OnePast ==
    ASSUME HoldersInv, NEW v \in Workers, NEW w \in Workers, NEW q \in Runs, NEW r \in Runs,
           exec[v][q].at \in Past, exec[w][r].at \in Past
    PROVE  v = w /\ q = r
<1>1. <<v, q>> \in gate /\ <<w, r>> \in gate BY DEF HoldersInv, GateIsWithPast
<1>2. <<v, q>> = <<w, r>> BY <1>1 DEF HoldersInv, OneHolder
<1> QED BY <1>2

\* Nobody watching a proper job leaves it: _monitor_agent_run ends with the job or the run.
LEMMA JobsHeldStep == HoldersInv /\ RestTypes /\ JobsInv /\ [Next]_vars => JobsHeld'
<1> SUFFICES ASSUME HoldersInv, RestTypes, JobsInv, [Next]_vars, NEW r \in Runs, Proper(r)'
             PROVE  \E w \in Workers : exec'[w][r].at \in {"posted", "monitor"}
  BY DEF JobsHeld
<1>1. CASE ~Proper(r) BY <1>1, ProperSteps
<1>2. CASE Proper(r)
  <2>1. PICK w \in Workers : exec[w][r].at \in {"posted", "monitor"} BY <1>2 DEF JobsInv, JobsHeld
  <2>2. ~CrashWorker(w)
    <3> SUFFICES ASSUME CrashWorker(w) PROVE FALSE OBVIOUS
    <3>1. <<w, r>> \in gate \ gate'
      BY <2>1 DEF CrashWorker, HoldersInv, GateIsWithPast, Past
    <3>2. r \in Loose(r) BY <1>2 DEF Proper, Loose
    <3>3. r \in UNION {Loose(h[2]) : h \in gate \ gate'}
      <4>1. Loose(<<w, r>>[2]) \in {Loose(h[2]) : h \in gate \ gate'} BY <3>1
      <4> QED BY <3>2, <4>1
    <3>4. r \in history'.loose
      BY <3>3 DEF CrashWorker, HoldersInv, PlaceTypes, Histories
    <3> QED BY <3>4 DEF Proper
  <2>3. CASE exec'[w][r] = exec[w][r] BY <2>1, <2>3
  <2>4. CASE Monitor(w, r)
    <3>1. exec[w][r].at = "monitor" /\ (run[r] \in Over \/ job[r] \in Terminal)
      BY <2>4 DEF Monitor, Over
    <3>2. job[r] \notin Terminal BY <1>2 DEF Proper, Going, Terminal
    <3> QED BY <1>2, <3>1, <3>2 DEF JobsInv, WatchedGoesOn
  <2> QED BY <2>1, <2>2, <2>3, <2>4, Arrivals
<1> QED BY <1>1, <1>2

\* Whoever ends a run under its watcher makes its job loose or starts it again.
LEMMA WatchedGoesOnStep == HoldersInv /\ RestTypes /\ JobsInv /\ [Next]_vars => WatchedGoesOn'
<1> SUFFICES ASSUME HoldersInv, RestTypes, JobsInv, [Next]_vars, NEW w \in Workers, NEW r \in Runs,
                    Proper(r)', exec'[w][r].at = "monitor", run'[r] \in Over
             PROVE  FALSE
  BY DEF WatchedGoesOn
<1>1. HoldersInv' /\ r \notin history'.loose BY HoldersStep DEF Proper
<1>2. /\ exec \in [Workers -> [Runs -> Executions]] /\ history \in Histories
      /\ run \in [Runs -> RunStatus]
  BY DEF HoldersInv, PlaceTypes
<1>3. CASE ~Proper(r)
  <2>1. PICK p \in posts : p.to \in Workers /\ exec'[p.to][r].at = "posted" BY <1>3, ProperSteps
  <2>2. <<w, r>> \in gate' /\ <<p.to, r>> \in gate'
    BY <1>1, <2>1 DEF HoldersInv, GateIsWithPast, Past
  <2>3. <<w, r>> = <<p.to, r>> BY <1>1, <2>2 DEF HoldersInv, OneHolder
  <2> QED BY <2>1, <2>3
<1>4. CASE Proper(r)
  <2>1. PICK u \in Workers : exec[u][r].at \in {"posted", "monitor"} BY <1>4 DEF JobsInv, JobsHeld
  <2>2. <<u, r>> \in gate BY <2>1 DEF HoldersInv, GateIsWithPast, Past
  <2>3. CASE exec'[w][r] = exec[w][r]
    <3>1. exec[w][r].at = "monitor" /\ run[r] \notin Over
      BY <1>4, <2>3 DEF JobsInv, WatchedGoesOn
    <3>2. ~DeleteRun(r) /\ ~(UserCancels /\ Executed(r) \subseteq history'.loose)
      <4>1. <<w, r>> \in gate BY <3>1 DEF HoldersInv, GateIsWithPast, Past
      <4>2. r \in Executed(r) BY <4>1 DEF Executed
      <4>3. DeleteRun(r) => Executed(r) \subseteq history'.loose BY <1>2 DEF DeleteRun, Histories
      <4> QED BY <1>1, <4>2, <4>3
    <3>3. ~(DeliverEvent /\ Head(events)[1] = r /\ Head(events)[2] \in Terminal)
      <4> SUFFICES ASSUME DeliverEvent, Head(events)[1] = r, Head(events)[2] \in Terminal PROVE FALSE
        OBVIOUS
      <4>1. 1 \in DOMAIN events /\ Head(events) = events[1] BY DEF DeliverEvent, RestTypes
      <4>2. job[r] \in Going => r \in history.again BY <4>1 DEF JobsInv, EndsOfEnded
      <4> QED BY <1>4, <4>2 DEF Proper
    <3>4. ASSUME NEW v \in Workers, exec[v][r].at \in {"abandon", "result", "failing"} PROVE FALSE
      BY <3>1, <3>4, OnePast DEF Past
    <3> QED BY <3>1, <3>2, <3>3, <3>4, RunSteps
  <2>4. CASE exec'[w][r] # exec[w][r] /\ Posted(w, r)
    <3>1. exec[w][r].at = "posted" /\ SetRun(r, "running") BY <2>4 DEF Posted
    <3>2. r \notin history.loose BY <1>4 DEF Proper
    <3>3. run[r] \notin Missing BY <3>1, <3>2 DEF JobsInv, MissingIsLoose, Past
    <3>4. run'[r] = "running" BY <1>2, <3>1, <3>3 DEF SetRun, Written
    <3> QED BY <3>4 DEF Over, Terminal, Missing
  <2>5. CASE exec'[w][r] # exec[w][r] /\ TryGate(w, r)
    <3>1. exec[w][r].at \notin Past BY <2>5 DEF TryGate, Past
    <3>2. gate = {} BY <2>5, <3>1, Arrivals DEF Past
    <3> QED BY <2>2, <3>2
  <2> QED BY <2>3, <2>4, <2>5, Arrivals
<1> QED BY <1>3, <1>4

\* Where an event comes from.
LEMMA EventSteps ==
    ASSUME RestTypes, [Next]_vars, NEW i \in DOMAIN events'
    PROVE  \/ \E j \in DOMAIN events : events'[i] = events[j]
           \/ events'[i][2] = "running"
           \/ \E r \in Runs, status \in Terminal : EndJob(r, status) /\ events'[i] = <<r, status>>
<1>0. events \in Seq(Runs \X (Terminal \union {"running"})) BY DEF RestTypes
<1>1. CASE UNCHANGED events BY <1>1
<1>2. ASSUME NEW e, events' = Append(events, e)
      PROVE  (\E j \in DOMAIN events : events'[i] = events[j]) \/ events'[i] = e
  <2>1. i \in 1 .. Len(events) + 1 BY <1>0, <1>2
  <2>2. CASE i = Len(events) + 1 BY <1>0, <1>2, <2>2
  <2>3. CASE i \in 1 .. Len(events) BY <1>0, <1>2, <2>3
  <2> QED BY <1>0, <2>1, <2>2, <2>3
<1>3. CASE DeliverEvent
  <2>1. events # <<>> /\ events' = Tail(events) BY <1>3 DEF DeliverEvent
  <2>2. i \in 1 .. Len(events) - 1 /\ events'[i] = events[i + 1] BY <1>0, <2>1
  <2>3. i + 1 \in DOMAIN events BY <1>0, <2>2
  <2> QED BY <2>2, <2>3
<1>4. CASE LoseEvents BY <1>4 DEF LoseEvents
<1>5. CASE \E p \in posts : StartJob(p)
  <2>1. PICK p \in posts : StartJob(p) BY <1>5
  <2>2. CASE events' = Append(events, <<p.run, "running">>) BY <1>2, <2>2
  <2> QED BY <1>1, <2>1, <2>2 DEF StartJob
<1>6. ASSUME NEW r \in Runs, NEW status \in Terminal, EndJob(r, status)
      PROVE  (\E j \in DOMAIN events : events'[i] = events[j]) \/ events'[i] = <<r, status>>
  BY <1>2, <1>6 DEF EndJob
<1>7. CASE Next
  <2>1. ASSUME NEW w \in Workers, NEW q \in Runs,
               \/ CreateRun(w, q) \/ QueueLoop(w, q) \/ PlainExecutor(w, q)
               \/ TryGate(w, q) \/ SourceGone(w, q) \/ Leave(w, q)
               \/ Post(w, q) \/ PostGivesUp(w, q)
               \/ \E kind \in Decisions : UserCall(w, q, kind)
        PROVE  UNCHANGED events
    BY <2>1 DEF CreateRun, QueueLoop, TryGate, SourceGone, Leave, Post, PostGivesUp, UserCall,
       PlainExecutor, Claim, Requeue, IdleCheck, IdleDeadline, Decide, NotIdle, Abandon,
       MarkStopping, ReadServers, StopServers, Posted, Monitor, WriteResult, RecordFailure, bench
  <2>2. CASE \/ UserCancels \/ UserStopsJob \/ InferenceStep
             \/ (\E q \in Runs : DeleteRun(q) \/ Spawn(q)) \/ \E w \in Workers : CrashWorker(w)
    <3>1. UNCHANGED events
      BY <2>2 DEF UserCancels, UserStopsJob, DeleteRun, Spawn, CrashWorker, InferenceStep,
         CheckBlocking, ReserveStart, SendStart, StartAnswered, StartGivesUp, LateStart,
         ClaimLease, ActivateLease, EndLease, bench
    <3> QED BY <1>1, <3>1
  <2> QED BY <1>1, <1>3, <1>4, <1>5, <1>6, <1>7, <2>1, <2>2, Steps DEF JobStep
<1>8. CASE UNCHANGED vars BY <1>1, <1>8 DEF vars, bench
<1> QED BY <1>7, <1>8

\* EndJob sends the event as the job ends, and StartJob remembers a second job.
LEMMA EndsOfEndedStep == HoldersInv /\ RestTypes /\ JobsInv /\ [Next]_vars => EndsOfEnded'
<1> SUFFICES ASSUME HoldersInv, RestTypes, JobsInv, [Next]_vars, NEW i \in DOMAIN events',
                    events'[i][2] \in Terminal
             PROVE  /\ job'[events'[i][1]] # "none"
                    /\ job'[events'[i][1]] \in Going => events'[i][1] \in history'.again
  BY DEF EndsOfEnded
<1>1. CASE \E j \in DOMAIN events : events'[i] = events[j]
  <2>1. PICK j \in DOMAIN events : events'[i] = events[j] BY <1>1
  <2> DEFINE r == events[j][1]
  <2>2. r \in Runs
    <3>1. events[j] \in Runs \X (Terminal \union {"running"}) BY DEF RestTypes
    <3> QED BY <3>1
  <2>3. job[r] # "none" /\ (job[r] \in Going => r \in history.again)
    BY <2>1 DEF JobsInv, EndsOfEnded
  <2>4. job'[r] # "none" /\ (job'[r] \in Going => r \in history'.again)
    <3> HIDE DEF r
    <3>1. CASE job'[r] = job[r] BY <2>3, <3>1, HistoryKept
    <3>2. CASE job[r] \in Going /\ job'[r] \in Going BY <2>3, <3>2, HistoryKept DEF Going
    <3>3. CASE job'[r] \in Terminal BY <3>3 DEF Going, Terminal
    <3>4. CASE /\ job'[r] # job[r]
               /\ \E p \in posts : StartJob(p) /\ p.run = r /\ job'[r] = "starting"
      BY <2>2, <2>3, <3>4, StartedAgain
    <3> QED BY <2>2, <3>1, <3>2, <3>3, <3>4, JobSteps
  <2> QED BY <2>1, <2>4
<1>2. CASE \E r \in Runs, status \in Terminal : EndJob(r, status) /\ events'[i] = <<r, status>>
  <2>1. PICK r \in Runs, status \in Terminal : EndJob(r, status) /\ events'[i] = <<r, status>>
    BY <1>2
  <2>2. job'[r] = status BY <2>1 DEF EndJob, RestTypes
  <2> QED BY <2>1, <2>2 DEF Terminal, Going
<1> QED BY <1>1, <1>2, EventSteps DEF Terminal

\* The four hold together.
LEMMA JobsStep == HoldersInv /\ RestTypes /\ JobsInv /\ [Next]_vars => JobsInv'
BY MissingIsLooseStep, JobsHeldStep, WatchedGoesOnStep, EndsOfEndedStep DEF JobsInv

-------------------------------------------------------------------------------
(* The server and the requests *)

\* A start that was sent holds the gate, shared, until its caller has the answer or gives
\* up; only in the second case does the process come up behind the row's back.
StartsInv ==
    /\ starter = "late" => server.row = "error"
    /\ starter \in {"checked", "waiting", "sent"} => ~server.up
    /\ starter = "sent" => gate = {} /\ server.row = "starting"
    /\ server.up => server.row \in {"running", "error"}

\* What is to be stopped is still as it was read.
CutInv ==
    \A w \in Workers, r \in Runs : exec[w][r].at = "stop" =>
        IF cut THEN starter # "late" ELSE server.row # "running"

\* From the stop of the servers to the end of the job none of them runs.
AloneInv ==
    \A r \in Runs :
        Proper(r) \/ (\E w \in Workers : exec[w][r].at \in {"post", "posting", "posted"}) =>
            server.row # "running"

\* A request is left between the idle check and the stop only if the check could not see it.
Spared ==
    \A w \in Workers, r \in Runs :
        exec[w][r].at \in {"mark", "read", "stop"} /\ lease # "none" => history.excused

\* What executors and workers do to the rest: they stop servers.
LEMMA ServerSteps ==
    ASSUME [Next]_vars
    PROVE  \/ \E w \in Workers, r \in Runs : StopServers(w, r)
           \/ UNCHANGED gate /\ InferenceStep
           \/ UNCHANGED inference
<1>1. CASE \E w \in Workers, r \in Runs :
                 \/ CreateRun(w, r) \/ QueueLoop(w, r) \/ PlainExecutor(w, r)
                 \/ TryGate(w, r) \/ SourceGone(w, r) \/ Leave(w, r)
                 \/ Post(w, r) \/ PostGivesUp(w, r)
                 \/ \E kind \in Decisions : UserCall(w, r, kind)
  BY <1>1 DEF CreateRun, QueueLoop, TryGate, SourceGone, Leave, Post, PostGivesUp, UserCall,
     PlainExecutor, Claim, Requeue, IdleCheck, IdleDeadline, Decide, NotIdle, Abandon,
     MarkStopping, ReadServers, Posted, Monitor, WriteResult, RecordFailure
<1>2. CASE \/ UserCancels \/ DeliverEvent \/ LoseEvents \/ JobStep
           \/ (\E r \in Runs : DeleteRun(r)) \/ (\E w \in Workers : CrashWorker(w))
           \/ \E p \in posts : StartJob(p)
  BY <1>2 DEF UserCancels, DeliverEvent, LoseEvents, DeleteRun, CrashWorker, StartJob, JobStep,
     UserStopsJob, Spawn, EndJob
<1>3. CASE InferenceStep
  BY <1>3 DEF InferenceStep, CheckBlocking, ReserveStart, SendStart, StartAnswered,
     StartGivesUp, LateStart, ClaimLease, ActivateLease, EndLease
<1>4. CASE UNCHANGED vars BY <1>4 DEF vars, inference
<1>5. CASE Next BY <1>1, <1>2, <1>3, <1>5, Steps
<1> QED BY <1>4, <1>5

\* Whoever gets the gate finds no start under way.
LEMMA GateGained ==
    ASSUME HoldersInv, [Next]_vars, gate = {}, gate' # {}
    PROVE  starter # "sent" /\ UNCHANGED inference
<1>2. CASE \E w \in Workers, r \in Runs : TryGate(w, r) \/ SourceGone(w, r)
  BY <1>2 DEF TryGate, SourceGone, GateIsFree
<1>3. CASE \E w \in Workers, r \in Runs :
                 \/ CreateRun(w, r) \/ QueueLoop(w, r) \/ PlainExecutor(w, r) \/ Leave(w, r)
                 \/ Post(w, r) \/ PostGivesUp(w, r)
                 \/ \E kind \in Decisions : UserCall(w, r, kind)
  <2>1. UNCHANGED gate \/ gate' = {}
    BY <1>3 DEF CreateRun, QueueLoop, Leave, Post, PostGivesUp, UserCall,
       PlainExecutor, Claim, Requeue, IdleCheck, IdleDeadline, Decide, NotIdle, Abandon,
       MarkStopping, ReadServers, StopServers, Posted, Monitor, WriteResult, RecordFailure
  <2> QED BY <2>1
<1>4. CASE \/ UserCancels \/ DeliverEvent \/ LoseEvents \/ JobStep \/ InferenceStep \/ UNCHANGED vars
           \/ (\E r \in Runs : DeleteRun(r)) \/ (\E w \in Workers : CrashWorker(w))
           \/ \E p \in posts : StartJob(p)
  <2>1. gate' \subseteq gate
    BY <1>4 DEF UserCancels, DeliverEvent, LoseEvents, DeleteRun, CrashWorker, StartJob, JobStep,
       UserStopsJob, Spawn, EndJob, InferenceStep, CheckBlocking, ReserveStart, SendStart,
       StartAnswered, StartGivesUp, LateStart, ClaimLease, ActivateLease, EndLease, vars
  <2> QED BY <2>1
<1>5. CASE Next BY <1>2, <1>3, <1>4, <1>5, Steps
<1> QED BY <1>4, <1>5

\* The third part: what the gate keeps from the server and its requests.
ServerInv == StartsInv /\ CutInv /\ AloneInv /\ Spared

\* The gate keeps starts and executors apart: _send_start_with_gate and _try_exclusive_gate.
LEMMA StartsStep == HoldersInv /\ RestTypes /\ ServerInv /\ [Next]_vars => StartsInv'
<1> SUFFICES ASSUME HoldersInv, RestTypes, ServerInv, [Next]_vars PROVE StartsInv' OBVIOUS
<1>0. server \in [row : {"stopped", "starting", "running", "error"}, up : BOOLEAN] BY DEF RestTypes
<1>1. ASSUME NEW w \in Workers, NEW r \in Runs, StopServers(w, r) PROVE StartsInv'
  <2>1. exec[w][r].at = "stop" /\ UNCHANGED <<starter, gate>> BY <1>1 DEF StopServers
  <2>2. <<w, r>> \in gate BY <2>1 DEF HoldersInv, GateIsWithPast, Past
  <2>3. starter # "sent" BY <2>2 DEF ServerInv, StartsInv
  <2>4. cut => starter # "late" BY <2>1 DEF ServerInv, CutInv
  <2>5. CASE UNCHANGED server BY <2>1, <2>3, <2>5 DEF ServerInv, StartsInv
  <2>6. CASE cut /\ server' = [row |-> "stopped", up |-> FALSE]
    BY <2>1, <2>3, <2>4, <2>6 DEF ServerInv, StartsInv
  <2>7. CASE cut /\ server' = [server EXCEPT !.row = "error"]
    BY <1>0, <2>1, <2>3, <2>4, <2>7 DEF ServerInv, StartsInv
  <2> QED BY <1>1, <2>5, <2>6, <2>7 DEF StopServers
<1>2. CASE UNCHANGED gate /\ InferenceStep
  <2>1. CASE CheckBlocking BY <1>2, <2>1 DEF CheckBlocking, ServerInv, StartsInv
  <2>2. CASE ReserveStart BY <1>0, <1>2, <2>2 DEF ReserveStart, ServerInv, StartsInv
  <2>3. CASE SendStart BY <1>2, <2>3 DEF SendStart, ServerInv, StartsInv
  <2>4. CASE StartAnswered BY <1>0, <1>2, <2>4 DEF StartAnswered, ServerInv, StartsInv
  <2>5. CASE StartGivesUp BY <1>0, <1>2, <2>5 DEF StartGivesUp, ServerInv, StartsInv
  <2>6. CASE LateStart BY <1>0, <1>2, <2>6 DEF LateStart, ServerInv, StartsInv
  <2>7. CASE UNCHANGED <<server, starter>> BY <1>2, <2>7 DEF ServerInv, StartsInv
  <2> QED
    BY <1>2, <2>1, <2>2, <2>3, <2>4, <2>5, <2>6, <2>7
    DEF InferenceStep, ClaimLease, ActivateLease, EndLease
<1>3. CASE UNCHANGED inference
  <2>1. starter = "sent" => gate' = {} BY <1>3, GateGained DEF ServerInv, StartsInv
  <2> QED BY <1>3, <2>1 DEF inference, ServerInv, StartsInv
<1> QED BY <1>1, <1>2, <1>3, ServerSteps

\* Nothing starts between the list of _stop_servers and its stops.
LEMMA CutStep == HoldersInv /\ RestTypes /\ ServerInv /\ [Next]_vars => CutInv'
<1> SUFFICES ASSUME HoldersInv, RestTypes, ServerInv, [Next]_vars,
                    NEW w \in Workers, NEW r \in Runs, exec'[w][r].at = "stop"
             PROVE  IF cut' THEN starter' # "late" ELSE server'.row # "running"
  BY DEF CutInv
<1>0. /\ server \in [row : {"stopped", "starting", "running", "error"}, up : BOOLEAN]
      /\ exec \in [Workers -> [Runs -> Executions]]
  BY DEF HoldersInv, PlaceTypes, RestTypes
<1>1. CASE exec'[w][r] # exec[w][r]
  <2>1. ReadServers(w, r) BY <1>1, Arrivals
  <2> QED BY <1>0, <2>1 DEF ReadServers, inference, ServerInv, StartsInv
<1>2. CASE exec'[w][r] = exec[w][r]
  <2>1. exec[w][r].at = "stop" /\ (IF cut THEN starter # "late" ELSE server.row # "running")
    BY <1>2 DEF ServerInv, CutInv
  <2>2. <<w, r>> \in gate /\ starter # "sent"
    BY <2>1 DEF HoldersInv, GateIsWithPast, Past, ServerInv, StartsInv
  <2>3. <<w, r>> \in gate' BY <1>2, <2>1, HoldersStep DEF HoldersInv, GateIsWithPast, Past
  <2>4. ASSUME NEW v \in Workers, NEW q \in Runs, ReadServers(v, q) \/ StopServers(v, q)
        PROVE  FALSE
    <3>1. exec[v][q].at \in Past BY <2>4 DEF ReadServers, StopServers, Past
    <3>2. v = w /\ q = r BY <2>1, <3>1, OnePast DEF Past
    <3>3. PICK stage \in {"stop", "post", "failing"} :
             Goto(w, r, stage) /\ (stage = "stop" => exec[w][r].at = "read")
      BY <2>4, <3>2 DEF ReadServers, StopServers
    <3>4. exec'[w][r].at = stage BY <1>0, <3>3 DEF Goto, At
    <3> QED BY <1>2, <2>1, <3>3, <3>4
  <2>5. cut' = cut
    <3>1. CASE \E v \in Workers : CrashWorker(v)
      BY <2>3, <3>1 DEF CrashWorker, RestTypes
    <3>2. CASE \E v \in Workers, q \in Runs :
                 \/ CreateRun(v, q) \/ QueueLoop(v, q) \/ PlainExecutor(v, q)
                 \/ TryGate(v, q) \/ SourceGone(v, q) \/ Leave(v, q)
                 \/ Post(v, q) \/ PostGivesUp(v, q)
                 \/ \E kind \in Decisions : UserCall(v, q, kind)
      BY <2>4, <3>2 DEF CreateRun, QueueLoop, TryGate, SourceGone, Leave, Post, PostGivesUp,
         UserCall, PlainExecutor, Claim, Requeue, IdleCheck, IdleDeadline, Decide, NotIdle,
         Abandon, MarkStopping, Posted, Monitor, WriteResult, RecordFailure
    <3>3. CASE \/ UserCancels \/ DeliverEvent \/ LoseEvents \/ JobStep \/ InferenceStep
               \/ UNCHANGED vars \/ (\E q \in Runs : DeleteRun(q)) \/ \E p \in posts : StartJob(p)
      BY <3>3 DEF UserCancels, DeliverEvent, LoseEvents, DeleteRun, StartJob, JobStep,
         UserStopsJob, Spawn, EndJob, InferenceStep, CheckBlocking, ReserveStart, SendStart,
         StartAnswered, StartGivesUp, LateStart, ClaimLease, ActivateLease, EndLease, vars
    <3>4. CASE Next BY <3>1, <3>2, <3>3, <3>4, Steps
    <3> QED BY <3>3, <3>4
  <2>6. CASE UNCHANGED inference BY <2>1, <2>5, <2>6 DEF inference
  <2>7. CASE InferenceStep
    <3>1. starter' # "late" \/ starter = "late"
      BY <2>2, <2>7 DEF InferenceStep, CheckBlocking, ReserveStart, SendStart, StartAnswered,
         StartGivesUp, LateStart, ClaimLease, ActivateLease, EndLease
    <3>2. server'.row # "running" \/ server.row = "running"
      BY <1>0, <2>2, <2>7 DEF InferenceStep, CheckBlocking, ReserveStart, SendStart, StartAnswered,
         StartGivesUp, LateStart, ClaimLease, ActivateLease, EndLease
    <3> QED BY <2>1, <2>5, <3>1, <3>2
  <2> QED BY <2>4, <2>6, <2>7, ServerSteps
<1> QED BY <1>1, <1>2

\* While somebody holds the gate no server becomes "running".
LEMMA NobodyStarts ==
    ASSUME HoldersInv, RestTypes, ServerInv, [Next]_vars, gate # {}, server'.row = "running"
    PROVE  server.row = "running"
<1>0. server \in [row : {"stopped", "starting", "running", "error"}, up : BOOLEAN] BY DEF RestTypes
<1>1. starter # "sent" BY DEF ServerInv, StartsInv
<1>2. CASE \E w \in Workers, r \in Runs : StopServers(w, r) BY <1>0, <1>2 DEF StopServers
<1>3. CASE InferenceStep
  BY <1>0, <1>1, <1>3 DEF InferenceStep, CheckBlocking, ReserveStart, SendStart, StartAnswered,
     StartGivesUp, LateStart, ClaimLease, ActivateLease, EndLease
<1>4. CASE UNCHANGED inference BY <1>4 DEF inference
<1> QED BY <1>2, <1>3, <1>4, ServerSteps

\* _stop_servers leaves no server running, and none starts before the job has ended.
LEMMA AloneStep == HoldersInv /\ RestTypes /\ JobsInv /\ ServerInv /\ [Next]_vars => AloneInv'
<1> SUFFICES ASSUME HoldersInv, RestTypes, JobsInv, ServerInv, [Next]_vars, NEW r \in Runs,
                    Proper(r)' \/ \E w \in Workers : exec'[w][r].at \in {"post", "posting", "posted"},
                    server'.row = "running"
             PROVE  FALSE
  BY DEF AloneInv
<1>0. /\ server \in [row : {"stopped", "starting", "running", "error"}, up : BOOLEAN]
      /\ exec \in [Workers -> [Runs -> Executions]]
  BY DEF HoldersInv, PlaceTypes, RestTypes
<1>1. CASE Proper(r)
  <2>1. gate # {} BY <1>1 DEF JobsInv, JobsHeld, HoldersInv, GateIsWithPast, Past
  <2> QED BY <1>1, <2>1, NobodyStarts DEF ServerInv, AloneInv
<1>2. ASSUME NEW w \in Workers, exec[w][r].at \in {"post", "posting", "posted"} PROVE FALSE
  <2>1. gate # {} BY <1>2 DEF HoldersInv, GateIsWithPast, Past
  <2> QED BY <1>2, <2>1, NobodyStarts DEF ServerInv, AloneInv
<1>3. CASE Proper(r)' /\ ~Proper(r) BY <1>2, <1>3, ProperSteps
<1>4. ASSUME NEW w \in Workers, exec'[w][r].at \in {"post", "posting", "posted"} PROVE FALSE
  <2>1. CASE exec'[w][r] = exec[w][r] BY <1>2, <1>4, <2>1
  <2>2. CASE exec'[w][r] # exec[w][r]
    <3>1. exec[w][r].at = "posting" \/ Post(w, r) \/ StopServers(w, r) BY <1>4, <2>2, Arrivals
    <3>2. ~Post(w, r) /\ exec[w][r].at # "posting" BY <1>2 DEF Post
    <3>3. StopServers(w, r) BY <3>1, <3>2
    <3>4. exec[w][r].at = "stop" BY <3>3 DEF StopServers
    <3>5. gate # {} /\ (cut \/ server.row # "running")
      BY <3>4 DEF HoldersInv, GateIsWithPast, Past, ServerInv, CutInv
    <3>6. cut BY <3>5, NobodyStarts
    <3>7. server'.row # "running" BY <1>0, <3>3, <3>6 DEF StopServers
    <3> QED BY <3>7
  <2> QED BY <2>1, <2>2
<1> QED BY <1>1, <1>3, <1>4

\* Only an idle check withdraws the excuse.
LEMMA ExcusedKept ==
    ASSUME HoldersInv, [Next]_vars, history.excused,
           \A w \in Workers, r \in Runs : ~IdleCheck(w, r)
    PROVE  history'.excused
<1>0. history \in Histories BY DEF HoldersInv, PlaceTypes
<1>1. CASE UNCHANGED history BY <1>1
<1>2. ASSUME NEW w \in Workers, NEW r \in Runs,
             \/ CreateRun(w, r) \/ QueueLoop(w, r) \/ PlainExecutor(w, r)
             \/ TryGate(w, r) \/ SourceGone(w, r) \/ Leave(w, r)
             \/ Post(w, r) \/ PostGivesUp(w, r)
             \/ \E kind \in Decisions : UserCall(w, r, kind)
      PROVE  history'.excused
  <2>1. CASE TryGate(w, r)
    <3>1. CASE history' = [history EXCEPT !.excused = @ \/ exec[w][r].of = "stopping_servers"]
      <4>1. history' = [history EXCEPT !.excused = TRUE] BY <1>0, <3>1 DEF Histories
      <4> QED BY <1>0, <4>1 DEF Histories
    <3> QED BY <1>1, <2>1, <3>1 DEF TryGate
  <2>2. CASE \/ SourceGone(w, r) \/ PostGivesUp(w, r) \/ StopServers(w, r)
             \/ \E kind \in Decisions : UserCall(w, r, kind)
    BY <1>0, <2>2 DEF SourceGone, PostGivesUp, StopServers, UserCall, Trouble, Histories
  <2> QED
    BY <1>1, <1>2, <2>1, <2>2
    DEF CreateRun, QueueLoop, Leave, Post, PlainExecutor, Claim, Requeue, IdleDeadline, Decide,
        NotIdle, Abandon, MarkStopping, ReadServers, Posted, Monitor, WriteResult, RecordFailure
<1>3. CASE \/ LoseEvents \/ UserCancels \/ StartGivesUp \/ (\E r \in Runs : DeleteRun(r))
           \/ (\E p \in posts : StartJob(p)) \/ \E w \in Workers : CrashWorker(w)
  BY <1>0, <1>3 DEF LoseEvents, UserCancels, StartGivesUp, DeleteRun, StartJob, CrashWorker,
     Trouble, Histories
<1>4. CASE DeliverEvent \/ (InferenceStep /\ ~StartGivesUp) \/ JobStep \/ UNCHANGED vars
  <2>1. UNCHANGED history
    BY <1>4 DEF DeliverEvent, InferenceStep, JobStep, CheckBlocking, ReserveStart, SendStart,
       StartAnswered, LateStart, ClaimLease, ActivateLease, EndLease, UserStopsJob, Spawn,
       EndJob, vars
  <2> QED BY <1>1, <2>1
<1>5. CASE Next BY <1>2, <1>3, <1>4, <1>5, Steps
<1> QED BY <1>4, <1>5

\* _claim needs the gate, so that no lease begins after the idle check.
LEMMA SparedStep == HoldersInv /\ RestTypes /\ ServerInv /\ [Next]_vars => Spared'
<1> SUFFICES ASSUME HoldersInv, RestTypes, ServerInv, [Next]_vars, NEW w \in Workers, NEW r \in Runs,
                    exec'[w][r].at \in {"mark", "read", "stop"}, lease' # "none"
             PROVE  history'.excused
  BY DEF Spared
<1>0. /\ exec \in [Workers -> [Runs -> Executions]] /\ history \in Histories
  BY DEF HoldersInv, PlaceTypes
<1>1. CASE exec'[w][r] # exec[w][r] /\ IdleCheck(w, r)
  <2>1. exec[w][r].at = "idle" /\ UNCHANGED lease BY <1>1 DEF IdleCheck, inference
  <2>2. lease = "reserving" /\ history' = [history EXCEPT !.excused = lease = "reserving"]
    <3>1. CASE \E stage \in {"notidle", "deadline"} : Goto(w, r, stage)
      BY <1>0, <3>1 DEF Goto, At
    <3>2. CASE lease # "active" /\ history' = [history EXCEPT !.excused = lease = "reserving"]
      BY <2>1, <3>2 DEF RestTypes
    <3> QED BY <1>1, <3>1, <3>2 DEF IdleCheck
  <2>3. history' = [history EXCEPT !.excused = TRUE] BY <2>2
  <2> QED BY <1>0, <2>3 DEF Histories
<1>2. CASE exec'[w][r] # exec[w][r] /\ TryGate(w, r)
  <2>1. exec[w][r].at = "gate" /\ exec[w][r].of \in Resumable BY <1>0, <1>2 DEF TryGate, Executions
  <2>2. CASE exec[w][r].of = "stopping_servers"
    <3>1. CASE history' = [history EXCEPT !.excused = @ \/ exec[w][r].of = "stopping_servers"]
      <4>1. history' = [history EXCEPT !.excused = TRUE] BY <1>0, <2>2, <3>1 DEF Histories
      <4> QED BY <1>0, <4>1 DEF Histories
    <3>2. CASE \E stage \in {"requeue", "none"} : Goto(w, r, stage)
      BY <1>0, <3>2 DEF Goto, At
    <3> QED BY <1>2, <3>1, <3>2 DEF TryGate
  <2>3. CASE exec[w][r].of # "stopping_servers"
    <3>1. PICK stage \in {"leave", "monitor", "idle", "requeue", "none"} : Goto(w, r, stage)
      BY <1>2, <2>1, <2>3 DEF TryGate, Resumed, Resumable
    <3> QED BY <1>0, <3>1 DEF Goto, At
  <2> QED BY <2>2, <2>3
<1>3. CASE exec[w][r].at \in {"mark", "read", "stop"}
  <2>1. <<w, r>> \in gate BY <1>3 DEF HoldersInv, GateIsWithPast, Past
  <2>2. lease # "none"
    <3>1. CASE \E v \in Workers, q \in Runs : StopServers(v, q) BY <3>1 DEF StopServers
    <3>2. CASE InferenceStep
      BY <2>1, <3>2 DEF InferenceStep, CheckBlocking, ReserveStart, SendStart, StartAnswered,
         StartGivesUp, LateStart, ClaimLease, ActivateLease, EndLease
    <3>3. CASE UNCHANGED inference BY <3>3 DEF inference
    <3> QED BY <3>1, <3>2, <3>3, ServerSteps
  <2>3. history.excused BY <1>3, <2>2 DEF ServerInv, Spared
  <2>4. ASSUME NEW v \in Workers, NEW q \in Runs, IdleCheck(v, q) PROVE FALSE
    <3>1. exec[v][q].at = "idle" BY <2>4 DEF IdleCheck
    <3>2. v = w /\ q = r BY <1>3, <3>1, OnePast DEF Past
    <3> QED BY <1>3, <3>1, <3>2
  <2> QED BY <1>0, <2>3, <2>4, ExcusedKept
<1> QED BY <1>1, <1>2, <1>3, Arrivals DEF MarkStopping, ReadServers

\* The four hold together.
LEMMA ServerStep == HoldersInv /\ RestTypes /\ JobsInv /\ ServerInv /\ [Next]_vars => ServerInv'
BY StartsStep, CutStep, AloneStep, SparedStep DEF ServerInv

FullInv == HoldersInv /\ RestTypes /\ JobsInv /\ ServerInv

\* The inductive invariant: who holds the gate, what its jobs are, what the server does.
LEMMA FullInvariant == Spec => []FullInv
<1>1. Init => FullInv
  <2>1. Init => JobsInv
    BY DEF Init, At, Past, JobsInv, MissingIsLoose, JobsHeld, WatchedGoesOn, EndsOfEnded, Proper, Going
  <2>2. Init => ServerInv
    BY DEF Init, At, ServerInv, StartsInv, CutInv, AloneInv, Spared, Proper, Going
  <2> QED BY <2>1, <2>2, InitTypes DEF FullInv
<1>2. FullInv /\ [Next]_vars => FullInv'
  BY HoldersStep, RestTypesStep, JobsStep, ServerStep DEF FullInv, HoldersInv
<1> QED BY <1>1, <1>2, PTL DEF Spec

\* The first job of a run that was not given up runs while an executor holds the gate.
THEOREM JobsRunUnderTheGate == Spec => []BenchUnderGate
<1>1. FullInv => BenchUnderGate
  BY DEF FullInv, HoldersInv, GateIsWithPast, JobsInv, JobsHeld, BenchUnderGate, Past
<1> QED BY <1>1, FullInvariant, PTL

\* No inference server is up or coming up beside the first job of a run.
THEOREM JobsRunAlone == Spec => []BenchAlone
<1>1. FullInv => BenchAlone
  <2> SUFFICES ASSUME FullInv, NEW r \in Runs, Proper(r)
               PROVE  server.row # "running" /\ starter # "sent" /\ (server.up => server.row = "error")
    BY DEF BenchAlone
  <2>1. gate # {} BY DEF FullInv, JobsInv, JobsHeld, HoldersInv, GateIsWithPast, Past
  <2> QED BY <2>1 DEF FullInv, ServerInv, StartsInv, AloneInv
<1> QED BY <1>1, FullInvariant, PTL

\* A benchmark ends no request that its idle check could see.
THEOREM SeenRequestsAreSpared == Spec => RequestsAreSpared
<1>1. FullInv /\ [Next]_vars =>
        [server.up /\ ~server'.up /\ lease = "active" => history.excused]_vars
  <2> SUFFICES ASSUME FullInv, [Next]_vars, server.up, ~server'.up, lease = "active"
               PROVE  history.excused
    OBVIOUS
  <2>0. server \in [row : {"stopped", "starting", "running", "error"}, up : BOOLEAN]
    BY DEF FullInv, RestTypes
  <2>1. CASE \E w \in Workers, r \in Runs : StopServers(w, r)
    BY <2>1 DEF StopServers, FullInv, ServerInv, Spared
  <2>2. CASE InferenceStep
    BY <2>0, <2>2 DEF InferenceStep, CheckBlocking, ReserveStart, SendStart, StartAnswered,
       StartGivesUp, LateStart, ClaimLease, ActivateLease, EndLease
  <2>3. CASE UNCHANGED inference BY <2>3 DEF inference
  <2> QED BY <2>1, <2>2, <2>3, ServerSteps
<1> QED BY <1>1, FullInvariant, PTL DEF Spec, RequestsAreSpared

==============================================================================
