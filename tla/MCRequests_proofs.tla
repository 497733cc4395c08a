-------------------------- MODULE MCRequests_proofs --------------------------
(***************************************************************************)
(* What is proved of the parts that handle a request, each by itself,      *)
(* holds where they stand side by side: MCRequests, the specification that *)
(* the run "requests" checks, is one of each of them.                      *)
(***************************************************************************)
EXTENDS MCRequests, InferenceRequests_proofs, ResponseItems_proofs, Conversations_proofs

(* The routes, the translator of a response and the connections share no   *)
(* state: whatever part moves, each sees a behaviour of its own.           *)
THEOREM PartsAreThemselves == Spec => RequestsSpec /\ ItemsSpec /\ ConversationsSpec
<1>1. Init => RequestsInit /\ ItemsInit /\ ConversationsInit
  BY DEF Init
<1>2. [Next]_vars => [RequestsNext]_rvars /\ [ItemsNext]_ivars /\ [ConversationsNext]_cvars
  <2>1. CASE Requesting(RequestsNext) BY <2>1 DEF Requesting
  <2>2. CASE Streaming(ItemsNext) BY <2>2 DEF Streaming
  <2>3. CASE Conversing(ConversationsNext) BY <2>3 DEF Conversing
  <2>4. CASE UNCHANGED vars BY <2>4 DEF vars
  <2> QED BY <2>1, <2>2, <2>3, <2>4 DEF Next
<1> QED BY <1>1, <1>2, PTL DEF Spec, RequestsSpec, ItemsSpec, ConversationsSpec

(* Every variable of the three parts keeps its type, side by side.         *)
THEOREM TypeCorrect == Spec => []TypeOK
<1>1. RequestsTypeOK /\ ItemsTypeOK /\ ConversationsTypeOK => TypeOK
  BY DEF TypeOK
<1> QED BY <1>1, PartsAreThemselves, RequestsTypeCorrect, ItemsTypeCorrect,
           ConversationsTypeCorrect, PTL

(* What each part promises, it promises here: one sample per request that  *)
(* says how it ended, the lease given back after the answer and the record *)
(* that matches it; events that stay inside their item and add up to what  *)
(* was answered; and histories that are the conversation.                  *)
THEOREM PartsKeepTheirPromises ==
    Spec => /\ [](SampledOnce /\ OutcomeMatchesSample /\ ReleasedAfterUpstream)
            /\ [](LinesArrive /\ StoredIsLastWord)
            /\ [](EventsAreInsideTheirItem /\ DeltasAddUp /\ OutputIsWhatEnded)
            /\ []HistoryIsTheConversation
BY PartsAreThemselves, OneSample, RowMatchesSample, UpstreamFirst, AllLinesArrive,
   RecordIsLastWord, EventsAreInside, DeltasAreTheText, CompletedOutput,
   ConversationsContinue, PTL

===============================================================================
