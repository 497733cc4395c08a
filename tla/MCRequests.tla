----------------------------- MODULE MCRequests -----------------------------
(* The parts of the backend that handle a request share no state: one run checks them all, *)
(* in each behaviour one of them moves and the others stay where they begin.               *)
EXTENDS InferenceRequests, ResponseItems, Conversations

VARIABLE part   \* the one that moves

vars == <<part, rvars, ivars, cvars>>

AllKinds == Kinds

Init ==
    /\ part \in {"requests", "items", "conversations"}
    /\ RequestsInit /\ (part # "requests" => req = CHOOSE r \in Requests : TRUE)
    /\ ItemsInit /\ (part # "items" => turn = CHOOSE t \in Turns : TRUE)
    /\ ConversationsInit

Requesting(A) == part = "requests" /\ A /\ UNCHANGED <<part, ivars, cvars>>
Streaming(A) == part = "items" /\ A /\ UNCHANGED <<part, rvars, cvars>>
Conversing(A) == part = "conversations" /\ A /\ UNCHANGED <<part, rvars, ivars>>

Next == Requesting(RequestsNext) \/ Streaming(ItemsNext) \/ Conversing(ConversationsNext)

(* RequestsFairness and ConversationsFairness, of the part that moves. *)
Fairness ==
    /\ WF_vars(Requesting(Handler)) /\ WF_vars(Requesting(Cancel))
    /\ WF_vars(Requesting(Headers \/ WorkerLost)) /\ WF_vars(Requesting(WorkerCloses))
    /\ WF_vars(Requesting(ReadLine \/ ReadLost)) /\ WF_vars(Requesting(Monitor))
    /\ WF_vars(Requesting(\E o \in Outcomes : WriteRow(o)))
    /\ \A s \in Sockets : WF_vars(Conversing(SeeGone(s))) /\ WF_vars(Conversing(Loop(s)))

Spec == Init /\ [][Next]_vars /\ Fairness

(* The types of the three parts. *)
TypeOK == RequestsTypeOK /\ ItemsTypeOK /\ ConversationsTypeOK

(* Every row that became active ends, and so does every handler that has its target. *)
RequestsEnd == RowEnds /\ HandlerEnds
===============================================================================
