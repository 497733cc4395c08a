----------------------------- MODULE MCAgentSlots -----------------------------
(* Instances of AgentSlots for TLC. *)
EXTENDS AgentSlots, TLC

Symmetry == Permutations(ReservedOps) \union Permutations(Tokens)
===============================================================================
