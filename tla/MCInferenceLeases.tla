-------------------------- MODULE MCInferenceLeases --------------------------
(* Model-checking instances of InferenceLeases. *)
EXTENDS InferenceLeases, TLC

Symmetry ==
    Permutations(Requests) \union Permutations(Servers) \union Permutations(Reconcilers)

(* Every request may run on every server. *)
AnyServer == [l \in Requests |-> Servers]
===============================================================================
