----------------------------- MODULE MCBenchmarks -----------------------------
(* Model-checking instances of Benchmarks. *)
EXTENDS Benchmarks, TLC

Alike == Permutations(Workers) \union Permutations(Runs)
===============================================================================
