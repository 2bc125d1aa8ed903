---------------------------- MODULE MCThreadPool ----------------------------
(* Finite instances of ThreadPool. *)
EXTENDS ThreadPool, TLC

Symmetry == Permutations(Producers) \cup Permutations(Workers)
=============================================================================
