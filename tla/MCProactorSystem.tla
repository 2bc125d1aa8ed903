-------------------------- MODULE MCProactorSystem --------------------------
(* Finite instances of ProactorSystem. *)
EXTENDS ProactorSystem, TLC

\* Only the constants Leavers and Typists tell one connection from another.
Symmetry ==
  Permutations(Cells) \cup
  UNION {Permutations(S) : S \in {Leavers \cap Typists, Leavers \ Typists,
                                  Typists \ Leavers, Conns \ (Leavers \cup Typists)}}
=============================================================================
