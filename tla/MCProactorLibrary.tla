------------------------- MODULE MCProactorLibrary -------------------------
(* Finite instances of ProactorLibrary. *)
EXTENDS ProactorLibrary, TLC
=============================================================================
