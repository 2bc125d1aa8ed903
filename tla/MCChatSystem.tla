---------------------------- MODULE MCChatSystem ----------------------------
(* Finite instances of ChatSystem. *)
EXTENDS ChatSystem

\* Only the constants Leavers, Typists and Piped tell one connection from another.
Symmetry ==
  UNION {Permutations({d \in Conns : /\ c \in Leavers <=> d \in Leavers
                                     /\ c \in Typists <=> d \in Typists
                                     /\ c \in Piped <=> d \in Piped}) : c \in Conns}
=============================================================================
