----------------------------- MODULE MCExercise1 -----------------------------
(* A small instance of Exercise1 for TLC; the key is the one of both mains.  *)
EXTENDS Exercise1, TLC

CONSTANTS encode1, encode2, decode1, decode2, zip1, zip2, unzip1

MCCoders == {encode1, encode2, decode1, decode2}
MCZippers == {zip1, zip2, unzip1}

MCProgram ==
  [p \in {encode1, encode2} |-> "encode"] @@ [p \in {decode1, decode2} |-> "decode"]
  @@ [p \in {zip1, zip2} |-> "myzip"] @@ (unzip1 :> "myunzip")

\* "defghijklmnopqrstuvwxyzABCDEFGHIJKLMNOPQRSTUVWXYZ1234567890abc"
KeyText == [k \in 1..23 |-> 99 + k] \o [k \in 1..26 |-> 64 + k]
           \o <<49, 50, 51, 52, 53, 54, 55, 56, 57, 48, 97, 98, 99>>
MCKey == [i \in 0..61 |-> KeyText[i + 1]]

\* "aW!", of characters that decode finds again
MCOriginals == {<<97, 87, 33>>}

MCMissing == <<-1>>

MCSymmetry == Permutations({zip1, zip2})

\* All coders; all runs of myzip and myunzip; a coder of each kind with two of these.
MCTogether ==
  {MCCoders, {zip1, zip2, unzip1}, {encode1, decode1, zip1, zip2}}
  \cup {{encode1, decode1, z, unzip1} : z \in {zip1, zip2}}

MCGarbage == {0, 255}

=============================================================================
