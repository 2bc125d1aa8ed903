------------------------------ MODULE PolyCodec ------------------------------
(***************************************************************************)
(* Ex.1/Polyalphabetic_encoder/encriptor.c: letters are replaced by the    *)
(* characters of a key of 62, and looked up in it again.  Characters are   *)
(* their ASCII codes, a key is a function from its indices.                *)
(***************************************************************************)
EXTENDS CFiles

Lower == 97..122
Upper == 65..90
Digits == 48..57

\* createCodec: a key in which no character occurs twice.
ValidKey(key) ==
  /\ key \in [0..61 -> 1..127]
  /\ \A i, j \in 0..61 : key[i] = key[j] => i = j

EncodeChar(key, c) ==
  IF c \in Lower THEN key[c - 97] ELSE IF c \in Upper THEN key[c - 65 + 26] ELSE c

(***************************************************************************)
(* first + (strchr(encodingKey + from, c) - (encodingKey + from)) as char. *)
(* A character that is not in this part of the key is searched in memory   *)
(* behind the codec, so that the result is any byte g.                     *)
(***************************************************************************)
Lookup(key, from, c, first, g) ==
  IF \E i \in from..61 : key[i] = c
  THEN (first + (CHOOSE i \in from..61 :
                   key[i] = c /\ \A j \in from..(i - 1) : key[j] # c) - from) % 256
  ELSE g

DecodeChar(key, c, g) ==
  IF c \in Lower THEN Lookup(key, 0, c, 97, g)
  ELSE IF c \in Upper THEN Lookup(key, 26, c, 65, g)
  ELSE IF c \in Digits THEN Lookup(key, 52, c, 48, g) ELSE c

Encode(key, text) == [k \in DOMAIN text |-> EncodeChar(key, text[k])]

\* g: the bytes that stand for characters which are not found
Decode(key, text, g) == [k \in DOMAIN text |-> DecodeChar(key, text[k], g[k])]

(***************************************************************************)
(* The characters that decode finds again: letters whose character in the  *)
(* key is a letter of the same case, and what is no letter and no digit.   *)
(***************************************************************************)
Survivors(key) ==
  {c \in 1..127 : \/ c \in Lower /\ key[c - 97] \in Lower
                  \/ c \in Upper /\ key[c - 65 + 26] \in Upper
                  \/ c \notin Lower \cup Upper \cup Digits}

=============================================================================
