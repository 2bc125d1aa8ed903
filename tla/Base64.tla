------------------------------- MODULE Base64 -------------------------------
(***************************************************************************)
(* Ex.2/base64.c over OpenSSL's base64 filter: strings of C as sequences of*)
(* bytes without the terminating 0, base64 as sequences of sextets and Pad.*)
(***************************************************************************)
EXTENDS CFiles

Pad == 64
Code == 0..63 \cup {Pad}
NoCode == 65    \* any character that is none of base64's

At0(s, k) == IF k \in DOMAIN s THEN s[k] ELSE 0

\* Deviation: the division of integers instead of ceil.
EncodedSizeCut(n) == 4 * (n \div 3)

\* 4*ceil((double)strlen(message)/3)
EncodedSize(n) == 4 * ((n + 2) \div 3)

\* Three bytes or four sextets are one number of 24 bits, a group.
FromBytes(x, y, z) == 65536 * x + 256 * y + z
FromSextets(u, v, w, x) == 262144 * u + 4096 * v + 64 * w + x
ByteOf(n, j) == (n \div 256^(2 - j)) % 256
SextetOf(n, j) == (n \div 64^(3 - j)) % 64

(***************************************************************************)
(* Base64Encode: the sextets of all groups; those that no byte reaches are *)
(* padding.                                                                *)
(***************************************************************************)
Base64Encode(message) ==
  LET s == CString(message) IN
  [k \in 1..EncodedSize(Len(s)) |->
     LET g == 3 * ((k - 1) \div 4)
         j == (k - 1) % 4
     IN IF g + j > Len(s) THEN Pad
        ELSE SextetOf(FromBytes(At0(s, g + 1), At0(s, g + 2), At0(s, g + 3)), j)]

(***************************************************************************)
(* Base64Decode: whole groups of four are decoded, what is left of a group *)
(* at the end is not.  Padding at the end stands for no byte.  A character *)
(* that is none of base64's makes the whole result empty.                  *)
(***************************************************************************)
Base64Decode(b64message) ==
  LET groups == Len(b64message) \div 4
      Sextet(k) == b64message[k] % Pad
      Valid == \A k \in 1..(4 * groups) : b64message[k] # NoCode
      padding == IF groups = 0 THEN 0
                 ELSE (IF b64message[4 * groups] = Pad THEN 1 ELSE 0)
                      + (IF b64message[4 * groups - 1] = Pad THEN 1 ELSE 0)
  IN [k \in 1..(IF Valid THEN 3 * groups - padding ELSE 0) |->
        LET g == 4 * ((k - 1) \div 3)
        IN ByteOf(FromSextets(Sextet(g + 1), Sextet(g + 2), Sextet(g + 3), Sextet(g + 4)),
                  (k - 1) % 3)]

=============================================================================
