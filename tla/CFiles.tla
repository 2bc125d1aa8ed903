------------------------------- MODULE CFiles -------------------------------
(* Strings of C and contents of files, as sequences of bytes.               *)
EXTENDS Integers, Sequences

Byte == 0..255

\* strlen: what a C function sees of a buffer ends before the first 0.
CString(s) ==
  LET zeros == {k \in DOMAIN s : s[k] = 0} IN
  IF zeros = {} THEN s
  ELSE SubSeq(s, 1, (CHOOSE k \in zeros : \A l \in zeros : k <= l) - 1)

\* A write at the beginning of a file leaves what is behind it.
Overlay(old, new) == new \o SubSeq(old, Len(new) + 1, Len(old))

=============================================================================
