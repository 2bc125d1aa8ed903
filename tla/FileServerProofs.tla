-------------------------- MODULE FileServerProofs --------------------------
(***************************************************************************)
(* Proofs about base64.c and the file servers of Ex.2, for every content,  *)
(* every set of clients, files and requests and every number of failures.  *)
(***************************************************************************)
EXTENDS FileServer, WellFoundedInduction, TLAPS

(* Sequences and strings of C.                                             *)

Char == 1..255

LEMMA SeqElements ==
  ASSUME NEW S, NEW s \in Seq(S)
  PROVE  /\ Len(s) \in Nat /\ DOMAIN s = 1..Len(s) /\ s \in [1..Len(s) -> S]
         /\ SubSeq(s, 1, Len(s)) = s
  OBVIOUS

LEMMA IsSequence ==
  ASSUME NEW S, NEW n \in Nat, NEW s \in [1..n -> S]
  PROVE  s \in Seq(S) /\ Len(s) = n
  OBVIOUS

LEMMA SeqOfSubset ==
  ASSUME NEW S, NEW T, S \subseteq T, NEW s \in Seq(S)
  PROVE  s \in Seq(T)
  BY SeqElements, IsSequence

LEMMA Prefix ==
  ASSUME NEW S, NEW s \in Seq(S), NEW n \in 0..Len(s)
  PROVE  SubSeq(s, 1, n) \in Seq(S) /\ Len(SubSeq(s, 1, n)) = n
         /\ \A k \in 1..n : SubSeq(s, 1, n)[k] = s[k]
  OBVIOUS

LEMMA SameSeq ==
  ASSUME NEW S, NEW s \in Seq(S), NEW t \in Seq(S), Len(s) = Len(t),
         \A k \in 1..Len(s) : s[k] = t[k]
  PROVE  s = t
  OBVIOUS

LEMMA EmptySeq ==
  ASSUME NEW S, NEW s \in Seq(S), Len(s) = 0
  PROVE  s = <<>>
  OBVIOUS

LEMMA Least ==
  ASSUME NEW S \in SUBSET Nat, S # {}
  PROVE  \E k \in S : \A l \in S : k <= l
<1> DEFINE R == {p \in Nat \X Nat : p[1] < p[2]}
<1>1. IsWellFoundedOn(R, Nat)
  BY NatLessThanWellFounded DEF OpToRel
<1> HIDE DEF R
<1>2. PICK k \in S : \A l \in S : <<l, k>> \notin R
  BY <1>1, WFMin
<1>3. \A l \in S : ~(l < k)
  BY <1>2 DEF R
<1> QED  BY <1>3

LEMMA CStringChars ==
  ASSUME NEW s \in Seq(Byte)
  PROVE  CString(s) \in Seq(Char) /\ Len(CString(s)) <= Len(s)
<1> DEFINE zeros == {k \in DOMAIN s : s[k] = 0}
           first == CHOOSE k \in zeros : \A l \in zeros : k <= l
<1>1. /\ Len(s) \in Nat /\ DOMAIN s = 1..Len(s)
      /\ \A k \in 1..Len(s) : s[k] \in Byte
  BY SeqElements
<1>2. \A b \in Byte : b # 0 => b \in Char
  BY DEF Byte, Char
<1>3. CASE zeros = {}
  <2>1. CString(s) = s
    BY <1>3 DEF CString
  <2>2. s \in [1..Len(s) -> Char]
    BY <1>1, <1>2, <1>3, SeqElements
  <2> QED  BY <2>1, <2>2, <1>1, IsSequence
<1>4. CASE zeros # {}
  <2>1. zeros \in SUBSET Nat
    BY <1>1
  <2>2. \E k \in zeros : \A l \in zeros : k <= l
    BY <1>4, <2>1, Least
  <2>3. first \in zeros /\ \A l \in zeros : first <= l
    BY <2>2
  <2>4. CString(s) = SubSeq(s, 1, first - 1)
    BY <1>4 DEF CString
  <2> HIDE DEF first
  <2>5. first - 1 \in 0..Len(s) /\ \A k \in 1..(first - 1) : s[k] # 0 /\ k \in 1..Len(s)
    BY <1>1, <2>3
  <2> DEFINE t == SubSeq(s, 1, first - 1)
  <2>6. t \in Seq(Byte) /\ Len(t) = first - 1 /\ \A k \in 1..(first - 1) : t[k] = s[k]
    BY <2>5, Prefix
  <2> HIDE DEF t
  <2>7. t \in [1..Len(t) -> Char]
    BY <1>1, <1>2, <2>5, <2>6, SeqElements
  <2>8. t \in Seq(Char)
    BY <2>6, <2>7, SeqElements, IsSequence
  <2> QED  BY <2>4, <2>5, <2>6, <2>8 DEF t
<1> QED  BY <1>3, <1>4

LEMMA CStringWhole ==
  ASSUME NEW s \in Seq(Char)
  PROVE  CString(s) = s
<1>1. \A k \in DOMAIN s : s[k] # 0
  <2>1. \A k \in DOMAIN s : s[k] \in Char
    BY SeqElements
  <2>2. \A b \in Char : b # 0
    BY DEF Char
  <2> QED  BY <2>1, <2>2
<1>2. {k \in DOMAIN s : s[k] = 0} = {}
  BY <1>1
<1> QED  BY <1>2 DEF CString

LEMMA Powers64 ==
  ASSUME NEW e
  PROVE  /\ e = 0 => 64^e = 1
         /\ e = 1 => 64^e = 64
         /\ e = 2 => 64^e = 4096
         /\ e = 3 => 64^e = 262144
<1>1. ASSUME e = 0 PROVE 64^e = 1
  BY <1>1, SMT
<1>2. ASSUME e = 1 PROVE 64^e = 64
  BY <1>2, SMT
<1>3. ASSUME e = 2 PROVE 64^e = 4096
  BY <1>3, SMT
<1>4. ASSUME e = 3 PROVE 64^e = 262144
  BY <1>4, SMT
<1> QED  BY <1>1, <1>2, <1>3, <1>4, SMT

LEMMA Powers256 ==
  ASSUME NEW e
  PROVE  /\ e = 0 => 256^e = 1
         /\ e = 1 => 256^e = 256
         /\ e = 2 => 256^e = 65536
<1>1. ASSUME e = 0 PROVE 256^e = 1
  BY <1>1, SMT
<1>2. ASSUME e = 1 PROVE 256^e = 256
  BY <1>2, SMT
<1>3. ASSUME e = 2 PROVE 256^e = 65536
  BY <1>3, SMT
<1> QED  BY <1>1, <1>2, <1>3, SMT

(* The arithmetic of one group of three bytes: the number they make up,    *)
(* its bytes and its sextets.                                              *)

Group == {n \in Nat : n < 16777216}

Sextets == 0..63


LEMMA ThreeBytes ==
  ASSUME NEW x \in Byte, NEW y \in Byte, NEW z \in Byte
  PROVE  /\ FromBytes(x, y, z) \in Group
         /\ ByteOf(FromBytes(x, y, z), 0) = x
         /\ ByteOf(FromBytes(x, y, z), 1) = y
         /\ ByteOf(FromBytes(x, y, z), 2) = z
<1>1. PICK n : n = FromBytes(x, y, z)
  OBVIOUS
<1>2. n = 65536 * x + 256 * y + z
  BY <1>1, SMT DEF FromBytes, Byte, Sextets
<1>3. n \in Group
  BY <1>2, SMT DEF Group, Byte, Sextets
<1>4. PICK p : p = n \div 256
  OBVIOUS
<1>5. p = 256 * x + y /\ n % 256 = z /\ n \div 1 = n
  BY <1>2, <1>4, SMT DEF Byte, Sextets
<1>6. p % 256 = y /\ n \div 65536 = x /\ x % 256 = x
  BY <1>2, <1>5, SMT DEF Byte, Sextets
<1>7. PICK e, f, g : e = 2 - 0 /\ f = 2 - 1 /\ g = 2 - 2
  OBVIOUS
<1>8. 256^e = 65536 /\ 256^f = 256 /\ 256^g = 1
  BY <1>7, Powers256, SMT DEF Byte, Sextets
<1>9. ByteOf(n, 0) = (n \div 256^e) % 256 /\ ByteOf(n, 1) = (n \div 256^f) % 256
      /\ ByteOf(n, 2) = (n \div 256^g) % 256
  BY <1>7, SMT DEF ByteOf, Byte, Sextets
<1>10. ByteOf(n, 0) = x /\ ByteOf(n, 1) = y /\ ByteOf(n, 2) = z
  BY <1>4, <1>5, <1>6, <1>8, <1>9, SMT DEF Byte, Sextets
<1> QED  BY <1>1, <1>3, <1>10

IsDivision(n, q, r) == n = 64 * q + r /\ q \in Nat /\ r \in Sextets

LEMMA DivMod64 ==
  ASSUME NEW n \in Nat
  PROVE  IsDivision(n, n \div 64, n % 64)
<1>1. PICK q, r : q = n \div 64 /\ r = n % 64
  OBVIOUS
<1>2. IsDivision(n, q, r)
  BY <1>1, SMT DEF IsDivision, Sextets
<1> QED  BY <1>1, <1>2

LEMMA SextetForm ==
  ASSUME NEW n \in Group
  PROVE  /\ SextetOf(n, 0) = (n \div 262144) % 64
         /\ SextetOf(n, 1) = (n \div 4096) % 64
         /\ SextetOf(n, 2) = (n \div 64) % 64
         /\ SextetOf(n, 3) = n % 64
<1>1. PICK d, e, f, g : d = 3 - 0 /\ e = 3 - 1 /\ f = 3 - 2 /\ g = 3 - 3
  OBVIOUS
<1>2. 64^d = 262144 /\ 64^e = 4096 /\ 64^f = 64 /\ 64^g = 1
  BY <1>1, Powers64, SMT DEF Byte, Sextets
<1>3. /\ SextetOf(n, 0) = (n \div 64^d) % 64
      /\ SextetOf(n, 1) = (n \div 64^e) % 64
      /\ SextetOf(n, 2) = (n \div 64^f) % 64
      /\ SextetOf(n, 3) = (n \div 64^g) % 64
  BY <1>1, SMT DEF SextetOf, Byte, Sextets
<1>4. n \div 1 = n
  BY SMT DEF Group, Byte, Sextets
<1> QED  BY <1>2, <1>3, <1>4, SMT DEF Byte, Sextets

LEMMA FourSextets ==
  ASSUME NEW n \in Group
  PROVE  /\ \A j \in 0..3 : SextetOf(n, j) \in Sextets
         /\ FromSextets(SextetOf(n, 0), SextetOf(n, 1), SextetOf(n, 2), SextetOf(n, 3)) = n
<1>1. n \in Nat /\ n < 16777216
  BY SMT DEF Group
<1>2. PICK u, v, w, x : /\ u = SextetOf(n, 0) /\ v = SextetOf(n, 1)
                        /\ w = SextetOf(n, 2) /\ x = SextetOf(n, 3)
  OBVIOUS
<1>3. /\ u = (n \div 262144) % 64 /\ v = (n \div 4096) % 64
      /\ w = (n \div 64) % 64 /\ x = n % 64
  BY <1>2, SextetForm, SMT
<1>4. PICK p : p = n \div 64
  OBVIOUS
<1>5. n = 64 * p + x /\ p \in Nat /\ x \in Sextets
  <2>1. n \in Nat
    BY <1>1, SMT
  <2>2. x = n % 64
    BY <1>3, SMT
  <2> QED  BY <2>1, <2>2, <1>4, DivMod64 DEF IsDivision
<1>6. PICK q : q = p \div 64
  OBVIOUS
<1>7. p = 64 * q + w /\ q \in Nat /\ w \in Sextets
  <2>1. w = p % 64
    BY <1>3, <1>4, SMT
  <2> QED  BY <2>1, <1>5, <1>6, DivMod64 DEF IsDivision
<1>8. PICK r, y : r = q \div 64 /\ y = q % 64
  OBVIOUS
<1>9. q = 64 * r + y /\ r \in Nat /\ y \in Sextets
  BY <1>7, <1>8, DivMod64 DEF IsDivision
<1>10. n \div 4096 = q /\ n \div 262144 = r
  BY <1>5, <1>7, <1>9, SMT DEF Sextets
<1>11. r < 64
  BY <1>1, <1>5, <1>7, <1>9, SMT DEF Sextets
<1>12. r % 64 = r
  BY <1>9, <1>11, SMT
<1>13. u = r /\ v = y
  BY <1>3, <1>8, <1>10, <1>12, SMT
<1>14. 262144 * u + 4096 * v + 64 * w + x = n
  BY <1>5, <1>7, <1>9, <1>13, SMT DEF Sextets
<1>15. FromSextets(u, v, w, x) = n
  BY <1>14, SMT DEF FromSextets
<1>16. u \in Sextets /\ v \in Sextets
  BY <1>9, <1>11, <1>13, SMT DEF Sextets
<1>17. \A j \in 0..3 : j = 0 \/ j = 1 \/ j = 2 \/ j = 3
  OBVIOUS
<1> QED  BY <1>2, <1>5, <1>7, <1>15, <1>16, <1>17

\* Sextets that no byte reaches are 0.
LEMMA NoBits ==
  ASSUME NEW x \in Byte, NEW y \in Byte
  PROVE  SextetOf(FromBytes(x, y, 0), 3) = 0 /\ SextetOf(FromBytes(x, 0, 0), 2) = 0
<1>1. PICK n, m : n = FromBytes(x, y, 0) /\ m = FromBytes(x, 0, 0)
  OBVIOUS
<1>2. n = 65536 * x + 256 * y + 0 /\ m = 65536 * x + 256 * 0 + 0
  BY <1>1, SMT DEF FromBytes, Byte, Sextets
<1>3. n \in Group /\ m \in Group
  BY <1>2, SMT DEF Group, Byte, Sextets
<1>4. n % 64 = 0 /\ (m \div 64) % 64 = 0
  BY <1>2, SMT DEF Byte, Sextets
<1>5. SextetOf(n, 3) = 0 /\ SextetOf(m, 2) = 0
  BY <1>3, <1>4, SextetForm, SMT DEF Byte, Sextets
<1> QED  BY <1>1, <1>5

-----------------------------------------------------------------------------
(* The groups of a string.                                                 *)

Bits(s, i) == FromBytes(At0(s, 3 * i + 1), At0(s, 3 * i + 2), At0(s, 3 * i + 3))

LEMMA At0Byte ==
  ASSUME NEW s \in Seq(Char), NEW k \in Nat
  PROVE  At0(s, k) \in Byte
<1>1. \A l \in DOMAIN s : s[l] \in Char
  BY SeqElements
<1>2. \A c \in Char : c \in Byte
  BY DEF Char, Byte
<1>3. CASE k \in DOMAIN s
  BY <1>1, <1>2, <1>3 DEF At0
<1>4. CASE k \notin DOMAIN s
  BY <1>4, SMT DEF At0, Byte, Sextets
<1> QED  BY <1>3, <1>4

LEMMA BitsGroup ==
  ASSUME NEW s \in Seq(Char), NEW i \in Nat
  PROVE  /\ Bits(s, i) \in Group
         /\ \A j \in 0..2 : ByteOf(Bits(s, i), j) = At0(s, 3 * i + 1 + j)
<1>1. /\ At0(s, 3 * i + 1) \in Byte /\ At0(s, 3 * i + 2) \in Byte
      /\ At0(s, 3 * i + 3) \in Byte
  BY At0Byte
<1>2. /\ Bits(s, i) \in Group
      /\ ByteOf(Bits(s, i), 0) = At0(s, 3 * i + 1)
      /\ ByteOf(Bits(s, i), 1) = At0(s, 3 * i + 2)
      /\ ByteOf(Bits(s, i), 2) = At0(s, 3 * i + 3)
  <2>1. PICK x, y, z : /\ x = At0(s, 3 * i + 1) /\ y = At0(s, 3 * i + 2) /\ z = At0(s, 3 * i + 3)
                       /\ Bits(s, i) = FromBytes(x, y, z)
    BY Zenon DEF Bits
  <2>2. x \in Byte /\ y \in Byte /\ z \in Byte
    BY <1>1, <2>1
  <2>3. /\ FromBytes(x, y, z) \in Group /\ ByteOf(FromBytes(x, y, z), 0) = x
        /\ ByteOf(FromBytes(x, y, z), 1) = y /\ ByteOf(FromBytes(x, y, z), 2) = z
    BY <2>2, ThreeBytes
  <2>4. /\ Bits(s, i) \in Group /\ ByteOf(Bits(s, i), 0) = x
        /\ ByteOf(Bits(s, i), 1) = y /\ ByteOf(Bits(s, i), 2) = z
    BY <2>1, <2>3
  <2> QED  BY <2>1, <2>4
<1>3. 3 * i + 1 + 0 = 3 * i + 1 /\ 3 * i + 1 + 1 = 3 * i + 2 /\ 3 * i + 1 + 2 = 3 * i + 3
  OBVIOUS
<1>4. \A j \in 0..2 : j = 0 \/ j = 1 \/ j = 2
  OBVIOUS
<1> QED  BY <1>2, <1>3, <1>4

LEMMA SextetBehind ==
  ASSUME NEW s \in Seq(Char), NEW i \in Nat, NEW j \in {2, 3}, 3 * i + j > Len(s)
  PROVE  SextetOf(Bits(s, i), j) = 0
<1>1. Len(s) \in Nat /\ DOMAIN s = 1..Len(s)
  BY SeqElements
<1>2. At0(s, 3 * i + 3) = 0 /\ (j = 2 => At0(s, 3 * i + 2) = 0)
  BY <1>1 DEF At0
<1>3. At0(s, 3 * i + 1) \in Byte /\ At0(s, 3 * i + 2) \in Byte
  BY At0Byte
<1>4. PICK x, y, z : /\ x = At0(s, 3 * i + 1) /\ y = At0(s, 3 * i + 2) /\ z = At0(s, 3 * i + 3)
                     /\ Bits(s, i) = FromBytes(x, y, z)
  BY Zenon DEF Bits
<1>5. x \in Byte /\ y \in Byte /\ z = 0 /\ (j = 2 => y = 0)
  BY <1>2, <1>3, <1>4
<1> QED  BY <1>4, <1>5, NoBits, Zenon

LEMMA EncodedForm ==
  ASSUME NEW m \in Seq(Byte), NEW s, s = CString(m), NEW t, t = Base64Encode(m)
  PROVE  /\ t \in Seq(Code) /\ Len(t) = EncodedSize(Len(s))
         /\ \A k \in 1..Len(t) :
              t[k] = IF 3 * ((k - 1) \div 4) + ((k - 1) % 4) > Len(s) THEN Pad
                     ELSE SextetOf(Bits(s, (k - 1) \div 4), (k - 1) % 4)
<1> DEFINE Of(k) == IF 3 * ((k - 1) \div 4) + ((k - 1) % 4) > Len(s) THEN Pad
                    ELSE SextetOf(Bits(s, (k - 1) \div 4), (k - 1) % 4)
           n == EncodedSize(Len(s))
<1>1. s \in Seq(Char) /\ Len(s) \in Nat
  BY CStringChars, SeqElements
<1>2. n \in Nat
  BY <1>1 DEF EncodedSize
<1>3. t = [k \in 1..n |-> Of(k)]
  BY Zenon DEF Base64Encode, Bits
<1>4. \A k \in 1..n : Of(k) \in Code
  <2> SUFFICES ASSUME NEW k \in 1..n PROVE Of(k) \in Code
    OBVIOUS
  <2>1. PICK i \in Nat, j \in 0..3 : i = (k - 1) \div 4 /\ j = (k - 1) % 4
    BY <1>2
  <2>2. Bits(s, i) \in Group
    BY <1>1, BitsGroup
  <2>3. SextetOf(Bits(s, i), j) \in Sextets
    BY <2>2, FourSextets
  <2>4. Sextets \cup {Pad} = Code
    BY DEF Sextets, Code
  <2> QED  BY <2>1, <2>3, <2>4
<1> HIDE DEF Of, n
<1>5. t \in [1..n -> Code]
  BY <1>3, <1>4
<1>6. t \in Seq(Code) /\ Len(t) = n
  BY <1>2, <1>5, IsSequence
<1>7. \A k \in 1..n : t[k] = Of(k)
  BY <1>3
<1> QED  BY <1>6, <1>7 DEF Of, n

LEMMA EncodeBytes ==
  ASSUME NEW m \in Seq(Byte)
  PROVE  Base64Encode(m) \in Seq(Byte)
<1>1. Code \subseteq Byte
  BY DEF Code, Byte, Pad
<1>2. Base64Encode(m) \in Seq(Code)
  BY EncodedForm
<1> QED  BY <1>1, <1>2, SeqOfSubset

LEMMA ByteOfNat ==
  ASSUME NEW n \in Nat, NEW j \in 0..2
  PROVE  ByteOf(n, j) \in Byte
<1>1. PICK e \in {0, 1, 2} : e = 2 - j
  OBVIOUS
<1>2. PICK power : power = 256^e
  OBVIOUS
<1>3. power \in {1, 256, 65536}
  BY <1>1, <1>2, Powers256, SMT
<1>4. PICK quotient \in Nat : quotient = n \div power
  BY <1>3, SMT
<1>5. quotient % 256 \in 0..255
  OBVIOUS
<1> QED  BY <1>1, <1>2, <1>4, <1>5, SMT DEF ByteOf, Byte

LEMMA DecodeBytes ==
  ASSUME NEW t \in Seq(Byte)
  PROVE  Base64Decode(t) \in Seq(Byte)
<1> DEFINE groups == Len(t) \div 4
           Sextet(k) == t[k] % Pad
           padding == IF groups = 0 THEN 0
                      ELSE (IF t[4 * groups] = Pad THEN 1 ELSE 0)
                           + (IF t[4 * groups - 1] = Pad THEN 1 ELSE 0)
           Valid == \A k \in 1..(4 * groups) : t[k] # NoCode
           n == IF Valid THEN 3 * groups - padding ELSE 0
           Value(g) == FromSextets(Sextet(g + 1), Sextet(g + 2), Sextet(g + 3), Sextet(g + 4))
           Of(k) == ByteOf(Value(4 * ((k - 1) \div 3)), (k - 1) % 3)
<1>1. /\ Len(t) \in Nat /\ groups \in Nat /\ 4 * groups <= Len(t)
      /\ \A k \in 1..Len(t) : t[k] \in Byte
  BY SeqElements, SMT
<1>2. padding \in 0..2 /\ (groups = 0 => padding = 0)
  BY <1>1
<1>3. n \in 0..(3 * groups)
  <2> HIDE DEF padding, groups, Valid
  <2> QED  BY <1>1, <1>2
<1>4. Base64Decode(t) = [k \in 1..n |-> Of(k)]
  BY Zenon DEF Base64Decode
<1>5. \A k \in 1..n : Of(k) \in Byte
  <2> SUFFICES ASSUME NEW k \in 1..n PROVE Of(k) \in Byte
    OBVIOUS
  <2> HIDE DEF n, groups
  <2>1. PICK i \in Nat, j \in 0..2 : i = (k - 1) \div 3 /\ j = (k - 1) % 3 /\ i < groups
    BY <1>1, <1>3
  <2>2. /\ 4 * i + 1 \in 1..Len(t) /\ 4 * i + 2 \in 1..Len(t)
        /\ 4 * i + 3 \in 1..Len(t) /\ 4 * i + 4 \in 1..Len(t)
    BY <1>1, <2>1
  <2>3. PICK u \in Byte, v \in Byte, w \in Byte, x \in Byte :
          u = t[4 * i + 1] /\ v = t[4 * i + 2] /\ w = t[4 * i + 3] /\ x = t[4 * i + 4]
    BY <1>1, <2>2
  <2>4. PICK a, b, c, d : a = u % Pad /\ b = v % Pad /\ c = w % Pad /\ d = x % Pad
    OBVIOUS
  <2>5. a \in Nat /\ b \in Nat /\ c \in Nat /\ d \in Nat
    BY <2>4, SMT DEF Byte, Pad
  <2>6. FromSextets(a, b, c, d) \in Nat
    BY <2>5, SMT DEF FromSextets
  <2>7. Of(k) = ByteOf(FromSextets(a, b, c, d), j)
    BY <2>1, <2>3, <2>4
  <2> QED  BY <2>6, <2>7, ByteOfNat
<1>6. [k \in 1..n |-> Of(k)] \in [1..n -> Byte]
  <2> HIDE DEF n, Of
  <2> QED  BY <1>5
<1>7. n \in Nat
  <2> HIDE DEF n, groups
  <2> QED  BY <1>1, <1>3
<1> HIDE DEF n, Of
<1> QED  BY <1>4, <1>6, <1>7, IsSequence

(***************************************************************************)
(* Base64Decode gives back what Base64Encode was given, up to the first 0. *)
(***************************************************************************)
THEOREM Base64DecodesBack ==
  ASSUME NEW m \in Seq(Byte)
  PROVE  Base64Decode(Base64Encode(m)) = CString(m)
<1>1. PICK s, t, groups : s = CString(m) /\ t = Base64Encode(m) /\ groups = Len(t) \div 4
  OBVIOUS
<1>2. s \in Seq(Char)
  BY <1>1, CStringChars
<1>3. Len(s) \in Nat /\ DOMAIN s = 1..Len(s)
  BY <1>2, SeqElements
<1>4. /\ t \in Seq(Code) /\ Len(t) = EncodedSize(Len(s))
      /\ \A k \in 1..Len(t) :
           t[k] = IF 3 * ((k - 1) \div 4) + ((k - 1) % 4) > Len(s) THEN Pad
                  ELSE SextetOf(Bits(s, (k - 1) \div 4), (k - 1) % 4)
  BY <1>1, EncodedForm
<1>5. /\ groups \in Nat /\ Len(t) = 4 * groups
      /\ IF Len(s) = 0 THEN groups = 0
         ELSE groups > 0 /\ 3 * groups - 2 <= Len(s) /\ Len(s) <= 3 * groups
  BY <1>1, <1>3, <1>4 DEF EncodedSize
<1>6. ASSUME NEW i \in Nat, i < groups, NEW j \in 0..3
      PROVE  t[4 * i + 1 + j] = IF 3 * i + j > Len(s) THEN Pad ELSE SextetOf(Bits(s, i), j)
  <2>1. PICK k : k = 4 * i + 1 + j
    OBVIOUS
  <2>2. k \in 1..Len(t) /\ (k - 1) \div 4 = i /\ (k - 1) % 4 = j
    BY <1>5, <1>6, <2>1
  <2> QED  BY <1>4, <2>1, <2>2
<1> DEFINE Sextet(k) == t[k] % Pad
<1>7. ASSUME NEW i \in Nat, i < groups, NEW j \in 0..3
      PROVE  Sextet(4 * i + 1 + j) = SextetOf(Bits(s, i), j)
  <2>1. Bits(s, i) \in Group
    BY <1>2, BitsGroup
  <2>2. PICK v \in Sextets : v = SextetOf(Bits(s, i), j)
    BY <2>1, FourSextets
  <2> DEFINE behind == 3 * i + j > Len(s)
  <2>5. t[4 * i + 1 + j] = IF behind THEN Pad ELSE SextetOf(Bits(s, i), j)
    BY <1>6, <1>7
  <2>3. CASE ~behind
    <3>1. t[4 * i + 1 + j] = v
      <4> HIDE DEF behind
      <4> QED  BY <2>2, <2>3, <2>5
    <3>2. v % Pad = v
      BY SMT DEF Sextets, Pad
    <3> QED  BY <2>2, <3>1, <3>2
  <2>4. CASE behind
    <3>1. t[4 * i + 1 + j] = Pad
      <4> HIDE DEF behind
      <4> QED  BY <2>4, <2>5
    <3>4. Pad % Pad = 0
      BY DEF Pad
    <3>2. j \in {2, 3}
      BY <1>3, <1>5, <1>7, <2>4
    <3>3. SextetOf(Bits(s, i), j) = 0
      BY <1>2, <2>4, <3>2, SextetBehind
    <3> QED  BY <3>1, <3>3, <3>4
  <2> QED  BY <2>3, <2>4
<1>8. ASSUME NEW i \in Nat, i < groups
      PROVE  FromSextets(Sextet(4 * i + 1), Sextet(4 * i + 2), Sextet(4 * i + 3),
                         Sextet(4 * i + 4)) = Bits(s, i)
  <2>1. Bits(s, i) \in Group
    BY <1>2, BitsGroup
  <2>2. /\ Sextet(4 * i + 1 + 0) = SextetOf(Bits(s, i), 0)
        /\ Sextet(4 * i + 1 + 1) = SextetOf(Bits(s, i), 1)
        /\ Sextet(4 * i + 1 + 2) = SextetOf(Bits(s, i), 2)
        /\ Sextet(4 * i + 1 + 3) = SextetOf(Bits(s, i), 3)
    BY <1>7, <1>8
  <2>3. /\ 4 * i + 1 + 0 = 4 * i + 1 /\ 4 * i + 1 + 1 = 4 * i + 2
        /\ 4 * i + 1 + 2 = 4 * i + 3 /\ 4 * i + 1 + 3 = 4 * i + 4
    OBVIOUS
  <2> HIDE DEF Sextet
  <2>4. /\ Sextet(4 * i + 1) = SextetOf(Bits(s, i), 0)
        /\ Sextet(4 * i + 2) = SextetOf(Bits(s, i), 1)
        /\ Sextet(4 * i + 3) = SextetOf(Bits(s, i), 2)
        /\ Sextet(4 * i + 4) = SextetOf(Bits(s, i), 3)
    BY <2>2, <2>3
  <2> QED  BY <2>1, <2>4, FourSextets
<1>9. \A k \in 1..(4 * groups) : t[k] # NoCode
  <2>1. \A k \in 1..Len(t) : t[k] \in Code
    BY <1>4, SeqElements
  <2>2. NoCode \notin Code
    BY DEF Code, NoCode, Pad
  <2> QED  BY <2>1, <2>2, <1>5
<1> DEFINE padding == IF groups = 0 THEN 0
                      ELSE (IF t[4 * groups] = Pad THEN 1 ELSE 0)
                           + (IF t[4 * groups - 1] = Pad THEN 1 ELSE 0)
<1>10. 3 * groups - padding = Len(s)
  <2>1. CASE groups = 0
    BY <1>3, <1>5, <2>1
  <2>2. CASE groups # 0
    <3>1. PICK i \in Nat : i = groups - 1
      BY <1>5, <2>2
    <3>2. i < groups /\ 4 * i + 1 + 3 = 4 * groups /\ 4 * i + 1 + 2 = 4 * groups - 1
      BY <1>5, <3>1
    <3>3. /\ t[4 * groups] = IF 3 * i + 3 > Len(s) THEN Pad ELSE SextetOf(Bits(s, i), 3)
          /\ t[4 * groups - 1] = IF 3 * i + 2 > Len(s) THEN Pad ELSE SextetOf(Bits(s, i), 2)
      <4>1. t[4 * i + 1 + 3] = IF 3 * i + 3 > Len(s) THEN Pad ELSE SextetOf(Bits(s, i), 3)
        BY <1>6, <3>2
      <4>2. t[4 * i + 1 + 2] = IF 3 * i + 2 > Len(s) THEN Pad ELSE SextetOf(Bits(s, i), 2)
        BY <1>6, <3>2
      <4> QED  BY <3>2, <4>1, <4>2
    <3>4. SextetOf(Bits(s, i), 3) # Pad /\ SextetOf(Bits(s, i), 2) # Pad
      <4>1. PICK n \in Group : n = Bits(s, i)
        BY <1>2, <3>1, BitsGroup
      <4>3. SextetOf(n, 3) \in Sextets /\ SextetOf(n, 2) \in Sextets
        BY FourSextets
      <4>2. Pad \notin Sextets
        BY DEF Pad, Sextets
      <4> QED  BY <4>1, <4>2, <4>3
    <3>5. padding = (IF 3 * i + 3 > Len(s) THEN 1 ELSE 0) + (IF 3 * i + 2 > Len(s) THEN 1 ELSE 0)
      BY <2>2, <3>3, <3>4
    <3>6. 3 * groups - 2 <= Len(s) /\ Len(s) <= 3 * groups /\ 3 * i + 3 = 3 * groups
          /\ 3 * i + 2 = 3 * groups - 1
      BY <1>3, <1>5, <2>2, <3>1
    <3> HIDE DEF padding
    <3>7. CASE Len(s) = 3 * groups
      BY <1>3, <1>5, <3>5, <3>6, <3>7
    <3>8. CASE Len(s) = 3 * groups - 1
      BY <1>3, <1>5, <3>5, <3>6, <3>8
    <3>9. CASE Len(s) = 3 * groups - 2
      BY <1>3, <1>5, <3>5, <3>6, <3>9
    <3>10. Len(s) = 3 * groups \/ Len(s) = 3 * groups - 1 \/ Len(s) = 3 * groups - 2
      <4>1. groups \in Nat /\ Len(s) \in Nat
        BY <1>3, <1>5
      <4>2. PICK n \in Nat : n = Len(s)
        BY <4>1
      <4>3. n = 3 * groups \/ n = 3 * groups - 1 \/ n = 3 * groups - 2
        BY <4>1, <4>2, <3>6
      <4> QED  BY <4>2, <4>3
    <3> QED  BY <3>7, <3>8, <3>9, <3>10, Zenon
  <2> QED  BY <2>1, <2>2
<1>11. Base64Decode(t) =
         [k \in 1..(3 * groups - padding) |->
            LET g == 4 * ((k - 1) \div 3) IN
            ByteOf(FromSextets(Sextet(g + 1), Sextet(g + 2), Sextet(g + 3), Sextet(g + 4)),
                   (k - 1) % 3)]
  BY <1>1, <1>9 DEF Base64Decode
<1> HIDE DEF padding
<1>12. ASSUME NEW k \in 1..Len(s)
       PROVE  LET g == 4 * ((k - 1) \div 3) IN
              ByteOf(FromSextets(Sextet(g + 1), Sextet(g + 2), Sextet(g + 3), Sextet(g + 4)),
                     (k - 1) % 3) = s[k]
  <2>1. PICK i, j : i = (k - 1) \div 3 /\ j = (k - 1) % 3
    OBVIOUS
  <2>2. i \in Nat /\ i < groups /\ j \in 0..2 /\ k = 3 * i + 1 + j
    BY <1>3, <1>5, <2>1
  <2>3. FromSextets(Sextet(4 * i + 1), Sextet(4 * i + 2), Sextet(4 * i + 3), Sextet(4 * i + 4))
          = Bits(s, i)
    BY <1>8, <2>2
  <2>4. s[k] = At0(s, k)
    BY <1>3 DEF At0
  <2>5. ByteOf(Bits(s, i), j) = At0(s, 3 * i + 1 + j)
    BY <1>2, <2>2, BitsGroup
  <2> HIDE DEF Sextet
  <2> QED  BY <2>1, <2>2, <2>3, <2>4, <2>5
<1> HIDE DEF Sextet
<1>13. Base64Decode(t) = [k \in 1..Len(s) |-> s[k]]
  BY <1>10, <1>11, <1>12
<1>14. s = [k \in 1..Len(s) |-> s[k]]
  BY <1>2, <1>3, SeqElements
<1> QED  BY <1>1, <1>13, <1>14


-----------------------------------------------------------------------------
(* Types.                                                                  *)

Outside == {"none", "accepted"}

Working == {"open", "source", "measure", "read", "create", "lock", "unlock", "save",
            "flush", "answer"}

Labels == Outside \cup {"request"} \cup Working \cup {"exit", "zombie"}

\* The labels at which a file is open for writing, and for reading.
Writing == {"lock", "unlock", "flush"}

Reading == {"source", "measure", "read"}

Statuses == {"200", "400", "404", "500"}

Contents == [Paths -> {Missing} \cup Seq(Byte)]

Records == [child : Clients, item : Nat, path : Paths, text : Seq(Byte)]

Questions == [method : Methods \cup {"other"}, kind : {"file", "list", "image", "bare"},
              names : Seq(Paths), data : Seq(Byte)]

DataTypes ==
  /\ file \in Contents /\ flushed \in SUBSET Records
  /\ content \in [Clients -> Seq(Byte)] /\ size \in [Clients -> Nat]
  /\ output \in [Clients -> Seq(Byte)]
  /\ failures \in 0..Failures

ControlTypes ==
  /\ program \in DOMAIN Requests
  /\ lock \in [Paths -> Clients \cup {NoClient}]
  /\ holders \in [Clients -> SUBSET {"parent", "child"}]
  /\ pc \in [Clients -> Labels] /\ item \in [Clients -> Nat]
  /\ request \in [Clients -> Questions]
  /\ client_pc \in [Clients -> {"new", "waiting", "done"}]
  /\ answers \in [Clients -> SUBSET (Nat \X Statuses)]

(***************************************************************************)
(* A child begins with nothing answered and is at a name of its request    *)
(* while it works; what it reads or writes exists; and a child of one      *)
(* server is at no label of the other.                                     *)
(***************************************************************************)
Progress(c) ==
  /\ client_pc[c] = "new" => pc[c] = "none"
  /\ pc[c] \in Outside \cup {"request"} => item[c] = 0 /\ answers[c] = {}
  /\ item[c] <= Len(request[c].names)
  /\ \A a \in answers[c] : a[1] <= Len(request[c].names)
  /\ request[c].method \in Methods => Len(request[c].names) # 0
  /\ pc[c] \in Working => item[c] # 0 /\ request[c].method \in Methods
  /\ pc[c] \in Reading => file[Path(c)] # Missing
  /\ pc[c] \in Writing => file[TargetOf(c)] # Missing
  /\ program = "partA" => pc[c] \notin {"measure", "lock", "unlock", "save"}
  /\ program = "partB" => pc[c] # "source"

(***************************************************************************)
(* The parent has the socket it accepted last until it closes it, which it *)
(* does before it accepts another one.                                     *)
(***************************************************************************)
Sharing ==
  /\ main_pc \in {"accept", "fork", "close"}
  /\ main_pc # "accept" => client_socket \in Clients
  /\ main_pc = "fork" => pc[client_socket] = "accepted"
  /\ \A c \in Clients :
       /\ "child" \in holders[c] <=> pc[c] \notin Outside \cup {"zombie"}
       /\ "parent" \in holders[c] => client_socket = c /\ main_pc # "accept"

Locking(c, p) ==
  \/ program = "partA" /\ pc[c] = "read" /\ Path(c) = p
  \/ program = "partB" /\ pc[c] = "unlock" /\ TargetOf(c) = p

Locks == \A p \in Paths, d \in Clients : lock[p] = d => Locking(d, p)

TypeInv ==
  DataTypes /\ ControlTypes /\ (\A c \in Clients : Progress(c)) /\ Sharing /\ Locks

LEMMA TypeInvOK == ASSUME TypeInv PROVE TypeOK
<1> USE DEF TypeInv, ControlTypes, DataTypes
<1>1. program \in {"partA", "partB"}
  BY FileServerAssumption DEF FileServerAssumption
<1>2. \A p \in Paths : file[p] \in {Missing} \cup Seq(Byte)
  BY DEF Contents
<1>3. \A p \in Paths : lock[p] # NoClient =>
        \/ program = "partA" /\ pc[lock[p]] = "read" /\ Path(lock[p]) = p
        \/ program = "partB" /\ pc[lock[p]] = "unlock" /\ TargetOf(lock[p]) = p
  BY DEF Locks, Locking
<1>4. main_pc \in {"accept", "fork", "close"} /\ failures \in 0..Failures
  BY DEF Sharing
<1>5. ASSUME NEW c \in Clients
      PROVE  /\ holders[c] \subseteq {"parent", "child"}
             /\ "child" \in holders[c] <=> pc[c] \notin {"none", "accepted", "zombie"}
             /\ "parent" \in holders[c] => client_socket = c
  BY DEF Sharing, Outside
<1>6. ASSUME NEW c \in Clients
      PROVE  /\ item[c] \in 0..Len(request[c].names) /\ size[c] \in Nat
             /\ client_pc[c] \in {"new", "waiting", "done"}
             /\ answers[c] \subseteq (0..Len(request[c].names)) \X {"200", "400", "404", "500"}
  <2>1. request[c].names \in Seq(Paths)
    BY DEF Questions
  <2>2. Len(request[c].names) \in Nat
    BY <2>1, SeqElements
  <2>3. Progress(c)
    OBVIOUS
  <2>4. item[c] \in Nat /\ item[c] <= Len(request[c].names) /\ answers[c] \in SUBSET (Nat \X Statuses)
        /\ \A a \in answers[c] : a[1] <= Len(request[c].names)
    BY <2>3 DEF Progress
  <2>5. ASSUME NEW a \in answers[c]
        PROVE  a \in (0..Len(request[c].names)) \X {"200", "400", "404", "500"}
    <3>1. a \in Nat \X Statuses /\ a[1] <= Len(request[c].names)
      BY <2>4
    <3>2. a = <<a[1], a[2]>> /\ a[1] \in Nat /\ a[2] \in Statuses
      BY <3>1
    <3>3. a[1] \in 0..Len(request[c].names)
      BY <2>2, <3>1, <3>2
    <3> QED  BY <3>2, <3>3 DEF Statuses
  <2>6. item[c] \in 0..Len(request[c].names)
    BY <2>2, <2>4
  <2> QED  BY <2>5, <2>6
<1> HIDE DEF TypeInv, ControlTypes, DataTypes
<1> QED  BY <1>1, <1>2, <1>3, <1>4, <1>5, <1>6 DEF TypeOK

LEMMA TypeInit == Init => TypeInv
<1> SUFFICES ASSUME Init PROVE TypeInv
  OBVIOUS
<1> USE FileServerAssumption DEF FileServerAssumption, Init
<1>1. NoRequest \in Questions /\ NoRequest.method \notin Methods /\ NoRequest.names = <<>>
  <2>1. <<>> \in Seq(Paths) /\ <<>> \in Seq(Byte)
    OBVIOUS
  <2> QED  BY <2>1 DEF NoRequest, Questions, Methods
<1>2. DataTypes
  BY DEF DataTypes, Contents
<1>3. ControlTypes
  BY <1>1 DEF ControlTypes, Labels, Outside
<1>4. ASSUME NEW c \in Clients PROVE Progress(c)
  <2>1. pc[c] = "none" /\ item[c] = 0 /\ answers[c] = {} /\ request[c] = NoRequest
    OBVIOUS
  <2>2. Len(request[c].names) = 0
    BY <1>1, <2>1
  <2> QED  BY <1>1, <2>1, <2>2 DEF Progress, Outside, Working, Reading, Writing
<1>5. Sharing
  BY DEF Sharing, Outside
<1>6. Locks
  BY DEF Locks
<1> QED  BY <1>2, <1>3, <1>4, <1>5, <1>6 DEF TypeInv

\* The name a working child is at, and the file it writes.
LEMMA Names ==
  ASSUME TypeInv, NEW c \in Clients
  PROVE  /\ request[c].names \in Seq(Paths) /\ Len(request[c].names) \in Nat
         /\ pc[c] \in Working => Path(c) \in Paths /\ TargetOf(c) \in Paths
<1>1. request[c] \in Questions /\ item[c] \in Nat /\ Progress(c)
  BY DEF TypeInv, ControlTypes
<1>2. request[c].names \in Seq(Paths)
  BY <1>1 DEF Questions
<1>3. Len(request[c].names) \in Nat /\ \A k \in 1..Len(request[c].names) : request[c].names[k] \in Paths
  BY <1>2, SeqElements
<1>4. ASSUME pc[c] \in Working PROVE Path(c) \in Paths /\ TargetOf(c) \in Paths
  <2>1. item[c] \in 1..Len(request[c].names) /\ request[c].method \in Methods
    BY <1>1, <1>3, <1>4 DEF Progress
  <2>2. Path(c) \in Paths
    BY <1>3, <2>1 DEF Path
  <2>3. Target \in [Methods \X Paths -> Paths]
    BY FileServerAssumption DEF FileServerAssumption
  <2> QED  BY <2>1, <2>2, <2>3 DEF TargetOf
<1> QED  BY <1>2, <1>3, <1>4

\* A client or child that does not move stays where it may be: no file goes away.
LEMMA Unmoved ==
  ASSUME TypeInv, NEW d \in Clients,
         UNCHANGED <<program, pc[d], item[d], answers[d], request[d], client_pc[d]>>,
         \A p \in Paths : file[p] # Missing => file'[p] # Missing
  PROVE  Progress(d)'
<1>1. Progress(d)
  BY DEF TypeInv
<1>2. Path(d)' = Path(d) /\ TargetOf(d)' = TargetOf(d)
  BY DEF Path, TargetOf
<1>3. pc[d] \in Working => Path(d) \in Paths /\ TargetOf(d) \in Paths
  BY Names
<1>4. Reading \subseteq Working /\ Writing \subseteq Working
  BY DEF Reading, Writing, Working
<1> QED  BY <1>1, <1>2, <1>3, <1>4 DEF Progress

Ended == Outside \cup {"zombie"}

(***************************************************************************)
(* What every step of a child but its end does to the control state.       *)
(***************************************************************************)
Moves(c, to) ==
  /\ pc[c] \notin Ended /\ to \in Labels \ Ended /\ pc' = [pc EXCEPT ![c] = to]
  /\ UNCHANGED <<program, main_pc, client_socket, request, client_pc, holders>>
  /\ item' \in [Clients -> Nat] /\ answers' \in [Clients -> SUBSET (Nat \X Statuses)]
  /\ \A d \in Clients \ {c} : item'[d] = item[d] /\ answers'[d] = answers[d]

\* No file goes away.
FilesStay == \A p \in Paths : file[p] # Missing => file'[p] # Missing

LEMMA ChildMoves ==
  ASSUME TypeInv, NEW c \in Clients, NEW to, Moves(c, to), FilesStay,
         DataTypes', lock' \in [Paths -> Clients \cup {NoClient}], Locks', Progress(c)'
  PROVE  TypeInv'
<1>1. ControlTypes /\ Sharing /\ pc \in [Clients -> Labels]
  BY DEF TypeInv, ControlTypes
<1>2. ControlTypes'
  BY <1>1 DEF ControlTypes, Moves
<1>3. ASSUME NEW d \in Clients PROVE Progress(d)'
  <2>1. CASE d = c
    BY <2>1
  <2>2. CASE d # c
    <3>1. UNCHANGED <<program, pc[d], item[d], answers[d], request[d], client_pc[d]>>
      BY <1>1, <2>2 DEF Moves
    <3> QED  BY <3>1, Unmoved DEF FilesStay
  <2> QED  BY <2>1, <2>2
<1>4. Sharing'
  <2>1. main_pc = "fork" => client_socket # c
    BY <1>1 DEF Sharing, Moves, Ended, Outside
  <2>2. ASSUME NEW d \in Clients
        PROVE  "child" \in holders'[d] <=> pc'[d] \notin Ended
    BY <1>1 DEF Sharing, Moves, Ended
  <2> QED  BY <1>1, <2>1, <2>2 DEF Sharing, Moves, Ended
<1> QED  BY <1>2, <1>3, <1>4 DEF TypeInv

\* A step of a child that holds no lock and takes none.
LEMMA LocksKept ==
  ASSUME TypeInv, NEW c \in Clients, NEW to, Moves(c, to), UNCHANGED lock,
         pc[c] # "unlock", program = "partA" => pc[c] # "read"
  PROVE  Locks' /\ lock' \in [Paths -> Clients \cup {NoClient}]
<1>1. Locks /\ lock \in [Paths -> Clients \cup {NoClient}] /\ pc \in [Clients -> Labels]
  BY DEF TypeInv, ControlTypes
<1>2. ASSUME NEW p \in Paths, NEW d \in Clients, lock'[p] = d PROVE Locking(d, p)'
  <2>1. Locking(d, p)
    BY <1>1, <1>2 DEF Locks
  <2>2. d # c
    BY <2>1 DEF Locking
  <2>3. pc'[d] = pc[d] /\ Path(d)' = Path(d) /\ TargetOf(d)' = TargetOf(d)
    BY <1>1, <2>1, <2>2 DEF Moves, Path, TargetOf
  <2> QED  BY <2>1, <2>3 DEF Locking, Moves
<1> QED  BY <1>1, <1>2 DEF Locks

LEMMA AnswerTypes ==
  ASSUME TypeInv, NEW c \in Clients, NEW status \in Statuses, Answer(c, status)
  PROVE  /\ answers' \in [Clients -> SUBSET (Nat \X Statuses)]
         /\ answers'[c] = answers[c] \cup {<<item[c], status>>}
         /\ \A d \in Clients \ {c} : answers'[d] = answers[d]
<1>1. answers \in [Clients -> SUBSET (Nat \X Statuses)] /\ item[c] \in Nat
  BY DEF TypeInv, ControlTypes
<1> QED  BY <1>1 DEF Answer

LEMMA TypeDispatch ==
  ASSUME TypeInv, NEW c \in Clients, program = "partA", Dispatch(c),
         UNCHANGED <<program, main_vars, client_vars>>
  PROVE  TypeInv'
<1>1. /\ item \in [Clients -> Nat] /\ answers \in [Clients -> SUBSET (Nat \X Statuses)]
      /\ DataTypes /\ Progress(c) /\ pc \in [Clients -> Labels]
  BY DEF TypeInv, ControlTypes
<1>2. FilesStay /\ DataTypes' /\ UNCHANGED lock
  BY <1>1 DEF Dispatch, FilesStay, DataTypes, Contents, Records, disk_vars, buffer_vars
<1>3. PICK to \in {"exit", "open"} : Go(c, "request", to)
  BY DEF Dispatch
<1>4. item' \in [Clients -> Nat] /\ \A d \in Clients \ {c} : item'[d] = item[d]
  BY <1>1 DEF Dispatch
<1>5. /\ answers' \in [Clients -> SUBSET (Nat \X Statuses)]
      /\ \A d \in Clients \ {c} : answers'[d] = answers[d]
  <2>1. UNCHANGED answers \/ \E s \in Statuses : Answer(c, s)
    BY DEF Dispatch, Statuses
  <2> QED  BY <1>1, <2>1, AnswerTypes
<1>6. Moves(c, to)
  BY <1>3, <1>4, <1>5 DEF Moves, Go, Dispatch, Ended, Outside, Labels, Working, main_vars, client_vars
<1>7. Locks' /\ lock' \in [Paths -> Clients \cup {NoClient}]
  BY <1>2, <1>3, <1>6, LocksKept DEF Go
<1>8. Progress(c)'
  <2>1. pc[c] = "request" /\ item[c] = 0 /\ answers[c] = {}
    BY <1>1, <1>3 DEF Go, Progress
  <2> QED  BY <1>1, <2>1, AnswerTypes
       DEF Dispatch, Progress, Go, Answer, Statuses, Outside, Working, Reading, Writing, client_vars
<1> QED  BY <1>2, <1>6, <1>7, <1>8, ChildMoves

\* A step of a child that leaves item and answers alone.
LEMMA SimpleMove ==
  ASSUME TypeInv, NEW c \in Clients, NEW from \in Labels \ Ended, NEW to \in Labels \ Ended,
         Go(c, from, to),
         UNCHANGED <<program, main_vars, client_vars, holders, item, answers>>
  PROVE  Moves(c, to) /\ pc[c] = from /\ pc'[c] = to /\ Path(c)' = Path(c) /\ TargetOf(c)' = TargetOf(c)
<1>1. /\ item \in [Clients -> Nat] /\ answers \in [Clients -> SUBSET (Nat \X Statuses)]
      /\ pc \in [Clients -> Labels]
  BY DEF TypeInv, ControlTypes
<1> QED  BY <1>1 DEF Go, Moves, main_vars, client_vars, Path, TargetOf

LEMMA TypeOpenSource ==
  ASSUME TypeInv, NEW c \in Clients, program = "partA", OpenSource(c),
         UNCHANGED <<program, main_vars, client_vars>>
  PROVE  TypeInv'
<1>1. /\ item \in [Clients -> Nat] /\ answers \in [Clients -> SUBSET (Nat \X Statuses)]
      /\ DataTypes /\ Progress(c) /\ pc \in [Clients -> Labels]
  BY DEF TypeInv, ControlTypes
<1>2. FilesStay /\ DataTypes' /\ UNCHANGED lock
  BY <1>1 DEF OpenSource, FilesStay, DataTypes, Contents, Records, disk_vars, buffer_vars
<1>3. PICK to \in {"exit", "source"} : Go(c, "open", to)
  BY DEF OpenSource
<1>4. /\ answers' \in [Clients -> SUBSET (Nat \X Statuses)]
      /\ \A d \in Clients \ {c} : answers'[d] = answers[d]
  <2>1. UNCHANGED answers \/ \E s \in Statuses : Answer(c, s)
    BY DEF OpenSource, Statuses
  <2> QED  BY <1>1, <2>1, AnswerTypes
<1>5. Moves(c, to)
  BY <1>1, <1>3, <1>4 DEF Moves, Go, OpenSource, Ended, Outside, Labels, Working, main_vars, client_vars
<1>6. Locks' /\ lock' \in [Paths -> Clients \cup {NoClient}]
  BY <1>2, <1>3, <1>5, LocksKept DEF Go
<1>7. Progress(c)'
  <2>1. /\ pc[c] = "open" /\ item[c] # 0 /\ request[c].method \in Methods
        /\ item[c] <= Len(request[c].names) /\ \A a \in answers[c] : a[1] <= Len(request[c].names)
        /\ client_pc[c] # "new"
    BY <1>1, <1>3 DEF Go, Progress, Working
  <2>2. CASE to = "source"
    <3>1. pc'[c] = "source" /\ file'[Path(c)'] # Missing /\ UNCHANGED <<answers, program, item, request, client_pc>>
      BY <1>1, <1>3, <2>2 DEF OpenSource, Go, Path, disk_vars, client_vars
    <3> QED  BY <1>1, <2>1, <3>1 DEF Progress, Outside, Working, Reading, Writing
  <2>3. CASE to = "exit"
    <3>1. pc'[c] = "exit" /\ Answer(c, "404") /\ UNCHANGED <<program, item, request, client_pc>>
      BY <1>1, <1>3, <2>3 DEF OpenSource, Go, client_vars
    <3>2. answers'[c] = answers[c] \cup {<<item[c], "404">>}
      BY <3>1, AnswerTypes DEF Statuses
    <3> QED  BY <1>1, <2>1, <3>1, <3>2 DEF Progress, Outside, Working, Reading, Writing
  <2> QED  BY <2>2, <2>3
<1> QED  BY <1>2, <1>5, <1>6, <1>7, ChildMoves

\* A lock taken or released by the child that moves.
LEMMA LockTaken ==
  ASSUME TypeInv, NEW c \in Clients, NEW to, Moves(c, to), NEW q \in Paths,
         \/ lock' = [lock EXCEPT ![q] = c] /\ Locking(c, q)'
            /\ pc[c] # "unlock" /\ (program = "partA" => pc[c] # "read")
         \/ lock' = [lock EXCEPT ![q] = NoClient] /\ \A p \in Paths : Locking(c, p) => p = q
  PROVE  Locks' /\ lock' \in [Paths -> Clients \cup {NoClient}]
<1>1. Locks /\ lock \in [Paths -> Clients \cup {NoClient}] /\ pc \in [Clients -> Labels]
  BY DEF TypeInv, ControlTypes
<1>2. lock' \in [Paths -> Clients \cup {NoClient}]
  BY <1>1
<1>3. NoClient \notin Clients
  BY FileServerAssumption DEF FileServerAssumption
<1>4. ASSUME NEW p \in Paths, NEW d \in Clients, lock'[p] = d PROVE Locking(d, p)'
  <2>1. CASE d = c /\ p = q
    BY <1>1, <1>3, <1>4, <2>1
  <2>2. CASE d # c \/ p # q
    <3>1. lock[p] = d
      BY <1>1, <1>3, <1>4, <2>2
    <3>2. Locking(d, p)
      BY <1>1, <3>1 DEF Locks
    <3>3. d # c
      <4> SUFFICES ASSUME d = c PROVE FALSE
        OBVIOUS
      <4>1. Locking(c, p) /\ p # q
        BY <2>2, <3>2
      <4>2. pc[c] = "unlock" \/ (program = "partA" /\ pc[c] = "read")
        BY <4>1 DEF Locking
      <4> QED  BY <4>1, <4>2
    <3>4. pc'[d] = pc[d] /\ Path(d)' = Path(d) /\ TargetOf(d)' = TargetOf(d)
      BY <1>1, <3>3 DEF Moves, Path, TargetOf
    <3> QED  BY <3>2, <3>4 DEF Locking, Moves
  <2> QED  BY <2>1, <2>2
<1> QED  BY <1>2, <1>4 DEF Locks

LEMMA TypeLockAndMeasure ==
  ASSUME TypeInv, NEW c \in Clients, program = "partA", LockAndMeasure(c),
         UNCHANGED <<program, main_vars, client_vars>>
  PROVE  TypeInv'
<1>1. DataTypes /\ Progress(c) /\ pc \in [Clients -> Labels]
  BY DEF TypeInv, ControlTypes
<1>2. Moves(c, "read") /\ pc[c] = "source" /\ pc'[c] = "read" /\ Path(c)' = Path(c)
      /\ TargetOf(c)' = TargetOf(c)
  BY SimpleMove DEF LockAndMeasure, Labels, Working, Ended, Outside
<1>3. Path(c) \in Paths /\ file[Path(c)] # Missing
  BY <1>1, <1>2, Names DEF Progress, Working, Reading
<1>4. Len(file[Path(c)]) \in Nat
  BY <1>1, <1>3, SeqElements DEF DataTypes, Contents
<1>5. DataTypes' /\ FilesStay
  BY <1>1, <1>4 DEF DataTypes, FilesStay, LockAndMeasure, Contents, Records
<1>6. Locking(c, Path(c))'
  BY <1>2 DEF Locking
<1>7. Locks' /\ lock' \in [Paths -> Clients \cup {NoClient}]
  <2>1. lock' = [lock EXCEPT ![Path(c)] = c] /\ (Locking(c, Path(c)))'
    BY <1>6 DEF LockAndMeasure
  <2>2. \A q \in Paths : q = Path(c) => Locking(c, q)'
    BY <1>2 DEF Locking
  <2> QED  BY <1>2, <1>3, <2>1, <2>2, LockTaken
<1>8. Progress(c)'
  BY <1>1, <1>2, <1>3 DEF Progress, LockAndMeasure, client_vars, Outside, Working, Reading, Writing
<1> QED  BY <1>2, <1>5, <1>7, <1>8, ChildMoves

LEMMA MinOfTwo ==
  ASSUME NEW a \in Nat, NEW b \in Nat
  PROVE  Min({a, b}) = IF a <= b THEN a ELSE b
<1> DEFINE m == IF a <= b THEN a ELSE b
<1>1. m \in {a, b} /\ \A y \in {a, b} : m <= y
  OBVIOUS
<1>2. ASSUME NEW x \in {a, b}, \A y \in {a, b} : x <= y PROVE x = m
  BY <1>2
<1> HIDE DEF m
<1>3. Min({a, b}) = m
  BY <1>1, <1>2, Zenon DEF Min
<1> QED  BY <1>3 DEF m

\* What a child reads of an existing file.
LEMMA BytesRead ==
  ASSUME TypeInv, NEW c \in Clients, pc[c] \in Reading
  PROVE  /\ Path(c) \in Paths /\ file[Path(c)] \in Seq(Byte) /\ Len(file[Path(c)]) \in Nat
         /\ Bytes(c) \in Seq(Byte) /\ Len(Bytes(c)) \in Nat
         /\ Len(Bytes(c)) = IF size[c] <= Len(file[Path(c)]) THEN size[c] ELSE Len(file[Path(c)])
         /\ \A k \in 1..Len(Bytes(c)) : Bytes(c)[k] = file[Path(c)][k]
         /\ \A g \in Garbage : Rest(c, g) \in Seq(Byte) /\ Bytes(c) \o Rest(c, g) \in Seq(Byte)
<1>1. Progress(c) /\ DataTypes
  BY DEF TypeInv
<1>2. Path(c) \in Paths
  BY Names DEF Reading, Working
<1>3. file[Path(c)] \in Seq(Byte) /\ size[c] \in Nat
  BY <1>1, <1>2 DEF Progress, DataTypes, Contents
<1>4. Len(file[Path(c)]) \in Nat
  BY <1>3, SeqElements
<1> DEFINE n == IF size[c] <= Len(file[Path(c)]) THEN size[c] ELSE Len(file[Path(c)])
<1>5. n \in 0..Len(file[Path(c)]) /\ n \in Nat /\ n <= size[c]
  BY <1>3, <1>4
<1>6. Bytes(c) = SubSeq(file[Path(c)], 1, n)
  BY <1>3, <1>4, MinOfTwo DEF Bytes
<1> HIDE DEF n
<1>7. Bytes(c) \in Seq(Byte) /\ Len(Bytes(c)) = n /\ \A k \in 1..n : Bytes(c)[k] = file[Path(c)][k]
  BY <1>3, <1>5, <1>6, Prefix
<1>8. ASSUME NEW g \in Garbage
      PROVE  Rest(c, g) \in Seq(Byte) /\ Bytes(c) \o Rest(c, g) \in Seq(Byte)
  <2>1. g \in Byte
    BY FileServerAssumption DEF FileServerAssumption
  <2>2. PICK r \in Nat : r = size[c] - Len(Bytes(c))
    BY <1>3, <1>5, <1>7
  <2>3. Rest(c, g) = [k \in 1..r |-> g]
    BY <2>2 DEF Rest
  <2>4. Rest(c, g) \in [1..r -> Byte]
    BY <2>1, <2>3
  <2>5. Rest(c, g) \in Seq(Byte)
    BY <2>4, IsSequence
  <2> QED  BY <1>7, <2>5
<1> QED  BY <1>2, <1>3, <1>4, <1>5, <1>7, <1>8 DEF n

LEMMA TypeReadAndUnlock ==
  ASSUME TypeInv, NEW c \in Clients, program = "partA", ReadAndUnlock(c),
         UNCHANGED <<program, main_vars, client_vars>>
  PROVE  TypeInv'
<1>1. DataTypes /\ Progress(c) /\ pc \in [Clients -> Labels]
  BY DEF TypeInv, ControlTypes
<1>2. Moves(c, "create") /\ pc[c] = "read" /\ pc'[c] = "create" /\ Path(c)' = Path(c)
      /\ TargetOf(c)' = TargetOf(c)
  BY SimpleMove DEF ReadAndUnlock, Labels, Working, Ended, Outside
<1>3. Path(c) \in Paths /\ \A g \in Garbage : Bytes(c) \o Rest(c, g) \in Seq(Byte)
  BY <1>2, BytesRead DEF Reading
<1>4. content' \in [Clients -> Seq(Byte)]
  BY <1>1, <1>3 DEF ReadAndUnlock, DataTypes
<1>5. DataTypes' /\ FilesStay
  BY <1>1, <1>4 DEF DataTypes, FilesStay, ReadAndUnlock
<1>6. Locks' /\ lock' \in [Paths -> Clients \cup {NoClient}]
  <2>1. lock' = [lock EXCEPT ![Path(c)] = NoClient]
    BY DEF ReadAndUnlock
  <2>2. \A p \in Paths : Locking(c, p) => p = Path(c)
    BY <1>2 DEF Locking
  <2> QED  BY <1>2, <1>3, <2>1, <2>2, LockTaken
<1>7. Progress(c)'
  BY <1>1, <1>2 DEF Progress, ReadAndUnlock, client_vars, Outside, Working, Reading, Writing
<1> QED  BY <1>2, <1>5, <1>6, <1>7, ChildMoves

\* A file emptied.
LEMMA Emptied ==
  ASSUME TypeInv, NEW c \in Clients, pc[c] \in Working,
         file' = [file EXCEPT ![TargetOf(c)] = <<>>]
  PROVE  file' \in Contents /\ FilesStay /\ file'[TargetOf(c)] # Missing
<1>1. file \in Contents /\ TargetOf(c) \in Paths
  BY Names DEF TypeInv, DataTypes
<1>2. <<>> \in Seq(Byte) /\ Missing \notin Seq(Byte)
  BY FileServerAssumption DEF FileServerAssumption
<1> QED  BY <1>1, <1>2 DEF Contents, FilesStay

LEMMA TypeConvertAndCreate ==
  ASSUME TypeInv, NEW c \in Clients, program = "partA", ConvertAndCreate(c),
         UNCHANGED <<program, main_vars, client_vars>>
  PROVE  TypeInv'
<1>1. /\ item \in [Clients -> Nat] /\ answers \in [Clients -> SUBSET (Nat \X Statuses)]
      /\ DataTypes /\ Progress(c) /\ pc \in [Clients -> Labels]
  BY DEF TypeInv, ControlTypes
<1>2. PICK to \in {"exit", "flush"} : Go(c, "create", to)
  BY DEF ConvertAndCreate
<1>3. pc[c] = "create" /\ pc[c] \in Working
  BY <1>2 DEF Go, Working
<1>4. Base64Encode(content[c]) \in Seq(Byte) /\ CString(Base64Decode(content[c])) \in Seq(Byte)
  <2>1. content[c] \in Seq(Byte)
    BY <1>1 DEF DataTypes
  <2>2. Base64Encode(content[c]) \in Seq(Byte) /\ Base64Decode(content[c]) \in Seq(Byte)
    BY <2>1, EncodeBytes, DecodeBytes
  <2>3. CString(Base64Decode(content[c])) \in Seq(Char)
    BY <2>2, CStringChars
  <2> QED  BY <2>2, <2>3, SeqOfSubset DEF Char, Byte
<1>5. output' \in [Clients -> Seq(Byte)] /\ UNCHANGED <<flushed, content, size, lock>>
  BY <1>1, <1>4 DEF ConvertAndCreate, DataTypes
<1>6. failures' \in 0..Failures
  BY <1>1, FileServerAssumption DEF ConvertAndCreate, DataTypes, Failing, FileServerAssumption
<1>7. file' \in Contents /\ FilesStay
  BY <1>1, <1>3, Emptied DEF ConvertAndCreate, FilesStay, DataTypes
<1>8. DataTypes'
  BY <1>1, <1>5, <1>6, <1>7 DEF DataTypes
<1>9. /\ answers' \in [Clients -> SUBSET (Nat \X Statuses)]
      /\ \A d \in Clients \ {c} : answers'[d] = answers[d]
  <2>1. UNCHANGED answers \/ \E s \in Statuses : Answer(c, s)
    BY DEF ConvertAndCreate, Statuses
  <2> QED  BY <1>1, <2>1, AnswerTypes
<1>10. Moves(c, to)
  BY <1>1, <1>2, <1>9 DEF Moves, Go, ConvertAndCreate, Ended, Outside, Labels, Working, main_vars, client_vars
<1>11. Locks' /\ lock' \in [Paths -> Clients \cup {NoClient}]
  BY <1>3, <1>5, <1>10, LocksKept
<1>12. Progress(c)'
  <2>1. /\ item[c] # 0 /\ request[c].method \in Methods
        /\ item[c] <= Len(request[c].names) /\ \A a \in answers[c] : a[1] <= Len(request[c].names)
        /\ client_pc[c] # "new"
    BY <1>1, <1>3 DEF Progress, Working
  <2>2. pc'[c] = to /\ UNCHANGED <<program, item, request, client_pc>>
    BY <1>1, <1>2 DEF Go, ConvertAndCreate, client_vars
  <2>3. CASE to = "flush"
    <3>1. file' = [file EXCEPT ![TargetOf(c)] = <<>>] /\ UNCHANGED answers /\ UNCHANGED TargetOf(c)
      BY <1>1, <1>2, <2>3 DEF ConvertAndCreate, Go, client_vars, TargetOf, Path
    <3>2. file'[TargetOf(c)'] # Missing
      BY <1>3, <3>1, Emptied
    <3> QED  BY <1>1, <2>1, <2>2, <2>3, <3>1, <3>2 DEF Progress, Outside, Working, Reading, Writing
  <2>4. CASE to = "exit"
    <3>1. Answer(c, "500")
      BY <1>1, <1>2, <2>4 DEF ConvertAndCreate, Go
    <3>2. answers'[c] = answers[c] \cup {<<item[c], "500">>}
      BY <3>1, AnswerTypes DEF Statuses
    <3> QED  BY <1>1, <2>1, <2>2, <2>4, <3>2 DEF Progress, Outside, Working, Reading, Writing
  <2> QED  BY <2>3, <2>4
<1> QED  BY <1>7, <1>8, <1>10, <1>11, <1>12, ChildMoves

\* To the next name of the request, or the end.
LEMMA NextItemMoves ==
  ASSUME TypeInv, NEW c \in Clients, NEW from \in Working, NextItem(c, from),
         UNCHANGED <<program, main_vars, client_vars, holders>>,
         UNCHANGED answers \/ \E s \in Statuses : Answer(c, s)
  PROVE  /\ pc[c] = from /\ Progress(c)'
         /\ \E to \in {"exit", "open"} : Moves(c, to)
<1>1. /\ item \in [Clients -> Nat] /\ answers \in [Clients -> SUBSET (Nat \X Statuses)]
      /\ Progress(c) /\ pc \in [Clients -> Labels]
  BY DEF TypeInv, ControlTypes
<1>2. PICK to \in {"exit", "open"} : Go(c, from, to) /\ (to = "open" <=> item[c] # Len(request[c].names))
  BY DEF NextItem
<1>3. /\ item[c] # 0 /\ request[c].method \in Methods /\ client_pc[c] # "new"
      /\ item[c] <= Len(request[c].names) /\ \A a \in answers[c] : a[1] <= Len(request[c].names)
  BY <1>1, <1>2 DEF Progress, Working, Go
<1>4. Len(request[c].names) \in Nat
  BY Names
<1>5. /\ item' \in [Clients -> Nat] /\ \A d \in Clients \ {c} : item'[d] = item[d]
      /\ item'[c] # 0 /\ item'[c] <= Len(request[c].names)
  BY <1>1, <1>3, <1>4 DEF NextItem
<1>6. /\ answers' \in [Clients -> SUBSET (Nat \X Statuses)]
      /\ \A d \in Clients \ {c} : answers'[d] = answers[d]
      /\ \A a \in answers'[c] : a[1] <= Len(request[c].names)
  <2>1. CASE UNCHANGED answers
    BY <1>1, <1>3, <2>1
  <2>2. ASSUME NEW s \in Statuses, Answer(c, s)
        PROVE  /\ answers' \in [Clients -> SUBSET (Nat \X Statuses)]
               /\ \A d \in Clients \ {c} : answers'[d] = answers[d]
               /\ \A a \in answers'[c] : a[1] <= Len(request[c].names)
    BY <1>3, <2>2, AnswerTypes
  <2> QED  BY <2>1, <2>2
<1>7. Moves(c, to) /\ pc'[c] = to
  BY <1>1, <1>2, <1>5, <1>6 DEF Moves, Go, Ended, Outside, Labels, Working, main_vars, client_vars
<1>8. Progress(c)'
  BY <1>1, <1>3, <1>5, <1>6, <1>7 DEF Progress, Outside, Working, Reading, Writing, client_vars
<1> QED  BY <1>2, <1>7, <1>8 DEF Go

LEMMA TypeRespond ==
  ASSUME TypeInv, NEW c \in Clients, Respond(c), UNCHANGED <<program, main_vars, client_vars>>
  PROVE  TypeInv'
<1>1. DataTypes' /\ FilesStay /\ UNCHANGED lock
  BY DEF TypeInv, DataTypes, FilesStay, Respond, disk_vars, buffer_vars
<1>2. pc[c] = "answer" /\ Progress(c)' /\ \E to \in {"exit", "open"} : Moves(c, to)
  BY NextItemMoves DEF Respond, Working, Statuses
<1>3. PICK to \in {"exit", "open"} : Moves(c, to)
  BY <1>2
<1>4. Locks' /\ lock' \in [Paths -> Clients \cup {NoClient}]
  BY <1>1, <1>2, <1>3, LocksKept
<1> QED  BY <1>1, <1>2, <1>3, <1>4, ChildMoves

LEMMA TypeCreate ==
  ASSUME TypeInv, NEW c \in Clients, program = "partB", Create(c),
         UNCHANGED <<program, main_vars, client_vars>>
  PROVE  TypeInv'
<1>1. DataTypes /\ Progress(c) /\ pc \in [Clients -> Labels]
  BY DEF TypeInv, ControlTypes
<1>2. pc[c] = "create" /\ pc[c] \in Working /\ UNCHANGED lock
  BY DEF Create, Go, NextItem, Working
<1>3. file' \in Contents /\ FilesStay
  BY <1>1, <1>2, Emptied DEF Create, DataTypes, FilesStay
<1>4. failures' \in 0..Failures
  BY <1>1, FileServerAssumption DEF Create, DataTypes, Failing, FileServerAssumption
<1>5. DataTypes'
  BY <1>1, <1>3, <1>4 DEF DataTypes, Create, buffer_vars
<1>6. CASE Go(c, "create", "lock") /\ file' = [file EXCEPT ![TargetOf(c)] = <<>>] /\ UNCHANGED <<item, answers>>
  <2>1. Moves(c, "lock") /\ pc'[c] = "lock" /\ Path(c)' = Path(c) /\ TargetOf(c)' = TargetOf(c)
    BY <1>6, SimpleMove DEF Create, Labels, Working, Ended, Outside
  <2>2. file'[TargetOf(c)'] # Missing
    BY <1>2, <1>6, <2>1, Emptied
  <2>3. Progress(c)'
    BY <1>1, <1>2, <1>6, <2>1, <2>2 DEF Progress, client_vars, Outside, Working, Reading, Writing
  <2>4. Locks' /\ lock' \in [Paths -> Clients \cup {NoClient}]
    BY <1>2, <2>1, LocksKept
  <2> QED  BY <1>3, <1>5, <2>1, <2>3, <2>4, ChildMoves
<1>7. CASE NextItem(c, "create") /\ Answer(c, "500")
  <2>1. Progress(c)' /\ \E to \in {"exit", "open"} : Moves(c, to)
    BY <1>7, NextItemMoves DEF Create, Working, Statuses
  <2>2. PICK to \in {"exit", "open"} : Moves(c, to)
    BY <2>1
  <2>3. Locks' /\ lock' \in [Paths -> Clients \cup {NoClient}]
    BY <1>2, <2>2, LocksKept
  <2> QED  BY <1>3, <1>5, <2>1, <2>2, <2>3, ChildMoves
<1> QED  BY <1>6, <1>7 DEF Create

LEMMA TypeOpen ==
  ASSUME TypeInv, NEW c \in Clients, program = "partB", Open(c),
         UNCHANGED <<program, main_vars, client_vars>>
  PROVE  TypeInv'
<1>1. DataTypes /\ Progress(c) /\ pc \in [Clients -> Labels]
  BY DEF TypeInv, ControlTypes
<1>2. pc[c] = "open" /\ pc[c] \in Working /\ UNCHANGED <<lock, answers>>
  BY DEF Open, Working, disk_vars
<1>3. DataTypes' /\ FilesStay
  BY <1>1 DEF Open, DataTypes, FilesStay, disk_vars, buffer_vars
<1>4. ASSUME NEW to \in {"measure", "exit"}, Go(c, "open", to), UNCHANGED item,
             to = "measure" => file[Path(c)] # Missing
      PROVE  TypeInv'
  <2>1. Moves(c, to) /\ pc'[c] = to /\ Path(c)' = Path(c) /\ TargetOf(c)' = TargetOf(c)
    BY <1>2, <1>4, SimpleMove DEF Open, Labels, Working, Ended, Outside
  <2>2. Progress(c)'
    BY <1>1, <1>2, <1>4, <2>1 DEF Progress, Open, disk_vars, client_vars, Outside, Working, Reading, Writing
  <2>3. Locks' /\ lock' \in [Paths -> Clients \cup {NoClient}]
    BY <1>2, <2>1, LocksKept
  <2> QED  BY <1>3, <2>1, <2>2, <2>3, ChildMoves
<1>5. CASE NextItem(c, "open")
  <2>1. Progress(c)' /\ \E to \in {"exit", "open"} : Moves(c, to)
    BY <1>2, <1>5, NextItemMoves DEF Open, Working
  <2>2. PICK to \in {"exit", "open"} : Moves(c, to)
    BY <2>1
  <2>3. Locks' /\ lock' \in [Paths -> Clients \cup {NoClient}]
    BY <1>2, <2>2, LocksKept
  <2> QED  BY <1>3, <2>1, <2>2, <2>3, ChildMoves
<1> QED  BY <1>4, <1>5 DEF Open

LEMMA TypeMeasure ==
  ASSUME TypeInv, NEW c \in Clients, program = "partB", Measure(c),
         UNCHANGED <<program, main_vars, client_vars>>
  PROVE  TypeInv'
<1>1. DataTypes /\ Progress(c) /\ pc \in [Clients -> Labels]
  BY DEF TypeInv, ControlTypes
<1>2. Moves(c, "read") /\ pc[c] = "measure" /\ pc'[c] = "read" /\ Path(c)' = Path(c)
      /\ TargetOf(c)' = TargetOf(c)
  BY SimpleMove DEF Measure, Labels, Working, Ended, Outside
<1>3. Len(file[Path(c)]) \in Nat
  BY <1>2, BytesRead DEF Reading
<1>4. DataTypes' /\ FilesStay /\ UNCHANGED <<file, lock>>
  BY <1>1, <1>3 DEF DataTypes, FilesStay, Measure, disk_vars
<1>5. Locks' /\ lock' \in [Paths -> Clients \cup {NoClient}]
  BY <1>2, <1>4, LocksKept
<1>6. Progress(c)'
  BY <1>1, <1>2, <1>4 DEF Progress, Measure, client_vars, Outside, Working, Reading, Writing
<1> QED  BY <1>2, <1>4, <1>5, <1>6, ChildMoves

LEMMA TypeRead ==
  ASSUME TypeInv, NEW c \in Clients, program = "partB", Read(c),
         UNCHANGED <<program, main_vars, client_vars>>
  PROVE  TypeInv'
<1>1. DataTypes /\ Progress(c) /\ pc \in [Clients -> Labels]
  BY DEF TypeInv, ControlTypes
<1>2. PICK to \in {"create", "save", "exit"} : Go(c, "read", to)
  BY DEF Read
<1>3. Moves(c, to) /\ pc[c] = "read" /\ pc'[c] = to /\ Path(c)' = Path(c)
      /\ TargetOf(c)' = TargetOf(c)
  BY <1>2, SimpleMove DEF Read, Labels, Working, Ended, Outside
<1>4. Bytes(c) \in Seq(Byte) /\ \A g \in Garbage : Bytes(c) \o Rest(c, g) \in Seq(Byte)
  BY <1>3, BytesRead DEF Reading
<1>5. content' \in [Clients -> Seq(Byte)]
  BY <1>1, <1>4 DEF Read, DataTypes
<1>6. DataTypes' /\ FilesStay /\ UNCHANGED lock
  BY <1>1, <1>5 DEF DataTypes, FilesStay, Read, disk_vars
<1>7. Locks' /\ lock' \in [Paths -> Clients \cup {NoClient}]
  BY <1>3, <1>6, LocksKept
<1>8. Progress(c)'
  BY <1>1, <1>3 DEF Progress, Read, client_vars, Outside, Working, Reading, Writing
<1> QED  BY <1>3, <1>6, <1>7, <1>8, ChildMoves

LEMMA StoredBytes ==
  ASSUME TypeInv, NEW c \in Clients, NEW g \in {0, Pad, NoCode}
  PROVE  Stored(c, g) \in Seq(Byte)
<1> DEFINE text == Base64Encode(content[c])
<1>1. content[c] \in Seq(Byte) /\ size[c] \in Nat
  BY DEF TypeInv, DataTypes
<1>2. text \in Seq(Byte)
  BY <1>1, EncodeBytes
<1>3. g \in Byte
  BY DEF Byte, Pad, NoCode
<1>4. \A k \in DOMAIN text : text[k] \in Byte
  BY <1>2, SeqElements
<1>5. Stored(c, g) = [k \in 1..size[c] |-> IF k \in DOMAIN text THEN text[k] ELSE g]
  BY DEF Stored
<1> HIDE DEF text
<1>6. Stored(c, g) \in [1..size[c] -> Byte]
  BY <1>3, <1>4, <1>5
<1> QED  BY <1>1, <1>6, IsSequence

LEMMA TypeLockAndWrite ==
  ASSUME TypeInv, NEW c \in Clients, program = "partB", LockAndWrite(c),
         UNCHANGED <<program, main_vars, client_vars>>
  PROVE  TypeInv'
<1>1. DataTypes /\ Progress(c) /\ pc \in [Clients -> Labels]
  BY DEF TypeInv, ControlTypes
<1>2. Moves(c, "unlock") /\ pc[c] = "lock" /\ pc'[c] = "unlock" /\ Path(c)' = Path(c)
      /\ TargetOf(c)' = TargetOf(c)
  BY SimpleMove DEF LockAndWrite, Labels, Working, Ended, Outside
<1>3. TargetOf(c) \in Paths /\ file[TargetOf(c)] # Missing
  BY <1>1, <1>2, Names DEF Progress, Working, Writing
<1>4. output' \in [Clients -> Seq(Byte)]
  BY <1>1, StoredBytes DEF LockAndWrite, DataTypes
<1>5. DataTypes' /\ FilesStay
  BY <1>1, <1>4 DEF DataTypes, FilesStay, LockAndWrite
<1>6. Locks' /\ lock' \in [Paths -> Clients \cup {NoClient}]
  <2>1. lock' = [lock EXCEPT ![TargetOf(c)] = c]
    BY DEF LockAndWrite
  <2>2. \A q \in Paths : q = TargetOf(c) => Locking(c, q)'
    BY <1>2 DEF Locking, Moves
  <2> QED  BY <1>2, <1>3, <2>1, <2>2, LockTaken
<1>7. Progress(c)'
  BY <1>1, <1>2, <1>3 DEF Progress, LockAndWrite, client_vars, Outside, Working, Reading, Writing
<1> QED  BY <1>2, <1>5, <1>6, <1>7, ChildMoves

LEMMA TypeUnlock ==
  ASSUME TypeInv, NEW c \in Clients, program = "partB", Unlock(c),
         UNCHANGED <<program, main_vars, client_vars>>
  PROVE  TypeInv'
<1>1. DataTypes /\ Progress(c) /\ pc \in [Clients -> Labels]
  BY DEF TypeInv, ControlTypes
<1>2. Moves(c, "flush") /\ pc[c] = "unlock" /\ pc'[c] = "flush" /\ Path(c)' = Path(c)
      /\ TargetOf(c)' = TargetOf(c)
  BY SimpleMove DEF Unlock, Labels, Working, Ended, Outside
<1>3. TargetOf(c) \in Paths /\ file[TargetOf(c)] # Missing
  BY <1>1, <1>2, Names DEF Progress, Working, Writing
<1>4. DataTypes' /\ FilesStay
  BY <1>1 DEF DataTypes, FilesStay, Unlock, buffer_vars
<1>5. Locks' /\ lock' \in [Paths -> Clients \cup {NoClient}]
  <2>1. lock' = [lock EXCEPT ![TargetOf(c)] = NoClient]
    BY DEF Unlock
  <2>2. \A p \in Paths : Locking(c, p) => p = TargetOf(c)
    BY DEF Locking
  <2> QED  BY <1>2, <1>3, <2>1, <2>2, LockTaken
<1>6. Progress(c)'
  BY <1>1, <1>2, <1>3 DEF Progress, Unlock, client_vars, Outside, Working, Reading, Writing
<1> QED  BY <1>2, <1>4, <1>5, <1>6, ChildMoves

LEMMA TypeSave ==
  ASSUME TypeInv, NEW c \in Clients, program = "partB", Save(c),
         UNCHANGED <<program, main_vars, client_vars>>
  PROVE  TypeInv'
<1>1. DataTypes /\ Progress(c) /\ pc \in [Clients -> Labels]
  BY DEF TypeInv, ControlTypes
<1>2. PICK to \in {"flush", "exit"} : Go(c, "save", to)
  BY DEF Save
<1>3. Moves(c, to) /\ pc[c] = "save" /\ pc'[c] = to /\ Path(c)' = Path(c)
      /\ TargetOf(c)' = TargetOf(c)
  BY <1>2, SimpleMove DEF Save, Labels, Working, Ended, Outside
<1>4. CString(Base64Decode(content[c])) \in Seq(Byte)
  <2>1. content[c] \in Seq(Byte)
    BY <1>1 DEF DataTypes
  <2>2. CString(Base64Decode(content[c])) \in Seq(Char)
    BY <2>1, DecodeBytes, CStringChars
  <2> QED  BY <2>2, SeqOfSubset DEF Char, Byte
<1>5. output' \in [Clients -> Seq(Byte)] /\ UNCHANGED <<flushed, content, size, lock>>
  BY <1>1, <1>4 DEF Save, DataTypes
<1>6. failures' \in 0..Failures
  BY <1>1, FileServerAssumption DEF Save, DataTypes, Failing, FileServerAssumption
<1>7. file' \in Contents /\ FilesStay
  BY <1>1, <1>3, Emptied DEF Save, FilesStay, DataTypes, Working
<1>8. DataTypes'
  BY <1>1, <1>5, <1>6, <1>7 DEF DataTypes
<1>9. Locks' /\ lock' \in [Paths -> Clients \cup {NoClient}]
  BY <1>3, <1>5, LocksKept
<1>10. to = "flush" => file'[TargetOf(c)'] # Missing
  <2>1. to = "flush" => file' = [file EXCEPT ![TargetOf(c)] = <<>>]
    BY <1>1, <1>2 DEF Save, Go
  <2> QED  BY <1>3, <2>1, Emptied DEF Working
<1>11. Progress(c)'
  BY <1>1, <1>3, <1>10 DEF Progress, Save, client_vars, Outside, Working, Reading, Writing
<1> QED  BY <1>3, <1>7, <1>8, <1>9, <1>11, ChildMoves

LEMMA OverlayBytes ==
  ASSUME NEW old \in Seq(Byte), NEW new \in Seq(Byte)
  PROVE  /\ Overlay(old, new) \in Seq(Byte)
         /\ Len(old) <= Len(new) => Overlay(old, new) = new
         /\ \E rest \in Seq(Byte) : Overlay(old, new) = new \o rest
<1>1. Len(old) \in Nat /\ Len(new) \in Nat
  BY SeqElements
<1>2. SubSeq(old, Len(new) + 1, Len(old)) \in Seq(Byte)
  <2> HIDE DEF Byte
  <2> QED  BY <1>1
<1>3. ASSUME Len(old) <= Len(new) PROVE SubSeq(old, Len(new) + 1, Len(old)) = <<>>
  <2>1. SubSeq(old, Len(new) + 1, Len(old)) \in Seq(Byte) /\ Len(SubSeq(old, Len(new) + 1, Len(old))) = 0
    BY <1>1, <1>2, <1>3
  <2> QED  BY <2>1, EmptySeq
<1>4. new \o <<>> = new
  OBVIOUS
<1> DEFINE rest == SubSeq(old, Len(new) + 1, Len(old))
<1>5. Overlay(old, new) = new \o rest
  BY DEF Overlay
<1> HIDE DEF rest
<1>6. rest \in Seq(Byte) /\ (Len(old) <= Len(new) => rest = <<>>)
  BY <1>2, <1>3 DEF rest
<1>7. new \o rest \in Seq(Byte)
  <2> HIDE DEF Byte
  <2> QED  BY <1>6
<1>8. Len(old) <= Len(new) => new \o rest = new
  BY <1>4, <1>6
<1> QED  BY <1>5, <1>6, <1>7, <1>8, Zenon

LEMMA TypeFlush ==
  ASSUME TypeInv, NEW c \in Clients, Flush(c), UNCHANGED <<program, main_vars, client_vars>>
  PROVE  TypeInv'
<1>1. DataTypes /\ Progress(c) /\ pc \in [Clients -> Labels] /\ item \in [Clients -> Nat]
  BY DEF TypeInv, ControlTypes
<1>2. Moves(c, "answer") /\ pc[c] = "flush" /\ pc'[c] = "answer" /\ Path(c)' = Path(c)
      /\ TargetOf(c)' = TargetOf(c)
  BY SimpleMove DEF Flush, Labels, Working, Ended, Outside
<1>3. TargetOf(c) \in Paths /\ file[TargetOf(c)] \in Seq(Byte) /\ output[c] \in Seq(Byte)
  <2>1. TargetOf(c) \in Paths /\ file[TargetOf(c)] # Missing
    BY <1>1, <1>2, Names DEF Progress, Working, Writing
  <2> QED  BY <1>1, <2>1 DEF DataTypes, Contents
<1>4. Overlay(file[TargetOf(c)], output[c]) \in Seq(Byte)
  BY <1>3, OverlayBytes
<1>5. file' \in Contents /\ FilesStay
  BY <1>1, <1>3, <1>4, FileServerAssumption
     DEF Flush, DataTypes, Contents, FilesStay, FileServerAssumption
<1>6. flushed' \in SUBSET Records
  BY <1>1, <1>3 DEF Flush, DataTypes, Records
<1>7. DataTypes' /\ UNCHANGED lock
  BY <1>1, <1>5, <1>6 DEF DataTypes, Flush, buffer_vars
<1>8. Locks' /\ lock' \in [Paths -> Clients \cup {NoClient}]
  BY <1>2, <1>7, LocksKept
<1>9. Progress(c)'
  BY <1>1, <1>2 DEF Progress, Flush, client_vars, Outside, Working, Reading, Writing
<1> QED  BY <1>2, <1>5, <1>7, <1>8, <1>9, ChildMoves

LEMMA TypeHandleRequest ==
  ASSUME TypeInv, NEW c \in Clients, program = "partB", HandleRequest(c),
         UNCHANGED <<program, main_vars, client_vars>>
  PROVE  TypeInv'
<1>1. /\ item \in [Clients -> Nat] /\ answers \in [Clients -> SUBSET (Nat \X Statuses)]
      /\ DataTypes /\ Progress(c) /\ pc \in [Clients -> Labels] /\ request[c] \in Questions
  BY DEF TypeInv, ControlTypes
<1>2. request[c].data \in Seq(Byte) /\ Len(request[c].data) \in Nat
  BY <1>1, SeqElements DEF Questions
<1>3. DataTypes' /\ FilesStay /\ UNCHANGED lock
  BY <1>1, <1>2 DEF HandleRequest, FilesStay, DataTypes, disk_vars, buffer_vars
<1>4. PICK to \in {"exit", "create", "open"} : Go(c, "request", to)
  BY DEF HandleRequest
<1>5. item' \in [Clients -> Nat] /\ \A d \in Clients \ {c} : item'[d] = item[d]
  <2>1. UNCHANGED item \/ item' = [item EXCEPT ![c] = 1]
    BY DEF HandleRequest
  <2> QED  BY <1>1, <2>1
<1>6. /\ answers' \in [Clients -> SUBSET (Nat \X Statuses)]
      /\ \A d \in Clients \ {c} : answers'[d] = answers[d]
      /\ answers'[c] # {} => \E s \in Statuses : answers'[c] = answers[c] \cup {<<item[c], s>>}
  <2>1. UNCHANGED answers \/ \E s \in Statuses : Answer(c, s)
    BY DEF HandleRequest, Statuses
  <2>2. answers[c] = {}
    BY <1>1, <1>4 DEF Go, Progress
  <2> QED  BY <1>1, <2>1, <2>2, AnswerTypes
<1>7. Moves(c, to)
  BY <1>1, <1>4, <1>5, <1>6 DEF Moves, Go, HandleRequest, Ended, Outside, Labels, Working, main_vars, client_vars
<1>8. Locks' /\ lock' \in [Paths -> Clients \cup {NoClient}]
  BY <1>3, <1>4, <1>7, LocksKept DEF Go
<1>9. Progress(c)'
  <2>1. /\ pc[c] = "request" /\ item[c] = 0 /\ answers[c] = {} /\ pc'[c] = to
        /\ client_pc[c] # "new" /\ (request[c].method \in Methods => Len(request[c].names) # 0)
    BY <1>1, <1>4 DEF Go, Progress
  <2>2. Len(request[c].names) \in Nat
    BY Names
  <2>3. request[c].method \in Methods \cup {"other"}
    BY <1>1 DEF Questions
  <2>4. ASSUME NEW a \in answers'[c] PROVE a[1] = 0
    <3>1. PICK s \in Statuses : answers'[c] = {<<0, s>>}
      BY <1>6, <2>1, <2>4
    <3>2. a = <<0, s>>
      BY <2>4, <3>1
    <3> QED  BY <3>2
  <2>5. \/ to = "exit" /\ item'[c] = 0
        \/ to \in {"create", "open"} /\ item'[c] = 1 /\ request[c].method \in Methods
    BY <1>1, <1>4, <2>1, <2>3 DEF HandleRequest, Go, Methods
  <2>6. UNCHANGED <<request, client_pc>>
    BY DEF client_vars
  <2>7. \A a \in answers'[c] : a[1] <= Len(request'[c].names)
    BY <2>2, <2>4, <2>6
  <2>8. item'[c] <= Len(request'[c].names)
    BY <2>1, <2>2, <2>5, <2>6
  <2> QED  BY <2>1, <2>5, <2>6, <2>7, <2>8 DEF Progress, Outside, Working, Reading, Writing
<1> QED  BY <1>3, <1>7, <1>8, <1>9, ChildMoves

LEMMA TypeListUnreadable ==
  ASSUME TypeInv, NEW c \in Clients, program = "partB", ListUnreadable(c),
         UNCHANGED <<program, main_vars, client_vars>>
  PROVE  TypeInv'
<1>1. DataTypes /\ Progress(c) /\ pc \in [Clients -> Labels]
  BY DEF TypeInv, ControlTypes
<1>2. Moves(c, "exit") /\ pc[c] = "request" /\ pc'[c] = "exit"
  BY SimpleMove DEF ListUnreadable, Labels, Working, Ended, Outside
<1>3. failures' \in 0..Failures
  BY <1>1, FileServerAssumption DEF ListUnreadable, DataTypes, Failing, FileServerAssumption
<1>4. DataTypes' /\ FilesStay /\ UNCHANGED lock
  BY <1>1, <1>3 DEF ListUnreadable, FilesStay, DataTypes, disk_vars, buffer_vars
<1>5. Locks' /\ lock' \in [Paths -> Clients \cup {NoClient}]
  BY <1>2, <1>4, LocksKept
<1>6. Progress(c)'
  BY <1>1, <1>2 DEF Progress, ListUnreadable, client_vars, Outside, Working, Reading, Writing
<1> QED  BY <1>2, <1>4, <1>5, <1>6, ChildMoves

(***************************************************************************)
(* Steps after which data and locks are as before: the end of a child, and *)
(* the steps of main and of the clients.                                   *)
(***************************************************************************)
LEMMA QuietStep ==
  ASSUME TypeInv, UNCHANGED <<program, disk_vars, item, buffer_vars, answers>>,
         failures' \in 0..Failures, ControlTypes', Sharing',
         \A c \in Clients : pc[c] \in Working => pc'[c] = pc[c] /\ request'[c] = request[c],
         \A c \in Clients : Progress(c)'
  PROVE  TypeInv'
<1>1. DataTypes'
  BY DEF TypeInv, DataTypes, disk_vars, buffer_vars
<1>2. Locks'
  <2> SUFFICES ASSUME NEW p \in Paths, NEW d \in Clients, lock'[p] = d PROVE Locking(d, p)'
    BY DEF Locks
  <2>1. Locking(d, p)
    BY DEF TypeInv, Locks, disk_vars
  <2>2. pc[d] \in Working
    BY <2>1 DEF Locking, Working
  <2> QED  BY <2>1, <2>2 DEF Locking, Path, TargetOf
<1> QED  BY <1>1, <1>2 DEF TypeInv

LEMMA TypeExit ==
  ASSUME TypeInv, NEW c \in Clients, Exit(c), UNCHANGED <<program, main_vars, client_vars>>
  PROVE  TypeInv'
<1>1. ControlTypes /\ Sharing /\ pc \in [Clients -> Labels] /\ DataTypes
  BY DEF TypeInv, ControlTypes
<1>2. ControlTypes'
  BY <1>1 DEF ControlTypes, Exit, Go, Labels, disk_vars, main_vars, client_vars
<1>3. Sharing'
  BY <1>1 DEF ControlTypes, Sharing, Exit, Go, Outside, main_vars
<1>4. ASSUME NEW d \in Clients PROVE Progress(d)'
  <2>1. Progress(d)
    BY DEF TypeInv
  <2> QED  BY <1>1, <2>1
     DEF Progress, Exit, Go, Outside, Working, Reading, Writing, disk_vars, client_vars, Path, TargetOf
<1>5. \A d \in Clients : pc[d] \in Working => pc'[d] = pc[d] /\ request'[d] = request[d]
  BY <1>1 DEF Exit, Go, Working, client_vars
<1>6. UNCHANGED <<program, disk_vars, item, buffer_vars, answers>> /\ failures' \in 0..Failures
  BY <1>1 DEF Exit, DataTypes
<1> QED  BY <1>2, <1>3, <1>4, <1>5, <1>6, QuietStep

LEMMA TypeMain ==
  ASSUME TypeInv, MainNext
  PROVE  TypeInv'
<1>1. ControlTypes /\ Sharing /\ pc \in [Clients -> Labels] /\ DataTypes
      /\ holders \in [Clients -> SUBSET {"parent", "child"}]
      /\ main_pc \in {"accept", "fork", "close"}
  BY DEF TypeInv, ControlTypes, Sharing
<1>2. failures' \in 0..Failures
  BY <1>1, FileServerAssumption
     DEF MainNext, MainAccept, MainFork, MainClose, DataTypes, Failing, FileServerAssumption
<1>3. ASSUME MainAccept PROVE TypeInv'
  <2>1. PICK c \in Clients : /\ client_pc[c] # "new" /\ Go(c, "none", "accepted")
                             /\ client_socket' = c
                             /\ holders' = [holders EXCEPT ![c] = {"parent"}]
    BY <1>3 DEF MainAccept
  <2>2. ControlTypes'
    BY <1>1, <1>3, <2>1 DEF ControlTypes, Go, MainNext, Labels, Outside, disk_vars, client_vars
  <2>3. Sharing'
    <3>1. main_pc = "accept" /\ main_pc' = "fork" /\ pc'[c] = "accepted"
          /\ \A d \in Clients \ {c} : pc'[d] = pc[d] /\ holders'[d] = holders[d]
          /\ holders'[c] = {"parent"}
      BY <1>1, <1>3, <2>1 DEF MainAccept, Go
    <3>2. \A d \in Clients : ~("parent" \in holders[d])
      BY <1>1, <3>1 DEF Sharing
    <3> QED  BY <1>1, <2>1, <3>1, <3>2 DEF Sharing, Outside
  <2>4. ASSUME NEW d \in Clients PROVE Progress(d)'
    <3>1. Progress(d)
      BY DEF TypeInv
    <3> QED  BY <1>1, <2>1, <3>1
       DEF Progress, MainNext, Go, Outside, Working, Reading, Writing, disk_vars, client_vars, Path, TargetOf
  <2>5. \A d \in Clients : pc[d] \in Working => pc'[d] = pc[d] /\ request'[d] = request[d]
    BY <1>1, <2>1 DEF Go, Working, MainNext, client_vars
  <2> QED  BY <1>2, <2>2, <2>3, <2>4, <2>5, QuietStep DEF MainNext
<1>4. ASSUME MainFork PROVE TypeInv'
  <2> DEFINE s == client_socket
  <2>1. s \in Clients /\ pc[s] = "accepted" /\ main_pc = "fork" /\ main_pc' = "close"
        /\ UNCHANGED <<client_socket, request, client_pc, file, item, answers, program, lock>>
    BY <1>1, <1>4 DEF MainFork, Sharing, MainNext, disk_vars, client_vars
  <2>2. \/ Go(s, "accepted", "request") /\ holders' = [holders EXCEPT ![s] = @ \cup {"child"}]
        \/ UNCHANGED <<pc, holders>>
    BY <1>4 DEF MainFork
  <2> HIDE DEF s
  <2>3. ControlTypes'
    BY <1>1, <2>1, <2>2 DEF ControlTypes, Go, Labels
  <2>4. Sharing'
    BY <1>1, <2>1, <2>2 DEF Sharing, Go, Outside
  <2>5. ASSUME NEW d \in Clients PROVE Progress(d)'
    <3>1. Progress(d)
      BY DEF TypeInv
    <3>2. Path(d)' = Path(d) /\ TargetOf(d)' = TargetOf(d)
      BY <2>1 DEF Path, TargetOf
    <3>3. pc'[d] = pc[d] \/ (pc[d] = "accepted" /\ pc'[d] = "request")
      BY <1>1, <2>1, <2>2 DEF Go
    <3> QED  BY <2>1, <3>1, <3>2, <3>3 DEF Progress, Outside, Working, Reading, Writing
  <2>6. \A d \in Clients : pc[d] \in Working => pc'[d] = pc[d] /\ request'[d] = request[d]
    BY <1>1, <2>1, <2>2 DEF Go, Working
  <2> QED  BY <1>2, <2>3, <2>4, <2>5, <2>6, QuietStep DEF MainNext
<1>5. ASSUME MainClose PROVE TypeInv'
  <2>1. /\ main_pc = "close" /\ main_pc' = "accept" /\ client_socket \in Clients
        /\ holders' = [holders EXCEPT ![client_socket] = @ \ {"parent"}]
        /\ UNCHANGED <<client_socket, request, client_pc, file, item, answers, program, lock, pc>>
    BY <1>1, <1>5 DEF MainClose, Sharing, MainNext, disk_vars, client_vars
  <2>2. ControlTypes'
    BY <1>1, <2>1 DEF ControlTypes
  <2>3. Sharing'
    BY <1>1, <2>1 DEF Sharing
  <2>4. ASSUME NEW d \in Clients PROVE Progress(d)'
    BY <2>1, Unmoved
  <2> QED  BY <1>2, <2>1, <2>2, <2>3, <2>4, QuietStep DEF MainNext
<1> QED  BY <1>3, <1>4, <1>5 DEF MainNext

\* A client that gives up or ends.
LEMMA ClientEnds ==
  ASSUME TypeInv, NEW c \in Clients, client_pc' = [client_pc EXCEPT ![c] = "done"],
         UNCHANGED <<program, disk_vars, main_vars, holders, pc, item, buffer_vars, request, answers>>,
         failures' \in 0..Failures
  PROVE  TypeInv'
<1>1. ControlTypes /\ Sharing /\ client_pc \in [Clients -> {"new", "waiting", "done"}]
  BY DEF TypeInv, ControlTypes
<1>2. ControlTypes'
  BY <1>1 DEF ControlTypes, disk_vars
<1>3. Sharing'
  BY <1>1 DEF Sharing, main_vars
<1>4. ASSUME NEW d \in Clients PROVE Progress(d)'
  <2>1. Progress(d)
    BY DEF TypeInv
  <2>2. Path(d)' = Path(d) /\ TargetOf(d)' = TargetOf(d)
    BY DEF Path, TargetOf
  <2>3. client_pc'[d] = "new" => client_pc[d] = "new"
    BY <1>1
  <2> QED  BY <2>1, <2>2, <2>3 DEF Progress, disk_vars
<1> QED  BY <1>2, <1>3, <1>4, QuietStep

\* A client that asks: q is one of its requests, data is what it sends.
LEMMA ClientAsks ==
  ASSUME TypeInv, NEW c \in Clients, NEW q \in Requests[program], NEW data \in Seq(Byte),
         Ask(c, q, data),
         UNCHANGED <<program, disk_vars, main_vars, failures, holders, pc, item, buffer_vars, answers>>
  PROVE  TypeInv'
<1>1. ControlTypes /\ Sharing /\ DataTypes /\ client_pc \in [Clients -> {"new", "waiting", "done"}]
      /\ request \in [Clients -> Questions] /\ program \in DOMAIN Requests
  BY DEF TypeInv, ControlTypes
<1> DEFINE a == [method |-> q.method, kind |-> q.kind, names |-> q.names, data |-> data]
<1>2. /\ q.method \in Methods \cup {"other"} /\ q.kind \in {"file", "list", "image", "bare"}
      /\ q.names \in Seq(Paths) /\ q.names # <<>>
  BY <1>1, FileServerAssumption DEF FileServerAssumption
<1>3. a \in Questions /\ a.names = q.names
  BY <1>2 DEF Questions
<1>4. Len(q.names) \in Nat /\ Len(q.names) # 0
  BY <1>2, SeqElements, EmptySeq
<1>5. client_pc[c] = "new" /\ client_pc' = [client_pc EXCEPT ![c] = "waiting"]
      /\ request' = [request EXCEPT ![c] = a]
  BY DEF Ask
<1> HIDE DEF a
<1>6. pc[c] = "none"
  BY <1>5 DEF TypeInv, Progress
<1>7. ControlTypes'
  BY <1>1, <1>3, <1>5 DEF ControlTypes, disk_vars
<1>8. Sharing'
  BY <1>1 DEF Sharing, main_vars
<1>9. ASSUME NEW d \in Clients PROVE Progress(d)'
  <2>1. Progress(d)
    BY DEF TypeInv
  <2>2. CASE d = c
    <3>1. request'[c] = a /\ client_pc'[c] = "waiting"
      BY <1>1, <1>5
    <3>2. pc'[c] = "none" /\ item'[c] = 0 /\ answers'[c] = {} /\ Len(request'[c].names) \in Nat
          /\ Len(request'[c].names) # 0
      BY <1>3, <1>4, <1>6, <2>1, <2>2, <3>1 DEF Progress, Outside
    <3> QED  BY <2>2, <3>1, <3>2 DEF Progress, Outside, Working, Reading, Writing
  <2>3. CASE d # c
    <3>1. request'[d] = request[d] /\ client_pc'[d] = client_pc[d] /\ UNCHANGED file
      BY <1>1, <1>5, <2>3 DEF disk_vars
    <3> QED  BY <3>1, Unmoved
  <2> QED  BY <2>2, <2>3
<1>10. \A d \in Clients : pc[d] \in Working => pc'[d] = pc[d] /\ request'[d] = request[d]
  BY <1>1, <1>5, <1>6 DEF Working
<1>11. failures' \in 0..Failures
  BY <1>1 DEF DataTypes
<1> QED  BY <1>7, <1>8, <1>9, <1>10, <1>11, QuietStep

LEMMA TypeClient ==
  ASSUME TypeInv, NEW c \in Clients, Client(c)
  PROVE  TypeInv'
<1>1. DataTypes /\ program \in DOMAIN Requests
  BY DEF TypeInv, ControlTypes
<1>2. <<>> \in Seq(Byte)
  OBVIOUS
<1>3. CASE program = "partA" /\ SendSimple(c)
  <2>1. PICK q \in Requests[program] : Ask(c, q, <<>>)
    BY <1>3 DEF SendSimple
  <2> QED  BY <1>2, <1>3, <2>1, ClientAsks DEF SendSimple
<1>4. CASE FinishSimple(c)
  <2>1. failures' \in 0..Failures
    BY <1>1, <1>4 DEF FinishSimple, DataTypes
  <2> QED  BY <1>4, <2>1, ClientEnds DEF FinishSimple
<1>5. CASE program = "partB" /\ SendRequest(c)
  <2>1. PICK q \in Requests[program] :
          LET source == file[q.names[1]] IN
          IF q.method = "GET" \/ q.kind = "list" THEN Ask(c, q, <<>>)
          ELSE source # Missing /\ Ask(c, q, CString(source))
    BY <1>5 DEF SendRequest
  <2>2. CASE Ask(c, q, <<>>)
    BY <1>2, <1>5, <2>1, <2>2, ClientAsks DEF SendRequest
  <2>3. CASE file[q.names[1]] # Missing /\ Ask(c, q, CString(file[q.names[1]]))
    <3>1. q.names \in Seq(Paths) /\ Len(q.names) \in Nat /\ Len(q.names) # 0
      BY <1>1, FileServerAssumption, SeqElements, EmptySeq DEF FileServerAssumption
    <3>2. q.names[1] \in Paths
      BY <3>1, SeqElements
    <3>3. file[q.names[1]] \in Seq(Byte)
      BY <1>1, <2>3, <3>2 DEF DataTypes, Contents
    <3>4. CString(file[q.names[1]]) \in Seq(Char)
      BY <3>3, CStringChars
    <3>5. CString(file[q.names[1]]) \in Seq(Byte)
      BY <3>4, SeqOfSubset DEF Char, Byte
    <3> QED  BY <1>5, <2>1, <2>3, <3>5, ClientAsks DEF SendRequest
  <2> QED  BY <2>1, <2>2, <2>3
<1>6. CASE GiveUp(c)
  <2>1. failures' \in 0..Failures
    BY <1>1, <1>6, FileServerAssumption DEF GiveUp, DataTypes, Failing, FileServerAssumption
  <2> QED  BY <1>6, <2>1, ClientEnds DEF GiveUp
<1>7. CASE Finish(c)
  <2>1. failures' \in 0..Failures
    BY <1>1, <1>7 DEF Finish, DataTypes
  <2> QED  BY <1>7, <2>1, ClientEnds DEF Finish
<1> QED  BY <1>3, <1>4, <1>5, <1>6, <1>7 DEF Client

LEMMA TypeChild ==
  ASSUME TypeInv, NEW c \in Clients, Child(c)
  PROVE  TypeInv'
<1>1. UNCHANGED <<program, main_vars, client_vars>>
  BY DEF Child
<1>2. CASE program = "partA" /\ ChildA(c)
  BY <1>1, <1>2, TypeDispatch, TypeOpenSource, TypeLockAndMeasure, TypeReadAndUnlock, TypeConvertAndCreate
     DEF ChildA
<1>3. CASE program = "partB" /\ ChildB(c)
  BY <1>1, <1>3, TypeHandleRequest, TypeListUnreadable, TypeOpen, TypeMeasure, TypeRead, TypeCreate,
     TypeLockAndWrite, TypeUnlock, TypeSave
     DEF ChildB
<1>4. CASE Flush(c) \/ Respond(c) \/ Exit(c)
  BY <1>1, <1>4, TypeFlush, TypeRespond, TypeExit
<1> QED  BY <1>2, <1>3, <1>4 DEF Child

LEMMA TypeStutter == ASSUME TypeInv, UNCHANGED vars PROVE TypeInv'
<1>1. UNCHANGED <<program, file, lock, flushed, main_pc, client_socket, failures, holders, pc,
                  item, content, size, output, request, client_pc, answers>>
  BY DEF vars, disk_vars, main_vars, buffer_vars, client_vars
<1>2. DataTypes'
  BY <1>1 DEF TypeInv, DataTypes
<1>3. ControlTypes'
  BY <1>1 DEF TypeInv, ControlTypes
<1>4. Sharing'
  BY <1>1 DEF TypeInv, Sharing
<1>5. \A c \in Clients : Progress(c)'
  BY <1>1, Unmoved
<1>6. Locks'
  BY <1>1 DEF TypeInv, Locks, Locking, Path, TargetOf
<1> QED  BY <1>2, <1>3, <1>4, <1>5, <1>6 DEF TypeInv

LEMMA TypeNext == ASSUME TypeInv, [Next]_vars PROVE TypeInv'
<1>1. CASE Next
  BY <1>1, TypeMain, TypeClient, TypeChild DEF Next
<1> QED  BY <1>1, TypeStutter

\* The strengthening of the type invariant that the other proofs stand on.
THEOREM TypeInvHolds == Spec => []TypeInv
<1>1. Init => TypeInv
  BY TypeInit
<1>2. TypeInv /\ [Next]_vars => TypeInv'
  BY TypeNext
<1> QED  BY <1>1, <1>2, PTL DEF Spec

(***************************************************************************)
(* The type invariant of both servers, their children and their clients:   *)
(* also that a lock of flock belongs to a child between flock and the end  *)
(* of its critical section on that file, and that a child holds the        *)
(* connection exactly while it runs.                                       *)
(***************************************************************************)
THEOREM FileServerTypeOK == Spec => []TypeOK
<1>1. TypeInv => TypeOK
  BY TypeInvOK
<1> QED  BY <1>1, TypeInvHolds, PTL

(* What a step does to the files.                                          *)

\* Neither files nor what was written change; who writes goes on.
Keeps ==
  /\ UNCHANGED <<file, flushed>>
  /\ \A c \in Clients :
       /\ pc'[c] \in Writing <=> pc[c] \in Writing
       /\ pc[c] \in Writing => TargetOf(c)' = TargetOf(c)

\* c begins to write to a file and empties it; nobody else begins or ends.
Empties(c) ==
  /\ pc[c] \notin Writing /\ pc'[c] \in Writing
  /\ pc[c] \in Working /\ TargetOf(c)' = TargetOf(c)
  /\ file' = [file EXCEPT ![TargetOf(c)] = <<>>] /\ UNCHANGED flushed
  /\ \A d \in Clients \ {c} : pc'[d] = pc[d] /\ TargetOf(d)' = TargetOf(d)

\* c writes what it has and ends; nobody else begins or ends.
Flushes(c) ==
  /\ pc[c] = "flush" /\ pc'[c] \notin Writing
  /\ file' = [file EXCEPT ![TargetOf(c)] = Overlay(@, output[c])]
  /\ flushed' = flushed \cup {[child |-> c, item |-> item[c],
                               path |-> TargetOf(c), text |-> output[c]]}
  /\ \A d \in Clients \ {c} : pc'[d] = pc[d] /\ TargetOf(d)' = TargetOf(d)

\* A child changes nothing of another one.
LEMMA OthersStay ==
  ASSUME TypeInv, NEW c \in Clients, Child(c), NEW d \in Clients \ {c}
  PROVE  /\ UNCHANGED <<pc[d], item[d], content[d], size[d], answers[d], request[d], program>>
         /\ Path(d)' = Path(d) /\ TargetOf(d)' = TargetOf(d)
<1>1. pc \in [Clients -> Labels] /\ item \in [Clients -> Nat]
      /\ answers \in [Clients -> SUBSET (Nat \X Statuses)]
      /\ content \in [Clients -> Seq(Byte)] /\ size \in [Clients -> Nat]
  BY DEF TypeInv, ControlTypes, DataTypes
<1>2. UNCHANGED <<request, program>>
  BY DEF Child, client_vars
<1>3. UNCHANGED <<pc[d], item[d], content[d], size[d], answers[d]>>
  <2>1. CASE Dispatch(c) \/ OpenSource(c) \/ LockAndMeasure(c)
    BY <1>1, <2>1 DEF Dispatch, OpenSource, LockAndMeasure, Go, Answer, buffer_vars
  <2>2. CASE ReadAndUnlock(c) \/ ConvertAndCreate(c) \/ ListUnreadable(c)
    BY <1>1, <2>2 DEF ReadAndUnlock, ConvertAndCreate, ListUnreadable, Go, Answer, buffer_vars
  <2>3. CASE HandleRequest(c)
    <3>1. UNCHANGED item \/ item' = [item EXCEPT ![c] = 1]
      BY <2>3 DEF HandleRequest
    <3>2. \E to \in {"exit", "create", "open"} : Go(c, "request", to)
      BY <2>3 DEF HandleRequest
    <3>3. UNCHANGED answers \/ \E s \in Statuses : Answer(c, s)
      BY <2>3 DEF HandleRequest, Statuses
    <3>4. UNCHANGED <<content, size>> \/ \E m, n : content' = [content EXCEPT ![c] = m] /\ size' = [size EXCEPT ![c] = n]
      BY <2>3 DEF HandleRequest
    <3> QED  BY <1>1, <3>1, <3>2, <3>3, <3>4 DEF Go, Answer
  <2>4. CASE Open(c) \/ Measure(c) \/ Read(c)
    BY <1>1, <2>4 DEF Open, Measure, Read, Go, NextItem, buffer_vars
  <2>5. CASE Create(c) \/ LockAndWrite(c) \/ Unlock(c) \/ Save(c)
    BY <1>1, <2>5 DEF Create, LockAndWrite, Unlock, Save, Go, NextItem, Answer, buffer_vars
  <2>6. CASE Flush(c) \/ Respond(c) \/ Exit(c)
    BY <1>1, <2>6 DEF Flush, Respond, Exit, Go, NextItem, Answer, buffer_vars
  <2> QED  BY <2>1, <2>2, <2>3, <2>4, <2>5, <2>6 DEF Child, ChildA, ChildB
<1> QED  BY <1>2, <1>3 DEF Path, TargetOf

\* main and the clients change nothing of a child at work, nor the files.
LEMMA MainAndClientsStay ==
  ASSUME TypeInv, MainNext \/ (\E c \in Clients : Client(c)) \/ UNCHANGED vars
  PROVE  /\ UNCHANGED <<file, flushed, item, content, size, output, answers, program>>
         /\ \A d \in Clients :
              /\ pc'[d] = pc[d] \/ (pc[d] \in Outside /\ pc'[d] \in {"accepted", "request"})
              /\ pc[d] \notin Outside \cup {"request"} =>
                   pc'[d] = pc[d] /\ Path(d)' = Path(d) /\ TargetOf(d)' = TargetOf(d)
<1>1. pc \in [Clients -> Labels] /\ request \in [Clients -> Questions]
      /\ client_pc \in [Clients -> {"new", "waiting", "done"}]
  BY DEF TypeInv, ControlTypes
<1>2. ASSUME MainNext
      PROVE  /\ UNCHANGED <<file, flushed, item, content, size, output, answers, program, request>>
             /\ \A d \in Clients :
                  pc'[d] = pc[d] \/ (pc[d] \in Outside /\ pc'[d] \in {"accepted", "request"})
  BY <1>1, <1>2
     DEF MainNext, MainAccept, MainFork, MainClose, Go, Outside, disk_vars, buffer_vars, client_vars
<1>3. ASSUME NEW c \in Clients, Client(c)
      PROVE  /\ UNCHANGED <<file, flushed, item, content, size, output, answers, program, pc>>
             /\ \A d \in Clients : pc[d] \notin Outside => request'[d] = request[d]
  <2>1. UNCHANGED <<file, flushed, item, content, size, output, answers, program, pc>>
    BY <1>3 DEF Client, SendSimple, FinishSimple, SendRequest, GiveUp, Finish, disk_vars, buffer_vars
  <2>2. UNCHANGED request \/ (client_pc[c] = "new" /\ \E r : request' = [request EXCEPT ![c] = r])
    BY <1>3 DEF Client, SendSimple, FinishSimple, SendRequest, GiveUp, Finish, Ask
  <2>3. client_pc[c] = "new" => pc[c] \in Outside
    BY DEF TypeInv, Progress, Outside
  <2> QED  BY <1>1, <2>1, <2>2, <2>3
<1>4. ASSUME UNCHANGED vars
      PROVE  UNCHANGED <<file, flushed, item, content, size, output, answers, program, pc, request>>
  BY <1>4 DEF vars, disk_vars, buffer_vars, client_vars
<1> QED  BY <1>2, <1>3, <1>4 DEF Path, TargetOf, Outside

LEMMA DiskSteps ==
  ASSUME TypeInv, [Next]_vars
  PROVE  Keeps \/ \E c \in Clients : Empties(c) \/ Flushes(c)
<1>1. pc \in [Clients -> Labels]
  BY DEF TypeInv, ControlTypes
<1>2. ASSUME MainNext \/ (\E c \in Clients : Client(c)) \/ UNCHANGED vars PROVE Keeps
  BY <1>2, MainAndClientsStay DEF Keeps, Writing, Outside
<1>3. ASSUME NEW c \in Clients, Child(c) PROVE Keeps \/ Empties(c) \/ Flushes(c)
  <2>1. \A d \in Clients \ {c} : pc'[d] = pc[d] /\ TargetOf(d)' = TargetOf(d)
    BY <1>3, OthersStay
  <2>2. UNCHANGED <<program, request>>
    BY <1>3 DEF Child, client_vars
  <2>3. ASSUME UNCHANGED <<file, flushed>>, pc'[c] \in Writing <=> pc[c] \in Writing,
               pc[c] \in Writing => UNCHANGED item
        PROVE  Keeps
    BY <2>1, <2>2, <2>3 DEF Keeps, TargetOf, Path
  <2>4. CASE Dispatch(c) \/ OpenSource(c) \/ LockAndMeasure(c) \/ ReadAndUnlock(c) \/ ListUnreadable(c)
    BY <1>1, <2>3, <2>4
       DEF Dispatch, OpenSource, LockAndMeasure, ReadAndUnlock, ListUnreadable, Go, Writing, disk_vars
  <2>5. CASE ConvertAndCreate(c)
    BY <1>1, <2>1, <2>2, <2>3, <2>5 DEF ConvertAndCreate, Go, Writing, Working, Empties, TargetOf, Path
  <2>6. CASE HandleRequest(c)
    <3>1. \E to \in {"exit", "create", "open"} : Go(c, "request", to)
      BY <2>6 DEF HandleRequest
    <3>2. UNCHANGED <<file, flushed>>
      BY <2>6 DEF HandleRequest, disk_vars
    <3> QED  BY <1>1, <2>3, <3>1, <3>2 DEF Go, Writing
  <2>7. CASE Open(c) \/ Measure(c) \/ Read(c)
    BY <1>1, <2>3, <2>7 DEF Open, Measure, Read, Go, NextItem, Writing, disk_vars
  <2>8. CASE Create(c)
    BY <1>1, <2>1, <2>2, <2>3, <2>8 DEF Create, Go, NextItem, Writing, Working, Empties, TargetOf, Path
  <2>9. CASE LockAndWrite(c) \/ Unlock(c)
    BY <1>1, <2>3, <2>9 DEF LockAndWrite, Unlock, Go, Writing
  <2>10. CASE Save(c)
    BY <1>1, <2>1, <2>2, <2>3, <2>10 DEF Save, Go, Writing, Working, Empties, TargetOf, Path
  <2>11. CASE Flush(c)
    BY <1>1, <2>1, <2>11 DEF Flush, Go, Writing, Flushes
  <2>12. CASE Respond(c) \/ Exit(c)
    BY <1>1, <2>3, <2>12 DEF Respond, Exit, Go, NextItem, Writing, disk_vars
  <2> QED  BY <1>3, <2>4, <2>5, <2>6, <2>7, <2>8, <2>9, <2>10, <2>11, <2>12 DEF Child, ChildA, ChildB
<1> QED  BY <1>2, <1>3 DEF Next

\* What was written stays in the history.
LEMMA FlushedGrows ==
  ASSUME TypeInv, [Next]_vars
  PROVE  flushed \subseteq flushed'
  BY DiskSteps DEF Keeps, Empties, Flushes

(* "200 OK" means stored.                                                  *)

HasFlushed(c, k) == \E f \in flushed : f.child = c /\ f.item = k

OkInv ==
  /\ OkMeansStored
  /\ \A c \in Clients : pc[c] = "answer" => HasFlushed(c, item[c])

LEMMA OkNext == ASSUME TypeInv, OkInv, [Next]_vars PROVE OkInv'
<1>1. pc \in [Clients -> Labels] /\ item \in [Clients -> Nat]
      /\ answers \in [Clients -> SUBSET (Nat \X Statuses)]
  BY DEF TypeInv, ControlTypes
<1>2. ASSUME NEW c \in Clients, NEW k \in Nat, HasFlushed(c, k) PROVE HasFlushed(c, k)'
  BY <1>2, FlushedGrows DEF HasFlushed
<1>3. ASSUME NEW c \in Clients
      PROVE  /\ \A a \in answers'[c] : a[2] = "200" => a \in answers[c] \/ (a[1] = item[c] /\ pc[c] = "answer")
             /\ pc'[c] = "answer" => HasFlushed(c, item[c])' \/ (pc[c] = "answer" /\ item'[c] = item[c])
  <2>1. CASE \E d \in Clients \ {c} : Child(d)
    BY <2>1, OthersStay
  <2>2. CASE MainNext \/ (\E d \in Clients : Client(d)) \/ UNCHANGED vars
    <3>1. UNCHANGED <<item, answers>> /\ (pc'[c] = pc[c] \/ pc'[c] \in {"accepted", "request"})
      BY <2>2, MainAndClientsStay
    <3> QED  BY <3>1
  <2>3. CASE Child(c)
    <3>1. CASE Flush(c)
      <4> DEFINE f == [child |-> c, item |-> item[c], path |-> TargetOf(c), text |-> output[c]]
      <4>1. f \in flushed' /\ f.child = c /\ f.item = item'[c]
        BY <3>1 DEF Flush
      <4>2. HasFlushed(c, item[c])'
        BY <4>1 DEF HasFlushed
      <4> QED  BY <3>1, <4>2 DEF Flush
    <3>2. CASE Respond(c)
      <4>1. pc[c] = "answer" /\ pc'[c] # "answer" /\ answers' = [answers EXCEPT ![c] = @ \cup {<<item[c], "200">>}]
        BY <1>1, <3>2 DEF Respond, NextItem, Go, Answer
      <4>2. answers'[c] = answers[c] \cup {<<item[c], "200">>}
        BY <1>1, <4>1
      <4> QED  BY <4>1, <4>2
    <3>3. CASE ~Flush(c) /\ ~Respond(c)
      <4>1. /\ pc'[c] # "answer"
            /\ UNCHANGED answers \/ \E s \in Statuses \ {"200"} : Answer(c, s)
        <5>1. CASE Dispatch(c) \/ OpenSource(c) \/ LockAndMeasure(c) \/ ReadAndUnlock(c)
          BY <1>1, <5>1 DEF Dispatch, OpenSource, LockAndMeasure, ReadAndUnlock, Go, Statuses
        <5>2. CASE ConvertAndCreate(c) \/ ListUnreadable(c) \/ Exit(c)
          BY <1>1, <5>2 DEF ConvertAndCreate, ListUnreadable, Exit, Go, Statuses
        <5>3. CASE HandleRequest(c)
          <6>1. \E to \in {"exit", "create", "open"} : Go(c, "request", to)
            BY <5>3 DEF HandleRequest
          <6>2. UNCHANGED answers \/ \E s \in Statuses \ {"200"} : Answer(c, s)
            BY <5>3 DEF HandleRequest, Statuses
          <6> QED  BY <1>1, <6>1, <6>2 DEF Go
        <5>4. CASE Open(c) \/ Measure(c) \/ Read(c) \/ Create(c)
          BY <1>1, <5>4 DEF Open, Measure, Read, Create, Go, NextItem, Statuses
        <5>5. CASE LockAndWrite(c) \/ Unlock(c) \/ Save(c)
          BY <1>1, <5>5 DEF LockAndWrite, Unlock, Save, Go
        <5> QED  BY <2>3, <3>3, <5>1, <5>2, <5>3, <5>4, <5>5 DEF Child, ChildA, ChildB
      <4>2. \A a \in answers'[c] : a[2] = "200" => a \in answers[c]
        <5>1. ASSUME NEW s \in Statuses \ {"200"}, Answer(c, s)
              PROVE  \A a \in answers'[c] : a[2] = "200" => a \in answers[c]
          BY <5>1, AnswerTypes
        <5> QED  BY <4>1, <5>1
      <4> QED  BY <4>1, <4>2
    <3> QED  BY <3>1, <3>2, <3>3
  <2> QED  BY <2>1, <2>2, <2>3 DEF Next
<1>4. OkMeansStored'
  <2> SUFFICES ASSUME NEW c \in Clients, NEW a \in answers'[c], a[2] = "200"
               PROVE  HasFlushed(c, a[1])'
    BY DEF OkMeansStored, HasFlushed
  <2>1. CASE a \in answers[c]
    <3>1. HasFlushed(c, a[1]) /\ a[1] \in Nat
      BY <1>1, <2>1 DEF OkInv, OkMeansStored, HasFlushed
    <3> QED  BY <1>2, <3>1
  <2>2. CASE a[1] = item[c] /\ pc[c] = "answer"
    <3>1. HasFlushed(c, item[c]) /\ item[c] \in Nat
      BY <1>1, <2>2 DEF OkInv
    <3>2. \A k \in Nat : k = item[c] => HasFlushed(c, k)'
      BY <1>2, <3>1
    <3>3. a[1] \in Nat /\ a[1] = item[c]
      BY <2>2, <3>1
    <3> QED  BY <3>2, <3>3
  <2> QED  BY <1>3, <2>1, <2>2
<1>5. ASSUME NEW c \in Clients, pc'[c] = "answer" PROVE HasFlushed(c, item[c])'
  <2>1. CASE pc[c] = "answer" /\ item'[c] = item[c]
    <3>1. HasFlushed(c, item[c]) /\ item[c] \in Nat
      BY <1>1, <2>1 DEF OkInv
    <3>2. \A k \in Nat : k = item[c] => HasFlushed(c, k)'
      BY <1>2, <3>1
    <3> QED  BY <2>1, <3>1, <3>2 DEF HasFlushed
  <2> QED  BY <1>3, <1>5, <2>1
<1> QED  BY <1>4, <1>5 DEF OkInv

(***************************************************************************)
(* A client that is told "200 OK" for an item of its POST has had that     *)
(* item flushed to the file: no child answers before fclose has written    *)
(* what stdio held back, whichever of the two servers runs and whatever    *)
(* the other children do.                                                  *)
(***************************************************************************)
THEOREM FileServerOkMeansStored == Spec => []OkMeansStored
<1>1. Init => OkInv
  BY DEF Init, OkInv, OkMeansStored
<1>2. TypeInv /\ OkInv /\ [Next]_vars => OkInv'
  BY OkNext
<1>3. OkInv => OkMeansStored
  BY DEF OkInv
<1> QED  BY <1>1, <1>2, <1>3, TypeInvHolds, PTL DEF Spec

(* What is in a file.                                                      *)

LEMMA PrefixOfConcat ==
  ASSUME NEW s \in Seq(Byte), NEW t \in Seq(Byte)
  PROVE  IsPrefix(s, s \o t)
<1>1. PICK u \in Seq(Byte) : u = s \o t
  <2>1. s \o t \in Seq(Byte)
    OBVIOUS
  <2> QED  BY <2>1
<1>2. Len(s) \in Nat /\ Len(u) \in Nat /\ Len(s) <= Len(u) /\ \A k \in 1..Len(s) : u[k] = s[k]
  BY <1>1, SeqElements
<1>3. SubSeq(s, 1, Len(s)) = s
  BY SeqElements
<1>4. SubSeq(u, 1, Len(s)) = s
  <2>1. SubSeq(u, 1, Len(s)) \in Seq(Byte) /\ Len(SubSeq(u, 1, Len(s))) = Len(s)
        /\ \A k \in 1..Len(s) : SubSeq(u, 1, Len(s))[k] = u[k]
    BY <1>2, Prefix
  <2> QED  BY <1>2, <2>1, SameSeq
<1> QED  BY <1>1, <1>2, <1>3, <1>4 DEF IsPrefix

\* What a child writes when it closes its file.
LEMMA FlushTypes ==
  ASSUME TypeInv, NEW c \in Clients, pc[c] \in Writing
  PROVE  /\ TargetOf(c) \in Paths /\ output[c] \in Seq(Byte)
         /\ file[TargetOf(c)] \in Seq(Byte) /\ BeingWritten(TargetOf(c))
         /\ file \in Contents
<1>1. DataTypes /\ Progress(c)
  BY DEF TypeInv
<1>2. TargetOf(c) \in Paths /\ file[TargetOf(c)] # Missing
  BY <1>1, Names DEF Progress, Writing, Working
<1> QED  BY <1>1, <1>2 DEF DataTypes, Contents, BeingWritten, Writing

LEMMA WritersKept ==
  ASSUME TypeInv, NEW p \in Paths
  PROVE  /\ Keeps => BeingWritten(p)' = BeingWritten(p)
         /\ \A c \in Clients : Empties(c) => BeingWritten(p)' = (BeingWritten(p) \/ TargetOf(c) = p)
         /\ \A c \in Clients : Flushes(c) /\ TargetOf(c) # p => BeingWritten(p)' = BeingWritten(p)
<1>1. BeingWritten(p) \in BOOLEAN /\ BeingWritten(p)' \in BOOLEAN
  BY DEF BeingWritten
<1>2. BeingWritten(p) <=> \E d \in Clients : pc[d] \in Writing /\ TargetOf(d) = p
  BY DEF BeingWritten, Writing
<1>3. BeingWritten(p)' <=> \E d \in Clients : pc'[d] \in Writing /\ TargetOf(d)' = p
  BY DEF BeingWritten, Writing
<1>4. ASSUME Keeps PROVE BeingWritten(p)' <=> BeingWritten(p)
  BY <1>2, <1>3, <1>4 DEF Keeps
<1>5. ASSUME NEW c \in Clients, Empties(c)
      PROVE  BeingWritten(p)' <=> (BeingWritten(p) \/ TargetOf(c) = p)
  BY <1>2, <1>3, <1>5 DEF Empties
<1>6. ASSUME NEW c \in Clients, Flushes(c), TargetOf(c) # p
      PROVE  BeingWritten(p)' <=> BeingWritten(p)
  BY <1>2, <1>3, <1>6 DEF Flushes, Writing
<1> QED  BY <1>1, <1>4, <1>5, <1>6

LEMMA BeginsNext ==
  ASSUME TypeInv, BeginsWithOneText, [Next]_vars
  PROVE  BeginsWithOneText'
<1> SUFFICES ASSUME NEW p \in Paths, ~BeingWritten(p)'
             PROVE  file'[p] = InitialFiles[p]
                    \/ \E f \in flushed' : f.path = p /\ IsPrefix(f.text, file'[p])
  BY DEF BeginsWithOneText
<1>1. CASE ~BeingWritten(p) /\ file'[p] = file[p]
  BY <1>1, FlushedGrows DEF BeginsWithOneText
<1>2. CASE Keeps
  BY <1>1, <1>2, WritersKept DEF Keeps
<1>3. ASSUME NEW c \in Clients, Empties(c) PROVE ~BeingWritten(p) /\ file'[p] = file[p]
  <2>1. ~BeingWritten(p) /\ TargetOf(c) # p
    BY <1>3, WritersKept
  <2>2. file \in Contents
    BY DEF TypeInv, DataTypes
  <2> QED  BY <1>3, <2>1, <2>2 DEF Empties, Contents
<1>4. ASSUME NEW c \in Clients, Flushes(c), TargetOf(c) # p
      PROVE  ~BeingWritten(p) /\ file'[p] = file[p]
  <2>1. ~BeingWritten(p)
    BY <1>4, WritersKept
  <2>2. file \in Contents
    BY DEF TypeInv, DataTypes
  <2> QED  BY <1>4, <2>1, <2>2 DEF Flushes, Contents
<1>5. ASSUME NEW c \in Clients, Flushes(c), TargetOf(c) = p
      PROVE  \E f \in flushed' : f.path = p /\ IsPrefix(f.text, file'[p])
  <2> DEFINE f == [child |-> c, item |-> item[c], path |-> TargetOf(c), text |-> output[c]]
  <2>1. output[c] \in Seq(Byte) /\ file[p] \in Seq(Byte) /\ file \in Contents
    BY <1>5, FlushTypes DEF Flushes, Writing
  <2>2. file'[p] = Overlay(file[p], output[c])
    BY <1>5, <2>1 DEF Flushes, Contents
  <2>3. IsPrefix(output[c], Overlay(file[p], output[c]))
    BY <2>1, OverlayBytes, PrefixOfConcat
  <2>4. f \in flushed' /\ f.path = p /\ f.text = output[c]
    BY <1>5 DEF Flushes
  <2> QED  BY <2>2, <2>3, <2>4
<1> QED  BY <1>1, <1>2, <1>3, <1>4, <1>5, DiskSteps

(***************************************************************************)
(* A file that nobody is writing is the initial one or begins with one     *)
(* whole text of one writer, for any number of children that empty, lock   *)
(* and flush the same file in any order.                                   *)
(***************************************************************************)
THEOREM FileServerBeginsWithOneText == Spec => []BeginsWithOneText
<1>1. Init => BeginsWithOneText
  BY DEF Init, BeginsWithOneText
<1>2. TypeInv /\ BeginsWithOneText /\ [Next]_vars => BeginsWithOneText'
  BY BeginsNext
<1> QED  BY <1>1, <1>2, TypeInvHolds, PTL DEF Spec

LEMMA TextsKept ==
  ASSUME TypeInv, NEW p \in Paths
  PROVE  /\ Texts(p) \in SUBSET Seq(Byte)
         /\ UNCHANGED flushed => Texts(p)' = Texts(p)
         /\ \A c \in Clients : Flushes(c) =>
              Texts(p)' = IF TargetOf(c) = p THEN Texts(p) \cup {output[c]} ELSE Texts(p)
         /\ [Next]_vars => Texts(p) \subseteq Texts(p)' /\ (OneLength(p)' => OneLength(p))
<1>1. Texts(p) \in SUBSET Seq(Byte)
  BY DEF Texts, TypeInv, DataTypes, Records
<1>2. UNCHANGED flushed => Texts(p)' = Texts(p)
  BY DEF Texts
<1>3. ASSUME NEW c \in Clients, Flushes(c)
      PROVE  Texts(p)' = IF TargetOf(c) = p THEN Texts(p) \cup {output[c]} ELSE Texts(p)
  <2> DEFINE f == [child |-> c, item |-> item[c], path |-> TargetOf(c), text |-> output[c]]
  <2>1. flushed' = flushed \cup {f} /\ f.path = TargetOf(c) /\ f.text = output[c]
    BY <1>3 DEF Flushes
  <2> HIDE DEF f
  <2> QED  BY <2>1 DEF Texts
<1>4. ASSUME [Next]_vars PROVE Texts(p) \subseteq Texts(p)' /\ (OneLength(p)' => OneLength(p))
  <2>1. Texts(p) \subseteq Texts(p)'
    BY <1>4, FlushedGrows DEF Texts
  <2> QED  BY <2>1 DEF OneLength
<1> QED  BY <1>1, <1>2, <1>3, <1>4

(***************************************************************************)
(* A file that is being written to has lost what it had at the beginning.  *)
(***************************************************************************)
WholeAt(p) ==
  OneLength(p) => \/ file[p] \in Texts(p) \cup {<<>>}
                  \/ file[p] = InitialFiles[p] /\ ~BeingWritten(p)

WholeInv == \A p \in Paths : WholeAt(p)

LEMMA WholeNext == ASSUME TypeInv, WholeInv, [Next]_vars PROVE WholeInv'
<1> SUFFICES ASSUME NEW p \in Paths, OneLength(p)'
             PROVE  \/ file'[p] \in Texts(p)' \cup {<<>>}
                    \/ file'[p] = InitialFiles[p] /\ ~BeingWritten(p)'
  BY DEF WholeInv, WholeAt
<1>1. Texts(p) \subseteq Texts(p)' /\ OneLength(p)
  BY TextsKept
<1>2. \/ file[p] \in Texts(p) \cup {<<>>}
      \/ file[p] = InitialFiles[p] /\ ~BeingWritten(p)
  BY <1>1 DEF WholeInv, WholeAt
<1>3. file \in Contents
  BY DEF TypeInv, DataTypes
<1>4. CASE file'[p] = file[p] /\ (BeingWritten(p)' = BeingWritten(p))
  BY <1>1, <1>2, <1>4
<1>5. CASE Keeps
  BY <1>4, <1>5, WritersKept DEF Keeps
<1>6. ASSUME NEW c \in Clients, Empties(c)
      PROVE  file'[p] = <<>> \/ (file'[p] = file[p] /\ (BeingWritten(p)' = BeingWritten(p)))
  <2>1. CASE TargetOf(c) = p
    BY <1>3, <1>6, <2>1 DEF Empties, Contents
  <2>2. CASE TargetOf(c) # p
    <3>1. BeingWritten(p)' = (BeingWritten(p) \/ FALSE) /\ BeingWritten(p) \in BOOLEAN
      BY <1>6, <2>2, WritersKept DEF BeingWritten
    <3>2. BeingWritten(p)' = BeingWritten(p)
      BY <3>1
    <3> QED  BY <1>3, <1>6, <2>2, <3>2 DEF Empties, Contents
  <2> QED  BY <2>1, <2>2
<1>7. ASSUME NEW c \in Clients, Flushes(c), TargetOf(c) # p
      PROVE  file'[p] = file[p] /\ (BeingWritten(p)' = BeingWritten(p))
  BY <1>3, <1>7, WritersKept DEF Flushes, Contents
<1>8. ASSUME NEW c \in Clients, Flushes(c), TargetOf(c) = p PROVE file'[p] \in Texts(p)'
  <2>1. output[c] \in Seq(Byte) /\ file[p] \in Seq(Byte) /\ BeingWritten(p)
    BY <1>8, FlushTypes DEF Flushes, Writing
  <2>2. output[c] \in Texts(p)'
    BY <1>8, TextsKept
  <2>3. file'[p] = Overlay(file[p], output[c])
    BY <1>3, <1>8 DEF Flushes, Contents
  <2>4. Len(file[p]) <= Len(output[c])
    <3>1. CASE file[p] = <<>>
      BY <2>1, <3>1, SeqElements
    <3>2. CASE file[p] \in Texts(p)
      <4>1. file[p] \in Texts(p)' /\ Len(file[p]) \in Nat
        BY <1>1, <2>1, <3>2, SeqElements
      <4>2. Len(file[p]) = Len(output[c])
        BY <2>2, <4>1 DEF OneLength
      <4> QED  BY <4>1, <4>2
    <3> QED  BY <1>2, <2>1, <3>1, <3>2
  <2> QED  BY <2>1, <2>2, <2>3, <2>4, OverlayBytes
<1> QED  BY <1>4, <1>5, <1>6, <1>7, <1>8, DiskSteps

LEMMA WholeInvHolds == Spec => []WholeInv
<1>1. Init => WholeInv
  BY DEF Init, WholeInv, WholeAt, BeingWritten
<1>2. TypeInv /\ WholeInv /\ [Next]_vars => WholeInv'
  BY WholeNext
<1> QED  BY <1>1, <1>2, TypeInvHolds, PTL DEF Spec

(***************************************************************************)
(* When all the texts that were written to a file have one length, the     *)
(* file is at every moment the initial one, empty, or exactly one of these *)
(* texts: writers of equal lengths overwrite each other and never mix.     *)
(***************************************************************************)
THEOREM FileServerWholeOrEmpty == Spec => []WholeOrEmpty
<1>1. WholeInv => WholeOrEmpty
  BY DEF WholeInv, WholeAt, WholeOrEmpty
<1> QED  BY <1>1, WholeInvHolds, PTL

(* What a GET of partB has read.                                           *)

\* No child can have read what was in the file before the programs started.
Fresh(p) == OneLength(p) /\ InitialFiles[p] = Missing

GetInv ==
  \A c \in Clients : program = "partB" =>
    /\ pc[c] = "read" /\ Fresh(Path(c)) =>
         size[c] = 0 \/ \E t \in Texts(Path(c)) : size[c] = Len(t)
    /\ pc[c] = "save" /\ Fresh(Path(c)) => content[c] \in Texts(Path(c)) \cup {<<>>}

\* What is in a file that did not exist at the beginning.
LEMMA FreshContent ==
  ASSUME TypeInv, WholeInv, NEW c \in Clients, pc[c] \in Reading, Fresh(Path(c))
  PROVE  file[Path(c)] \in Texts(Path(c)) \cup {<<>>}
<1>1. Path(c) \in Paths /\ file[Path(c)] \in Seq(Byte)
  BY BytesRead
<1>2. Missing \notin Seq(Byte)
  BY FileServerAssumption DEF FileServerAssumption
<1> QED  BY <1>1, <1>2 DEF WholeInv, WholeAt, Fresh

LEMMA MeasuresWhole ==
  ASSUME TypeInv, WholeInv, NEW c \in Clients, Measure(c), Fresh(Path(c))
  PROVE  size'[c] = 0 \/ \E t \in Texts(Path(c)) : size'[c] = Len(t)
<1>1. pc[c] \in Reading
  BY DEF Measure, Go, Reading
<1>2. file[Path(c)] \in Texts(Path(c)) \cup {<<>>}
  BY <1>1, FreshContent
<1>3. size'[c] = Len(file[Path(c)])
  BY DEF Measure, TypeInv, DataTypes
<1>4. Len(<<>>) = 0
  OBVIOUS
<1> QED  BY <1>2, <1>3, <1>4

LEMMA ReadsWhole ==
  ASSUME TypeInv, WholeInv, NEW c \in Clients, Read(c), Fresh(Path(c)), pc'[c] = "save",
         size[c] = 0 \/ \E t \in Texts(Path(c)) : size[c] = Len(t)
  PROVE  content'[c] \in Texts(Path(c)) \cup {<<>>}
<1>1. pc[c] \in Reading /\ pc \in [Clients -> Labels] /\ content \in [Clients -> Seq(Byte)]
      /\ size[c] \in Nat
  BY DEF Read, Reading, TypeInv, ControlTypes, DataTypes
<1> DEFINE now == file[Path(c)]
<1>2. /\ Path(c) \in Paths /\ now \in Seq(Byte) /\ Len(now) \in Nat
      /\ Bytes(c) \in Seq(Byte) /\ Len(Bytes(c)) \in Nat
      /\ Len(Bytes(c)) = IF size[c] <= Len(now) THEN size[c] ELSE Len(now)
      /\ \A k \in 1..Len(Bytes(c)) : Bytes(c)[k] = now[k]
  BY <1>1, BytesRead
<1>3. now \in Texts(Path(c)) \cup {<<>>}
  BY <1>1, FreshContent
<1>4. content'[c] = Bytes(c) /\ ~(Len(Bytes(c)) < size[c])
  BY <1>1 DEF Read, Go
<1> HIDE DEF now
<1>5. Len(Bytes(c)) = size[c] /\ size[c] <= Len(now)
  BY <1>1, <1>2, <1>4
<1>6. CASE size[c] = 0
  BY <1>2, <1>4, <1>5, <1>6, EmptySeq
<1>7. CASE size[c] # 0
  <2>1. PICK t \in Texts(Path(c)) : size[c] = Len(t)
    BY <1>7
  <2>2. now # <<>>
    BY <1>1, <1>5, <1>7
  <2>3. now \in Texts(Path(c))
    BY <1>3, <2>2
  <2>4. Len(now) = Len(t)
    BY <2>1, <2>3 DEF Fresh, OneLength
  <2>5. Bytes(c) = now
    BY <1>2, <1>5, <2>1, <2>4, SameSeq
  <2> QED  BY <1>4, <2>3, <2>5
<1> QED  BY <1>6, <1>7

LEMMA GetNext == ASSUME TypeInv, WholeInv, GetInv, [Next]_vars PROVE GetInv'
<1>1. pc \in [Clients -> Labels] /\ UNCHANGED program
  <2>1. UNCHANGED program
    BY DEF Next, vars, MainNext, Client, SendSimple, FinishSimple, SendRequest, GiveUp, Finish, Child
  <2> QED  BY <2>1 DEF TypeInv, ControlTypes
<1> SUFFICES ASSUME NEW c \in Clients, program = "partB", pc'[c] \in {"read", "save"}, Fresh(Path(c))'
             PROVE  /\ pc'[c] = "read" =>
                         size'[c] = 0 \/ \E t \in Texts(Path(c))' : size'[c] = Len(t)
                    /\ pc'[c] = "save" => content'[c] \in Texts(Path(c))' \cup {<<>>}
  BY <1>1 DEF GetInv
<1>2. CASE pc[c] \in {"read", "save"} /\ UNCHANGED <<pc[c], size[c], content[c]>> /\ Path(c)' = Path(c)
  <2>1. Path(c) \in Paths
    BY <1>2, Names DEF Working
  <2>2. Fresh(Path(c))
    BY <1>2, <2>1, TextsKept DEF Fresh
  <2>3. Texts(Path(c)) \subseteq Texts(Path(c))'
    BY <1>2, FlushedGrows DEF Texts
  <2> QED  BY <1>2, <2>2, <2>3 DEF GetInv
<1>3. CASE MainNext \/ (\E d \in Clients : Client(d)) \/ UNCHANGED vars
  BY <1>2, <1>3, MainAndClientsStay DEF Outside
<1>4. CASE \E d \in Clients \ {c} : Child(d)
  BY <1>2, <1>4, OthersStay
<1>5. CASE Child(c)
  <2>1. Measure(c) \/ Read(c)
    <3>1. CASE ConvertAndCreate(c) \/ ListUnreadable(c) \/ Create(c) \/ LockAndWrite(c)
      BY <1>1, <3>1 DEF ConvertAndCreate, ListUnreadable, Create, LockAndWrite, Go, NextItem
    <3>2. CASE HandleRequest(c)
      <4>1. \E to \in {"exit", "create", "open"} : Go(c, "request", to)
        BY <3>2 DEF HandleRequest
      <4> QED  BY <1>1, <4>1 DEF Go
    <3>3. CASE Open(c) \/ Unlock(c) \/ Save(c) \/ Flush(c) \/ Respond(c) \/ Exit(c)
      BY <1>1, <3>3 DEF Open, Unlock, Save, Flush, Respond, Exit, Go, NextItem
    <3> QED  BY <1>5, <3>1, <3>2, <3>3 DEF Child, ChildB
  <2>2. UNCHANGED <<request, item, flushed>>
    BY <1>5, <2>1 DEF Measure, Read, Child, disk_vars, client_vars
  <2>3. Path(c)' = Path(c) /\ Texts(Path(c))' = Texts(Path(c))
    BY <2>2 DEF Path, Texts
  <2>4. Fresh(Path(c))
    BY <2>3 DEF Fresh, OneLength
  <2>5. CASE Measure(c)
    BY <1>1, <2>3, <2>4, <2>5, MeasuresWhole DEF Measure, Go
  <2>6. CASE Read(c)
    <3>1. pc[c] = "read" /\ pc'[c] = "save"
      BY <1>1, <2>6 DEF Read, Go
    <3>2. size[c] = 0 \/ \E t \in Texts(Path(c)) : size[c] = Len(t)
      BY <2>4, <3>1 DEF GetInv
    <3> QED  BY <2>3, <2>4, <2>6, <3>1, <3>2, ReadsWhole
  <2> QED  BY <2>1, <2>5, <2>6
<1> QED  BY <1>2, <1>3, <1>4, <1>5 DEF Next

(***************************************************************************)
(* A GET of partB, which takes no lock, never hands on a torn text: what   *)
(* it has read when it begins to answer is a whole text or nothing,        *)
(* although the file may change between ftell and fread (server.c:340).    *)
(***************************************************************************)
THEOREM FileServerGetsWholeOrEmpty == Spec => []GetsWholeOrEmpty
<1>1. Init => GetInv
  BY DEF Init, GetInv
<1>2. TypeInv /\ WholeInv /\ GetInv /\ [Next]_vars => GetInv'
  BY GetNext
<1>3. GetInv => GetsWholeOrEmpty
  BY DEF GetInv, GetsWholeOrEmpty, Fresh
<1> QED  BY <1>1, <1>2, <1>3, TypeInvHolds, WholeInvHolds, PTL DEF Spec

(***************************************************************************)
(* What was posted comes back from encoding and decoding, up to the first  *)
(* 0 byte, for contents of any length a child may have received.           *)
(***************************************************************************)
THEOREM FileServerDecodesBack == Spec => []DecodesBack
<1>1. TypeInv => DecodesBack
  BY Base64DecodesBack DEF TypeInv, DataTypes, DecodesBack
<1> QED  BY <1>1, TypeInvHolds, PTL

=============================================================================
