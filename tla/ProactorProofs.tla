--------------------------- MODULE ProactorProofs ---------------------------
(***************************************************************************)
(* Proofs about the lists of proactor.c and server_proactor.c, about the   *)
(* proactor library used as its interface asks, and about the chat server  *)
(* over it: for every number of connections, descriptors and cells.        *)
(***************************************************************************)
EXTENDS ProactorLibrary, ProactorSystem, FiniteSetTheorems, FunctionTheorems, TLAPS

(* Numbers.                                                                *)

LEMMA LeastNumber ==
  ASSUME NEW S \in SUBSET Nat, S # {}
  PROVE  \E k \in S : \A l \in S : k <= l
<1> DEFINE R == {p \in Nat \X Nat : p[1] < p[2]}
<1>1. IsWellFoundedOn(R, Nat)
  BY NatLessThanWellFounded DEF OpToRel
<1> HIDE DEF R
<1>2. PICK k \in S : \A l \in S : <<l, k>> \notin R
  BY <1>1, WFMin
<1>3. \A l \in S : ~(l < k)
  BY <1>2 DEF R
<1> QED  BY <1>3

LEMMA BoundedInduction ==
  ASSUME NEW N \in Nat, NEW S \in SUBSET (0..N), 0 \in S, \A n \in S : n # N => n + 1 \in S
  PROVE  S = 0..N
<1> SUFFICES ASSUME (0..N) \ S # {} PROVE FALSE
  OBVIOUS
<1>1. PICK k \in (0..N) \ S : \A l \in (0..N) \ S : k <= l
  <2>1. (0..N) \ S \in SUBSET Nat
    OBVIOUS
  <2> QED  BY <2>1, LeastNumber
<1>2. k # 0 /\ k - 1 \in 0..N /\ k - 1 \in S
  BY <1>1
<1>3. k - 1 + 1 \in S
  BY <1>1, <1>2
<1> QED  BY <1>1, <1>3

(* The path of a list.                                                     *)

OnNumbers(p, N) == p = [n \in 0..N |-> p[n]]

\* What a loop over the pointers next visits, from first on.
Walk(p, N, first, next) ==
  p = [n \in 0..N |-> IF n = 0 THEN first
                      ELSE IF p[n - 1] = NULL THEN NULL ELSE next[p[n - 1]]]

LEMMA WalkSteps ==
  ASSUME NEW N \in Nat, NEW first, NEW next, NEW p
  PROVE  /\ Walk(p, N, first, next) =>
              /\ p[0] = first
              /\ \A n \in 1..N : p[n] = IF p[n - 1] = NULL THEN NULL ELSE next[p[n - 1]]
         /\ (/\ OnNumbers(p, N)
             /\ p[0] = first
             /\ \A n \in 1..N : p[n] = IF p[n - 1] = NULL THEN NULL ELSE next[p[n - 1]])
            => Walk(p, N, first, next)
<1>1. ASSUME Walk(p, N, first, next)
      PROVE  /\ p[0] = first
             /\ \A n \in 1..N : p[n] = IF p[n - 1] = NULL THEN NULL ELSE next[p[n - 1]]
  BY <1>1 DEF Walk
<1>2. ASSUME OnNumbers(p, N), p[0] = first,
             \A n \in 1..N : p[n] = IF p[n - 1] = NULL THEN NULL ELSE next[p[n - 1]]
      PROVE  Walk(p, N, first, next)
  <2> DEFINE e(n) == IF n = 0 THEN first ELSE IF p[n - 1] = NULL THEN NULL ELSE next[p[n - 1]]
  <2>1. ASSUME NEW n \in 0..N PROVE p[n] = e(n)
    <3>1. n = 0 \/ n \in 1..N
      OBVIOUS
    <3> QED  BY <1>2, <3>1
  <2>2. p = [n \in 0..N |-> e(n)]
    <3> HIDE DEF e
    <3> QED  BY <1>2, <2>1 DEF OnNumbers
  <2> QED  BY <2>2 DEF Walk
<1> QED  BY <1>1, <1>2

LEMMA WalkExists ==
  ASSUME NEW N \in Nat, NEW first, NEW next
  PROVE  \E p : Walk(p, N, first, next)
<1> DEFINE S == {k \in 0..N : \E p : Walk(p, k, first, next)}
<1>1. 0 \in S
  <2>1. PICK p : p = [n \in 0..0 |-> first]
    OBVIOUS
  <2>2. p[0] = first /\ OnNumbers(p, 0)
    BY <2>1 DEF OnNumbers
  <2>3. Walk(p, 0, first, next)
    BY <2>2, WalkSteps
  <2> QED  BY <2>3
<1>2. ASSUME NEW k \in S, k # N PROVE k + 1 \in S
  <2>1. PICK p : Walk(p, k, first, next)
    OBVIOUS
  <2>2. k \in Nat /\ k \in 0..N /\ k + 1 \in 0..N /\ k + 1 \in Nat
    BY <1>2, SMT
  <2>3. /\ p[0] = first
        /\ \A n \in 1..k : p[n] = IF p[n - 1] = NULL THEN NULL ELSE next[p[n - 1]]
    BY <2>1, <2>2, WalkSteps
  <2>4. PICK x : x = IF p[k] = NULL THEN NULL ELSE next[p[k]]
    OBVIOUS
  <2>5. PICK q : q = [n \in 0..(k + 1) |-> IF n = k + 1 THEN x ELSE p[n]]
    OBVIOUS
  <2>6. q[k + 1] = x /\ (\A n \in 0..k : q[n] = p[n]) /\ OnNumbers(q, k + 1)
    BY <2>2, <2>5 DEF OnNumbers
  <2>7. q[0] = first
    BY <2>2, <2>3, <2>6
  <2>8. ASSUME NEW n \in 1..(k + 1)
        PROVE  q[n] = IF q[n - 1] = NULL THEN NULL ELSE next[q[n - 1]]
    <3>1. n - 1 \in 0..k /\ q[n - 1] = p[n - 1] /\ (n = k + 1 => n - 1 = k) /\ (n # k + 1 => n \in 1..k /\ n \in 0..k)
      BY <2>2, <2>6
    <3> QED  BY <2>3, <2>4, <2>6, <3>1
  <2>9. Walk(q, k + 1, first, next)
    BY <2>2, <2>6, <2>7, <2>8, WalkSteps
  <2> QED  BY <2>2, <2>9
<1>3. S = 0..N
  <2>1. S \in SUBSET (0..N)
    OBVIOUS
  <2> HIDE DEF S
  <2> QED  BY <1>1, <1>2, <2>1, BoundedInduction
<1>4. N \in S
  BY <1>3
<1> QED  BY <1>4

LEMMA CellCount == Cardinality(Cells) \in Nat
  BY ListAssumption, FS_CardinalityType

LEMMA PathSteps ==
  ASSUME NEW list
  PROVE  /\ Path(list)[0] = list.first
         /\ \A n \in 1..Cardinality(Cells) :
              Path(list)[n] = IF Path(list)[n - 1] = NULL THEN NULL
                              ELSE list.next[Path(list)[n - 1]]
<1>1. PICK N \in Nat : N = Cardinality(Cells)
  BY CellCount
<1>2. \E p : Walk(p, N, list.first, list.next)
  BY WalkExists
<1>3. Path(list) = CHOOSE p : Walk(p, N, list.first, list.next)
  BY <1>1 DEF Path, Walk
<1>4. Walk(Path(list), N, list.first, list.next)
  BY <1>2, <1>3
<1> QED  BY <1>1, <1>4, WalkSteps

(* What the operators on lists do to a record of a list.                   *)

LEMMA EmptyListType == EmptyList \in Lists
  BY DEF EmptyList, Lists, Junk

LEMMA NewCellType ==
  ASSUME NEW list \in Lists, NEW a \in Cells, NEW f \in Fds \cup {0}
  PROVE  NewCell(list, a, f) \in Lists
  BY DEF Lists, NewCell

NewInto(new, list, a, f) ==
  /\ new.first = list.first
  /\ new.allocated = list.allocated \cup {a}
  /\ new.socket = [list.socket EXCEPT ![a] = f]
  /\ new.next = [list.next EXCEPT ![a] = NULL]

LEMMA NewCellFields ==
  ASSUME NEW list \in Lists, NEW a \in Cells, NEW f
  PROVE  NewInto(NewCell(list, a, f), list, a, f)
  BY DEF Lists, NewCell, NewInto

LEMMA PointToFirstType ==
  ASSUME NEW list \in Lists, NEW a \in Cells
  PROVE  PointToFirst(list, a) \in Lists
  BY DEF Lists, PointToFirst

\* The list with the cell a in front.
InFront(list, a) == [PointToFirst(list, a) EXCEPT !.first = a]

LEMMA InFrontType ==
  ASSUME NEW list \in Lists, NEW a \in Cells
  PROVE  InFront(list, a) \in Lists
  BY DEF Lists, PointToFirst, InFront

Prepended(new, list, a) ==
  /\ new.first = a
  /\ new.allocated = list.allocated
  /\ new.socket = list.socket
  /\ new.next = [list.next EXCEPT ![a] = list.first]

LEMMA InFrontFields ==
  ASSUME NEW list \in Lists, NEW a \in Cells
  PROVE  Prepended(InFront(list, a), list, a)
  BY DEF Lists, PointToFirst, InFront, Prepended

LEMMA FreeFields ==
  ASSUME NEW list \in Lists, NEW a \in Cells
  PROVE  /\ Free(list, a) \in Lists
         /\ Free(list, a).first = list.first /\ Free(list, a).next = list.next
         /\ Free(list, a).allocated = list.allocated \ {a}
         /\ Free(list, a).socket = [list.socket EXCEPT ![a] = Junk]
  BY DEF Lists, Free, Junk

LEMMA PathCells ==
  ASSUME NEW list \in Lists
  PROVE  \A n \in 0..Cardinality(Cells) : Path(list)[n] \in Cells \cup {NULL}
<1>1. PICK N \in Nat : N = Cardinality(Cells)
  BY CellCount
<1> DEFINE S == {n \in 0..N : Path(list)[n] \in Cells \cup {NULL}}
<1>2. list.first \in Cells \cup {NULL} /\ list.next \in [Cells -> Cells \cup {NULL}]
  BY DEF Lists
<1>3. 0 \in S
  BY <1>1, <1>2, PathSteps
<1>4. ASSUME NEW n \in S, n # N PROVE n + 1 \in S
  <2>1. n + 1 \in 1..N /\ n + 1 \in 0..N /\ n + 1 - 1 = n
    BY <1>4
  <2>2. Path(list)[n + 1] = IF Path(list)[n] = NULL THEN NULL ELSE list.next[Path(list)[n]]
    BY <1>1, <2>1, PathSteps
  <2> QED  BY <1>2, <2>1, <2>2
<1>5. S \in SUBSET (0..N)
  OBVIOUS
<1> HIDE DEF S
<1>6. S = 0..N
  BY <1>3, <1>4, <1>5, BoundedInduction
<1> QED  BY <1>1, <1>6 DEF S

\* The cell that Unlink takes out: the first one with the number f.
LEMMA FirstMatch ==
  ASSUME NEW list \in Lists, NEW f, Found(list, f)
  PROVE  LET n == Min(Matches(list, f))
             a == Path(list)[n] IN
         /\ n \in 0..Cardinality(Cells) /\ a \in Cells /\ list.socket[a] = f
         /\ n # 0 => n - 1 \in 0..Cardinality(Cells) /\ Path(list)[n - 1] \in Cells
                     /\ list.next[Path(list)[n - 1]] = a
         /\ \A k \in Matches(list, f) : n <= k
<1> DEFINE n == Min(Matches(list, f))
           a == Path(list)[n]
<1>1. PICK N \in Nat : N = Cardinality(Cells)
  BY CellCount
<1>2. Matches(list, f) \in SUBSET Nat /\ Matches(list, f) # {}
  BY <1>1 DEF Matches, Found
<1>3. \E k \in Matches(list, f) : \A l \in Matches(list, f) : k <= l
  BY <1>2, LeastNumber
<1>4. n \in Matches(list, f) /\ \A l \in Matches(list, f) : n <= l
  <2> HIDE DEF n
  <2>1. n = CHOOSE k \in Matches(list, f) : \A l \in Matches(list, f) : k <= l
    BY DEF n, Min
  <2> QED  BY <1>3, <2>1
<1> HIDE DEF n
<1>5. n \in 0..N /\ a # NULL /\ list.socket[a] = f
  BY <1>1, <1>4 DEF Matches
<1>6. a \in Cells
  BY <1>1, <1>5, PathCells
<1>7. ASSUME n # 0
      PROVE  n - 1 \in 0..N /\ Path(list)[n - 1] \in Cells /\ list.next[Path(list)[n - 1]] = a
  <2>1. n \in 1..N /\ n - 1 \in 0..N
    BY <1>5, <1>7
  <2>2. a = IF Path(list)[n - 1] = NULL THEN NULL ELSE list.next[Path(list)[n - 1]]
    BY <1>1, <2>1, PathSteps
  <2> QED  BY <1>1, <1>5, <2>1, <2>2, PathCells
<1> QED  BY <1>1, <1>4, <1>5, <1>6, <1>7 DEF n

LEMMA UnlinkFields ==
  ASSUME NEW list \in Lists, NEW f
  PROVE  /\ ~Found(list, f) => Unlink(list, f) = list
         /\ Found(list, f) =>
              LET n == Min(Matches(list, f))
                  a == Path(list)[n]
                  new == Unlink(list, f) IN
              /\ new \in Lists
              /\ new.allocated = list.allocated \ {a}
              /\ new.socket = [list.socket EXCEPT ![a] = Junk]
              /\ new.first = IF n = 0 THEN list.next[a] ELSE list.first
              /\ new.next = IF n = 0 THEN list.next
                            ELSE [list.next EXCEPT ![Path(list)[n - 1]] = list.next[a]]
<1>1. CASE ~Found(list, f)
  BY <1>1 DEF Unlink
<1>2. CASE Found(list, f)
  <2> DEFINE n == Min(Matches(list, f))
             a == Path(list)[n]
             b == Path(list)[n - 1]
             cut == IF n = 0 THEN [list EXCEPT !.first = list.next[a]]
                    ELSE [list EXCEPT !.next[b] = list.next[a]]
  <2>1. a \in Cells /\ (n # 0 => b \in Cells)
    BY <1>2, FirstMatch
  <2>2. Unlink(list, f) = Free(cut, a)
    BY <1>2 DEF Unlink
  <2> HIDE DEF n, a, b
  <2>3. /\ cut \in Lists /\ cut.allocated = list.allocated /\ cut.socket = list.socket
        /\ cut.first = IF n = 0 THEN list.next[a] ELSE list.first
        /\ cut.next = IF n = 0 THEN list.next ELSE [list.next EXCEPT ![b] = list.next[a]]
    <3>1. CASE n = 0
      BY <2>1, <3>1 DEF Lists
    <3>2. CASE n # 0
      BY <2>1, <3>2 DEF Lists
    <3> QED  BY <3>1, <3>2
  <2> HIDE DEF cut
  <2>4. /\ Unlink(list, f) \in Lists /\ Unlink(list, f).first = cut.first
        /\ Unlink(list, f).next = cut.next
        /\ Unlink(list, f).allocated = cut.allocated \ {a}
        /\ Unlink(list, f).socket = [cut.socket EXCEPT ![a] = Junk]
    BY <2>1, <2>2, <2>3, FreeFields
  <2> QED  BY <1>2, <2>3, <2>4 DEF n, a, b
<1> QED  BY <1>1, <1>2

LEMMA UnlinkType == ASSUME NEW list \in Lists, NEW f PROVE Unlink(list, f) \in Lists
  BY UnlinkFields

(* Lists that have an end.                                                 *)

(***************************************************************************)
(* s is the list as the loops see it, continued with NULL: allocated cells,*)
(* none of them twice.                                                     *)
(***************************************************************************)
Chain(list, s) ==
  /\ s \in [Nat -> Cells \cup {NULL}] /\ s[0] = list.first
  /\ \A k \in Nat : s[k + 1] = IF s[k] = NULL THEN NULL ELSE list.next[s[k]]
  /\ \A j, k \in Nat : s[j] = s[k] /\ s[j] # NULL => j = k
  /\ \A k \in Nat : s[k] # NULL => s[k] \in list.allocated

CellsOf(s) == {s[k] : k \in Nat} \ {NULL}

LEMMA ChainBound ==
  ASSUME NEW list, NEW s, Chain(list, s), NEW m \in Nat, s[m] # NULL
  PROVE  m < Cardinality(Cells) /\ \A k \in 0..m : s[k] # NULL
<1>1. PICK N \in Nat : N = Cardinality(Cells)
  BY CellCount
<1> DEFINE S == {k \in 0..m : s[m - k] # NULL}
<1>2. 0 \in S
  OBVIOUS
<1>3. ASSUME NEW k \in S, k # m PROVE k + 1 \in S
  <2>1. k + 1 \in 0..m /\ m - (k + 1) \in Nat /\ m - (k + 1) + 1 = m - k
    BY <1>3
  <2>2. s[m - k] = IF s[m - (k + 1)] = NULL THEN NULL ELSE list.next[s[m - (k + 1)]]
    BY <2>1 DEF Chain
  <2> QED  BY <1>3, <2>1, <2>2
<1>4. S \in SUBSET (0..m)
  OBVIOUS
<1> HIDE DEF S
<1>5. S = 0..m
  BY <1>2, <1>3, <1>4, BoundedInduction
<1>6. ASSUME NEW k \in 0..m PROVE s[k] # NULL
  <2>1. m - k \in S /\ m - (m - k) = k
    BY <1>5
  <2> QED  BY <2>1 DEF S
<1>7. m < N
  <2> SUFFICES ASSUME ~(m < N) PROVE FALSE
    OBVIOUS
  <2> DEFINE g == [k \in 0..m |-> s[k]]
  <2>1. g \in [0..m -> Cells]
    BY <1>6 DEF Chain
  <2>2. \A j, k \in 0..m : g[j] = g[k] => j = k
    BY <1>6 DEF Chain
  <2>3. IsFiniteSet(0..m) /\ Cardinality(0..m) = m + 1
    BY FS_Interval
  <2> HIDE DEF g
  <2>4. \E x, y \in 0..m : x # y /\ g[x] = g[y]
    BY <1>1, <2>1, <2>3, ListAssumption, FS_PigeonHole
  <2> QED  BY <2>2, <2>4
<1> QED  BY <1>1, <1>6, <1>7

LEMMA ChainPath ==
  ASSUME NEW list, NEW s, Chain(list, s)
  PROVE  \A k \in 0..Cardinality(Cells) : Path(list)[k] = s[k]
<1>1. PICK N \in Nat : N = Cardinality(Cells)
  BY CellCount
<1> DEFINE S == {k \in 0..N : Path(list)[k] = s[k]}
<1>2. 0 \in S
  BY PathSteps DEF Chain
<1>3. ASSUME NEW k \in S, k # N PROVE k + 1 \in S
  <2>1. k \in Nat /\ k + 1 \in 0..N /\ k + 1 \in 1..N /\ k + 1 - 1 = k
    BY <1>3
  <2>2. Path(list)[k + 1] = IF Path(list)[k] = NULL THEN NULL ELSE list.next[Path(list)[k]]
    BY <1>1, <2>1, PathSteps
  <2>3. s[k + 1] = IF s[k] = NULL THEN NULL ELSE list.next[s[k]]
    BY <2>1 DEF Chain
  <2> QED  BY <1>3, <2>1, <2>2, <2>3
<1>4. S \in SUBSET (0..N)
  OBVIOUS
<1> HIDE DEF S
<1>5. S = 0..N
  BY <1>2, <1>3, <1>4, BoundedInduction
<1> QED  BY <1>1, <1>5 DEF S

\* Such a list is intact, and the cells the loops reach are those of s.
LEMMA ChainReach ==
  ASSUME NEW list, NEW s, Chain(list, s)
  PROVE  Reachable(list) = CellsOf(s) /\ Intact(list)
<1>1. PICK N \in Nat : N = Cardinality(Cells)
  BY CellCount
<1>2. \A k \in 0..N : Path(list)[k] = s[k]
  BY <1>1, ChainPath
<1>3. \A k \in Nat : s[k] # NULL => k \in 0..N /\ k # N
  BY <1>1, ChainBound
<1>4. Reachable(list) = CellsOf(s)
  BY <1>1, <1>2, <1>3 DEF Reachable, CellsOf
<1>5. CellsOf(s) \subseteq list.allocated
  BY DEF CellsOf, Chain
<1>6. Path(list)[N] = NULL
  BY <1>2, <1>3
<1> QED  BY <1>1, <1>4, <1>5, <1>6 DEF Intact

LEMMA ChainEmpty == \E s : Chain(EmptyList, s) /\ CellsOf(s) = {}
<1> DEFINE s == [k \in Nat |-> NULL]
<1>1. Chain(EmptyList, s)
  BY DEF Chain, EmptyList
<1>2. CellsOf(s) = {}
  BY DEF CellsOf
<1> QED  BY <1>1, <1>2

\* A new cell, which is not in the list.
LEMMA ChainNew ==
  ASSUME NEW list \in Lists, NEW s, Chain(list, s), NEW a \in Cells \ list.allocated,
         NEW new, new.first = list.first, new.next = [list.next EXCEPT ![a] = NULL],
         new.allocated = list.allocated \cup {a}
  PROVE  Chain(new, s) /\ a \notin CellsOf(s)
<1>1. \A k \in Nat : s[k] # NULL => s[k] \in list.allocated /\ s[k] # a /\ s[k] \in Cells
  BY DEF Chain
<1>2. \A b \in Cells \ {a} : new.next[b] = list.next[b]
  BY DEF Lists
<1>3. \A k \in Nat : s[k + 1] = IF s[k] = NULL THEN NULL ELSE new.next[s[k]]
  BY <1>1, <1>2 DEF Chain
<1> QED  BY <1>1, <1>3 DEF Chain, CellsOf

\* A cell put in front.
LEMMA ChainPrepend ==
  ASSUME NEW list \in Lists, NEW s, Chain(list, s), NEW a \in list.allocated \ CellsOf(s), a \in Cells,
         NEW new, new.first = a, new.next = [list.next EXCEPT ![a] = list.first],
         new.allocated = list.allocated
  PROVE  \E t : Chain(new, t) /\ CellsOf(t) = CellsOf(s) \cup {a}
<1> DEFINE t == [k \in Nat |-> IF k = 0 THEN a ELSE s[k - 1]]
<1>1. a # NULL /\ list.next \in [Cells -> Cells \cup {NULL}] /\ s \in [Nat -> Cells \cup {NULL}]
  BY ListAssumption DEF Chain, Lists
<1>2. t[0] = a /\ \A k \in Nat : t[k + 1] = s[k]
  OBVIOUS
<1>3. t \in [Nat -> Cells \cup {NULL}]
  BY <1>1
<1>4. \A k \in Nat : k = 0 \/ \E j \in Nat : k = j + 1
  <2>1. \A k \in Nat : k = 0 \/ (k - 1 \in Nat /\ k = (k - 1) + 1)
    OBVIOUS
  <2> QED  BY <2>1
<1> HIDE DEF t
<1>5. \A k \in Nat : s[k] # NULL => s[k] \in list.allocated /\ s[k] # a
  BY DEF Chain, CellsOf
<1>6. ASSUME NEW k \in Nat PROVE t[k + 1] = IF t[k] = NULL THEN NULL ELSE new.next[t[k]]
  <2>1. CASE k = 0
    <3>1. t[1] = s[0] /\ s[0] = list.first
      BY <1>2 DEF Chain
    <3> QED  BY <1>1, <1>2, <2>1, <3>1
  <2>2. ASSUME NEW j \in Nat, k = j + 1 PROVE t[k + 1] = IF t[k] = NULL THEN NULL ELSE new.next[t[k]]
    <3>1. t[k] = s[j] /\ t[k + 1] = s[j + 1]
      BY <1>2, <2>2
    <3>2. s[j + 1] = IF s[j] = NULL THEN NULL ELSE list.next[s[j]]
      BY DEF Chain
    <3>3. s[j] # NULL => new.next[s[j]] = list.next[s[j]]
      BY <1>1, <1>5
    <3> QED  BY <3>1, <3>2, <3>3
  <2> QED  BY <1>4, <2>1, <2>2
<1>7. ASSUME NEW j \in Nat, NEW k \in Nat, t[j] = t[k], t[j] # NULL PROVE j = k
  <2>1. ASSUME NEW i \in Nat, NEW l \in Nat, j = i + 1, k = l + 1 PROVE j = k
    <3>1. s[i] = s[l] /\ s[i] # NULL
      BY <1>2, <1>7, <2>1
    <3>2. i = l
      BY <3>1 DEF Chain
    <3> QED  BY <2>1, <3>2
  <2>2. ASSUME NEW i \in Nat, j = i + 1, k = 0 PROVE FALSE
    BY <1>2, <1>5, <1>7, <2>2
  <2>3. ASSUME NEW i \in Nat, k = i + 1, j = 0 PROVE FALSE
    BY <1>2, <1>5, <1>7, <2>3
  <2> QED  BY <1>4, <2>1, <2>2, <2>3
<1>8. ASSUME NEW k \in Nat, t[k] # NULL PROVE t[k] \in new.allocated
  BY <1>2, <1>4, <1>5, <1>8
<1>9. Chain(new, t)
  BY <1>2, <1>3, <1>6, <1>7, <1>8 DEF Chain
<1>10. CellsOf(t) = CellsOf(s) \cup {a}
  BY <1>1, <1>2, <1>4 DEF CellsOf
<1> QED  BY <1>9, <1>10

\* The cell at place n taken out.
LEMMA ChainTakeOut ==
  ASSUME NEW list \in Lists, NEW s, Chain(list, s), NEW n \in Nat, s[n] # NULL,
         NEW new, new.allocated = list.allocated \ {s[n]},
         new.first = IF n = 0 THEN list.next[s[n]] ELSE list.first,
         new.next = IF n = 0 THEN list.next ELSE [list.next EXCEPT ![s[n - 1]] = list.next[s[n]]]
  PROVE  \E t : Chain(new, t) /\ CellsOf(t) = CellsOf(s) \ {s[n]}
<1> DEFINE t == [k \in Nat |-> IF k < n THEN s[k] ELSE s[k + 1]]
           r(k) == IF k < n THEN k ELSE k + 1
<1>1. list.next \in [Cells -> Cells \cup {NULL}] /\ s \in [Nat -> Cells \cup {NULL}]
  BY DEF Chain, Lists
<1>2. t \in [Nat -> Cells \cup {NULL}]
  BY <1>1
<1>3. \A k \in Nat : t[k] = s[r(k)] /\ r(k) \in Nat /\ r(k) # n
  OBVIOUS
<1>4. \A j, k \in Nat : r(j) = r(k) => j = k
  OBVIOUS
<1>5. \A m \in Nat : m # n => \E k \in Nat : r(k) = m
  <2> SUFFICES ASSUME NEW m \in Nat, m # n PROVE \E k \in Nat : r(k) = m
    OBVIOUS
  <2>1. CASE m < n
    BY <2>1
  <2>2. CASE ~(m < n)
    <3>1. m - 1 \in Nat /\ r(m - 1) = m
      BY <2>2
    <3> QED  BY <3>1
  <2> QED  BY <2>1, <2>2
<1>6. \A k \in Nat : /\ k + 1 = n => r(k) = k /\ r(k + 1) = n + 1
                     /\ k + 1 # n => r(k + 1) = r(k) + 1 /\ (n # 0 => r(k) # n - 1)
  OBVIOUS
<1> HIDE DEF t, r
<1>7. \A j, k \in Nat : s[j] = s[k] /\ s[j] # NULL => j = k
  BY DEF Chain
<1>8. \A k \in Nat : s[k + 1] = IF s[k] = NULL THEN NULL ELSE list.next[s[k]]
  BY DEF Chain
<1>9. n # 0 => n - 1 \in Nat /\ s[n - 1] # NULL /\ s[n - 1] \in Cells
  <2>1. n # 0 => n - 1 \in 0..n
    OBVIOUS
  <2> QED  BY <1>1, <2>1, ChainBound
<1>10. ASSUME NEW k \in Nat PROVE t[k + 1] = IF t[k] = NULL THEN NULL ELSE new.next[t[k]]
  <2>1. t[k] = s[r(k)] /\ t[k + 1] = s[r(k + 1)] /\ r(k) \in Nat
    BY <1>3
  <2>2. CASE k + 1 = n
    <3>1. n # 0 /\ k = n - 1
      BY <2>2
    <3>2. t[k] = s[n - 1] /\ t[k + 1] = s[n + 1]
      BY <1>6, <2>1, <2>2, <3>1
    <3>3. new.next[s[n - 1]] = list.next[s[n]]
      BY <1>1, <1>9, <3>1
    <3>4. s[n + 1] = list.next[s[n]]
      BY <1>8
    <3> QED  BY <1>9, <3>1, <3>2, <3>3, <3>4
  <2>3. CASE k + 1 # n
    <3>1. r(k + 1) = r(k) + 1 /\ (n # 0 => r(k) # n - 1)
      BY <1>6, <2>3
    <3>2. t[k + 1] = IF t[k] = NULL THEN NULL ELSE list.next[t[k]]
      BY <1>8, <2>1, <3>1
    <3>3. t[k] # NULL => new.next[t[k]] = list.next[t[k]]
      BY <1>1, <1>7, <1>9, <2>1, <3>1
    <3> QED  BY <3>2, <3>3
  <2> QED  BY <2>2, <2>3
<1>11. t[0] = new.first
  <2>1. CASE n = 0
    <3>1. r(0) = 1
      BY <2>1 DEF r
    <3>2. t[0] = s[1] /\ s[1] = list.next[s[0]]
      BY <1>3, <1>8, <2>1, <3>1
    <3> QED  BY <2>1, <3>2
  <2>2. CASE n # 0
    <3>1. r(0) = 0
      BY <2>2 DEF r
    <3> QED  BY <1>3, <2>2, <3>1 DEF Chain
  <2> QED  BY <2>1, <2>2
<1>12. ASSUME NEW j \in Nat, NEW k \in Nat, t[j] = t[k], t[j] # NULL PROVE j = k
  BY <1>3, <1>4, <1>7, <1>12
<1>13. ASSUME NEW k \in Nat, t[k] # NULL PROVE t[k] \in new.allocated
  <2>1. s[r(k)] \in list.allocated /\ s[r(k)] # s[n]
    BY <1>3, <1>7, <1>13 DEF Chain
  <2> QED  BY <1>3, <2>1
<1>14. Chain(new, t)
  BY <1>2, <1>10, <1>11, <1>12, <1>13 DEF Chain
<1>15. CellsOf(t) = CellsOf(s) \ {s[n]}
  <2>1. ASSUME NEW x \in CellsOf(t) PROVE x \in CellsOf(s) \ {s[n]}
    <3>1. PICK k \in Nat : x = t[k] /\ x # NULL
      BY <2>1 DEF CellsOf
    <3>2. x = s[r(k)] /\ r(k) \in Nat /\ r(k) # n
      BY <1>3, <3>1
    <3> QED  BY <1>7, <3>1, <3>2 DEF CellsOf
  <2>2. ASSUME NEW x \in CellsOf(s) \ {s[n]} PROVE x \in CellsOf(t)
    <3>1. PICK m \in Nat : x = s[m] /\ x # NULL /\ m # n
      BY <2>2 DEF CellsOf
    <3>2. PICK k \in Nat : r(k) = m
      BY <1>5, <3>1
    <3> QED  BY <1>3, <3>1, <3>2 DEF CellsOf
  <2> QED  BY <2>1, <2>2
<1> QED  BY <1>14, <1>15

LEMMA ChainUnlink ==
  ASSUME NEW list \in Lists, NEW s, Chain(list, s), NEW f
  PROVE  /\ Found(list, f) <=> \E a \in CellsOf(s) : list.socket[a] = f
         /\ Found(list, f) =>
              \E a \in CellsOf(s) : \E t :
                 /\ list.socket[a] = f /\ Chain(Unlink(list, f), t)
                 /\ CellsOf(t) = CellsOf(s) \ {a}
                 /\ Unlink(list, f).allocated = list.allocated \ {a}
         /\ ~Endless(list, f)
<1>1. PICK N \in Nat : N = Cardinality(Cells)
  BY CellCount
<1>2. \A k \in 0..N : Path(list)[k] = s[k]
  BY <1>1, ChainPath
<1>3. \A k \in Nat : s[k] # NULL => k \in 0..N /\ k # N
  BY <1>1, ChainBound
<1>4. Found(list, f) <=> \E a \in CellsOf(s) : list.socket[a] = f
  <2>1. Found(list, f) <=> \E k \in 0..N : Path(list)[k] # NULL /\ list.socket[Path(list)[k]] = f
    BY <1>1 DEF Found, Matches
  <2> QED  BY <1>2, <1>3, <2>1 DEF CellsOf
<1>5. ~Endless(list, f)
  <2>1. s[N] = NULL /\ Path(list)[N] = s[N]
    BY <1>2, <1>3
  <2> QED  BY <1>1, <2>1 DEF Endless
<1>6. ASSUME Found(list, f)
      PROVE  \E a \in CellsOf(s) : \E t :
                 /\ list.socket[a] = f /\ Chain(Unlink(list, f), t)
                 /\ CellsOf(t) = CellsOf(s) \ {a}
                 /\ Unlink(list, f).allocated = list.allocated \ {a}
  <2>1. PICK n : n = Min(Matches(list, f))
    OBVIOUS
  <2>2. /\ n \in 0..N /\ Path(list)[n] \in Cells /\ list.socket[Path(list)[n]] = f
        /\ n # 0 => n - 1 \in 0..N
    BY <1>1, <1>6, <2>1, FirstMatch
  <2>3. n \in Nat /\ s[n] = Path(list)[n] /\ s[n] # NULL /\ (n # 0 => s[n - 1] = Path(list)[n - 1])
    BY <1>2, <2>2, ListAssumption
  <2> DEFINE new == Unlink(list, f)
  <2>4. /\ new.allocated = list.allocated \ {Path(list)[n]}
        /\ new.socket = [list.socket EXCEPT ![Path(list)[n]] = Junk]
        /\ new.first = IF n = 0 THEN list.next[Path(list)[n]] ELSE list.first
        /\ new.next = IF n = 0 THEN list.next
                      ELSE [list.next EXCEPT ![Path(list)[n - 1]] = list.next[Path(list)[n]]]
    BY <1>6, <2>1, UnlinkFields
  <2> HIDE DEF new
  <2>5. /\ new.allocated = list.allocated \ {s[n]}
        /\ new.first = IF n = 0 THEN list.next[s[n]] ELSE list.first
        /\ new.next = IF n = 0 THEN list.next ELSE [list.next EXCEPT ![s[n - 1]] = list.next[s[n]]]
    <3>1. CASE n = 0
      BY <2>3, <2>4, <3>1
    <3>2. CASE n # 0
      BY <2>3, <2>4, <3>2
    <3> QED  BY <3>1, <3>2
  <2>6. PICK t : Chain(new, t) /\ CellsOf(t) = CellsOf(s) \ {s[n]}
    BY <2>3, <2>5, ChainTakeOut
  <2>7. s[n] \in CellsOf(s)
    BY <2>3 DEF CellsOf
  <2> QED  BY <2>2, <2>3, <2>4, <2>6, <2>7 DEF new
<1> QED  BY <1>4, <1>5, <1>6

-----------------------------------------------------------------------------
(* Types of the library, whatever labels a handler adds.                   *)

WorkerLabels == {"none", "start", "lookup", "cleanup", "close", "done", "spin"}

(***************************************************************************)
(* The types alone are not inductive: worker_thread reads through arg, and *)
(* main frees new_socket_handler, so these have to be cells there.         *)
(***************************************************************************)
LibraryTypes(labels) ==
  /\ descriptor \in [Fds -> Conns \cup {NoConn}]
  /\ accepted \subseteq Conns
  /\ running \in BOOLEAN
  /\ socket_handlers \in Lists
  /\ mutex \in Conns \cup {NoConn}
  /\ main_pc \in {"accept", "add", "link", "create"}
  /\ client_socket \in Fds \cup {0} /\ connection \in Conns \cup {NoConn}
  /\ new_socket_handler \in Cells \cup {NULL}
  /\ pc \in [Conns -> labels]
  /\ arg \in [Conns -> Cells \cup {NULL}]
  /\ socket \in [Conns -> Fds \cup {0}]
  /\ failures \in 0..ThreadFailures
  /\ main_pc \in {"link", "create"} => new_socket_handler \in Cells
  /\ \A c \in Conns : pc[c] = "start" => arg[c] \in Cells

LEMMA LibraryTypesInit ==
  ASSUME NEW labels, WorkerLabels \subseteq labels, SocketInit, ProactorInit
  PROVE  LibraryTypes(labels)
<1>1. "none" \in labels
  BY DEF WorkerLabels
<1> QED  BY <1>1, EmptyListType, SocketAssumption, ProactorAssumption
  DEF SocketInit, ProactorInit, LibraryTypes, ProactorAssumption, SocketAssumption

LEMMA CloseTyped ==
  ASSUME descriptor \in [Fds -> Conns \cup {NoConn}], NEW f, Close(f)
  PROVE  descriptor' \in [Fds -> Conns \cup {NoConn}] /\ accepted' = accepted
BY DEF Close

LEMMA MainTypes ==
  ASSUME NEW labels, WorkerLabels \subseteq labels, LibraryTypes(labels), MainNext
  PROVE  LibraryTypes(labels)'
<1> USE DEF Goto, WorkerLabels, LibraryTypes
<1>1. CASE MainAccept
  <2>1. PICK f \in Fds, c \in Conns :
          Accept(f, c) /\ client_socket' = f /\ connection' = c
    BY <1>1 DEF MainAccept
  <2> QED  BY <1>1, <2>1 DEF MainAccept, Accept, worker_vars
<1>2. CASE NewNode
  <2>1. PICK a \in Cells \ socket_handlers.allocated :
          /\ socket_handlers' = NewCell(socket_handlers, a, client_socket)
          /\ new_socket_handler' = a
    BY <1>2 DEF NewNode
  <2>2. socket_handlers' \in Lists
    BY <2>1, NewCellType
  <2>3. /\ main_pc' = "link"
        /\ UNCHANGED <<running, mutex, client_socket, connection, failures, pc, arg, socket,
                       descriptor, accepted>>
    BY <1>2 DEF NewNode, worker_vars, socket_vars
  <2> QED  BY <2>1, <2>2, <2>3
<1>5. CASE AddNode
  <2>1. socket_handlers' \in Lists
    BY <1>5, InFrontType DEF AddNode, InFront
  <2> QED  BY <1>5, <2>1 DEF AddNode, worker_vars, socket_vars
<1>3. CASE CreateThread
  BY <1>3 DEF CreateThread, socket_vars
<1>4. CASE CreateThreadFails
  <2>1. new_socket_handler \in Cells /\ socket_handlers' \in Lists
    BY <1>4, FreeFields DEF CreateThreadFails
  <2>2. failures' \in 0..ThreadFailures
    BY <1>4, ProactorAssumption DEF CreateThreadFails, ProactorAssumption
  <2>3. descriptor' \in [Fds -> Conns \cup {NoConn}] /\ accepted' = accepted
    BY <1>4, CloseTyped DEF CreateThreadFails
  <2>4. /\ main_pc' = "accept"
        /\ UNCHANGED <<running, mutex, client_socket, connection, new_socket_handler, pc, arg,
                       socket>>
    BY <1>4 DEF CreateThreadFails, worker_vars
  <2> QED  BY <2>1, <2>2, <2>3, <2>4
<1> QED  BY <1>1, <1>2, <1>3, <1>4, <1>5 DEF MainNext

LEMMA WorkerTypes ==
  ASSUME NEW labels, WorkerLabels \subseteq labels, NEW handler \in labels, handler # "start",
         LibraryTypes(labels), NEW c \in Conns, WorkerNext(c, handler)
  PROVE  LibraryTypes(labels)'
<1> USE DEF Goto, WorkerLabels, LibraryTypes, main_vars
<1>1. CASE ReadSocket(c)
  <2>1. socket_handlers.socket[arg[c]] \in Fds \cup {0}
    BY <1>1 DEF ReadSocket, Lists
  <2> QED  BY <1>1, <2>1 DEF ReadSocket, socket_vars
<1>2. ASSUME NEW label \in labels, label # "start", Searched(c, label)
      PROVE  /\ pc' \in [Conns -> labels] /\ mutex' \in Conns \cup {NoConn}
             /\ \A d \in Conns : pc'[d] = "start" => pc[d] = "start"
  BY <1>2 DEF Searched
<1>3. CASE Lookup(c, handler)
  <2>1. PICK label \in {handler, "cleanup"} : Searched(c, label)
    BY <1>3 DEF Lookup
  <2> QED  BY <1>2, <1>3, <2>1 DEF Lookup, socket_vars
<1>4. CASE RemoveNode(c)
  <2>1. socket_handlers' \in Lists
    BY <1>4, UnlinkType DEF RemoveNode
  <2>2. /\ pc' \in [Conns -> labels] /\ mutex' \in Conns \cup {NoConn}
        /\ \A d \in Conns : pc'[d] = "start" => pc[d] = "start"
    BY <1>2, <1>4 DEF RemoveNode
  <2> QED  BY <1>4, <2>1, <2>2 DEF RemoveNode, socket_vars
<1>5. CASE CloseSocket(c)
  <2>1. descriptor' \in [Fds -> Conns \cup {NoConn}] /\ accepted' = accepted
    BY <1>5, CloseTyped DEF CloseSocket
  <2> QED  BY <1>5, <2>1 DEF CloseSocket
<1> QED  BY <1>1, <1>3, <1>4, <1>5 DEF WorkerNext

(* The list of nodes.                                                      *)

(***************************************************************************)
(* As long as no node was freed in the list, the list is a chain of        *)
(* allocated nodes: nodes are only put in and taken out under the mutex.   *)
(* The one that main is about to put in is not in it.                      *)
(***************************************************************************)
NodesChained ==
  failures = 0 =>
    \E s : /\ Chain(socket_handlers, s)
           /\ main_pc = "link" => new_socket_handler \in socket_handlers.allocated \ CellsOf(s)

LEMMA ChainedInit == ASSUME ProactorInit PROVE NodesChained
BY ChainEmpty DEF ProactorInit, NodesChained

LEMMA ChainedMain ==
  ASSUME NEW labels, LibraryTypes(labels), NodesChained, MainNext
  PROVE  NodesChained'
<1>0. socket_handlers \in Lists
  BY DEF LibraryTypes
<1>1. CASE NewNode /\ failures = 0
  <2>1. PICK a \in Cells \ socket_handlers.allocated :
          /\ socket_handlers' = NewCell(socket_handlers, a, client_socket)
          /\ new_socket_handler' = a
    BY <1>1 DEF NewNode
  <2>2. PICK s : Chain(socket_handlers, s)
    BY <1>1 DEF NodesChained
  <2>3. PICK new : new = socket_handlers' /\ NewInto(new, socket_handlers, a, client_socket)
    BY <1>0, <2>1, NewCellFields
  <2>4. Chain(new, s) /\ a \notin CellsOf(s) /\ a \in new.allocated
    BY <1>0, <2>2, <2>3, ChainNew DEF NewInto
  <2> QED  BY <2>1, <2>3, <2>4 DEF NodesChained
<1>2. CASE AddNode /\ failures = 0
  <2>1. PICK a \in Cells : a = new_socket_handler
    BY <1>2 DEF AddNode, LibraryTypes
  <2>2. PICK s : Chain(socket_handlers, s) /\ a \in socket_handlers.allocated \ CellsOf(s)
    BY <1>2, <2>1 DEF NodesChained, AddNode
  <2>3. PICK new : new = socket_handlers' /\ Prepended(new, socket_handlers, a)
    <3>1. socket_handlers' = InFront(socket_handlers, a)
      BY <1>2, <2>1, Zenon DEF AddNode, InFront
    <3> QED  BY <1>0, <3>1, InFrontFields
  <2>4. \E t : Chain(new, t)
    BY <1>0, <2>2, <2>3, ChainPrepend DEF Prepended
  <2> QED  BY <1>2, <2>3, <2>4 DEF NodesChained, AddNode
<1>3. CASE failures' # 0
  BY <1>3 DEF NodesChained
<1>4. CASE UNCHANGED <<failures, socket_handlers>> /\ main_pc' # "link"
  BY <1>4 DEF NodesChained
<1>5. CreateThreadFails => failures' # 0
  BY DEF CreateThreadFails, LibraryTypes
<1> QED  BY <1>1, <1>2, <1>3, <1>4, <1>5 DEF MainNext, MainAccept, NewNode, AddNode, CreateThread

LEMMA ChainedWorker ==
  ASSUME NEW labels, LibraryTypes(labels), NodesChained, NEW c \in Conns, NEW handler,
         WorkerNext(c, handler)
  PROVE  NodesChained'
<1>0. UNCHANGED <<failures, main_pc, new_socket_handler>>
  BY DEF WorkerNext, ReadSocket, Lookup, RemoveNode, CloseSocket, main_vars
<1>1. CASE RemoveNode(c) /\ failures = 0
  <2>1. PICK s : /\ Chain(socket_handlers, s)
                 /\ main_pc = "link" => new_socket_handler \in socket_handlers.allocated \ CellsOf(s)
    BY <1>1 DEF NodesChained
  <2>2. socket_handlers' = Unlink(socket_handlers, socket[c]) /\ socket_handlers \in Lists
    BY <1>1 DEF RemoveNode, LibraryTypes
  <2>3. CASE Found(socket_handlers, socket[c])
    <3>1. PICK a : \E t : /\ Chain(Unlink(socket_handlers, socket[c]), t)
                          /\ CellsOf(t) = CellsOf(s) \ {a} /\ a \in CellsOf(s)
                          /\ Unlink(socket_handlers, socket[c]).allocated
                               = socket_handlers.allocated \ {a}
      BY <2>1, <2>2, <2>3, ChainUnlink
    <3> QED  BY <1>0, <2>1, <2>2, <3>1 DEF NodesChained
  <2>4. CASE ~Found(socket_handlers, socket[c])
    <3>1. socket_handlers' = socket_handlers
      BY <2>2, <2>4, UnlinkFields
    <3> QED  BY <1>0, <2>1, <3>1 DEF NodesChained
  <2> QED  BY <2>3, <2>4
<1>2. CASE failures # 0
  BY <1>0, <1>2 DEF NodesChained
<1>3. CASE UNCHANGED socket_handlers
  BY <1>0, <1>3 DEF NodesChained
<1> QED  BY <1>1, <1>2, <1>3 DEF WorkerNext, ReadSocket, Lookup, CloseSocket

-----------------------------------------------------------------------------
(* Types of the chat server and its clients.                               *)

QueueTypes ==
  /\ peer \in [Conns -> {"new", "open", "closed", "reset"}]
  /\ inq \in [Conns -> Seq(Lines)]
  /\ outq \in [Conns -> Seq(Seq(Lines))]

HandlerTypes ==
  /\ clients \in Lists /\ clients_mutex \in Conns \cup {NoConn}
  /\ buffer \in [Conns -> Seq(Lines)]
  /\ client \in [Conns -> Cells \cup {NULL}]
  /\ file \in [Conns -> Conns \cup {NoConn}]

ClientTypes ==
  /\ sent \in [Conns -> 0..MaxLines] /\ atEnd \in [Conns -> 0..MaxAtEnd]
  /\ shown \in [Conns -> Seq(Seq(Lines))]
  /\ listening \subseteq Conns

\* A thread that sends will follow the pointer of a cell.
SendsFromCell == \A c \in Conns : pc[c] = "sending" => client[c] \in Cells

ServerTypes ==
  LibraryTypes(Labels) /\ QueueTypes /\ HandlerTypes /\ ClientTypes /\ SendsFromCell

LEMMA ServerTypesInit == Init => ServerTypes
<1> SUFFICES ASSUME Init PROVE ServerTypes
  OBVIOUS
<1>1. LibraryTypes(Labels)
  <2>1. WorkerLabels \subseteq Labels
    BY DEF WorkerLabels, Labels
  <2> QED  BY <2>1, LibraryTypesInit DEF Init
<1>2. QueueTypes
  BY DEF Init, SocketInit, QueueTypes
<1>3. HandlerTypes
  BY EmptyListType DEF Init, HandlerInit, HandlerTypes
<1>4. ClientTypes
  BY ChatClientAssumption DEF ChatClientAssumption, Init, ClientInit, ClientTypes
<1>5. SendsFromCell
  BY DEF Init, ProactorInit, SendsFromCell
<1> QED  BY <1>1, <1>2, <1>3, <1>4, <1>5 DEF ServerTypes

LEMMA SendTypes ==
  ASSUME QueueTypes, NEW d, NEW m \in Seq(Lines), Send(d, m)
  PROVE  QueueTypes' /\ UNCHANGED <<descriptor, accepted, inq>>
<1>1. CASE UNCHANGED <<peer, outq>>
  BY <1>1 DEF Send, QueueTypes
<1>2. CASE d \in Conns /\ outq' = [outq EXCEPT ![d] = Append(outq[d], m)] /\ peer' = peer
  <2>1. Append(outq[d], m) \in Seq(Seq(Lines))
    BY <1>2 DEF QueueTypes
  <2> QED  BY <1>2, <2>1 DEF Send, QueueTypes
<1>3. CASE /\ d \in Conns /\ outq' = outq
           /\ \E end \in {"closed", "reset"} : peer' = [peer EXCEPT ![d] = end]
  BY <1>3 DEF Send, QueueTypes
<1> QED  BY <1>1, <1>2, <1>3 DEF Send

\* A step of the handler of c to another place in it.
LEMMA HandlerGoes ==
  ASSUME LibraryTypes(Labels), NEW c \in Conns, NEW label \in Labels, label # "start",
         Goto(c, label), UNCHANGED library_vars,
         descriptor' \in [Fds -> Conns \cup {NoConn}], accepted' = accepted
  PROVE  LibraryTypes(Labels)'
BY DEF LibraryTypes, Goto, library_vars, main_vars

LEMMA HandlerStays ==
  ASSUME LibraryTypes(Labels), UNCHANGED <<library_vars, pc, descriptor, accepted>>
  PROVE  LibraryTypes(Labels)'
BY DEF LibraryTypes, library_vars, main_vars

LEMMA FileType ==
  ASSUME LibraryTypes(Labels), NEW f PROVE FileOf(f) \in Conns \cup {NoConn}
BY DEF FileOf, LibraryTypes

LEMMA SendsFromCellStep ==
  ASSUME ServerTypes, NEW c \in Conns, HandlerNext(c) PROVE SendsFromCell'
<1>1. /\ pc \in [Conns -> Labels] /\ client \in [Conns -> Cells \cup {NULL}]
      /\ SendsFromCell
  BY DEF ServerTypes, LibraryTypes, HandlerTypes
<1>2. CASE NewClient(c) \/ BroadcastLock(c)
  BY <1>1, <1>2 DEF NewClient, BroadcastLock, Goto, SendsFromCell
<1>3. CASE BroadcastSkip(c) \/ SendReturn(c)
  BY <1>1, <1>3 DEF BroadcastSkip, SendReturn, NextClient, At, Goto, SendsFromCell
<1>4. CASE SendCall(c)
  BY <1>1, <1>4 DEF SendCall, Goto, SendsFromCell
<1>5. CASE client' = client /\ (pc' = pc \/ \E label : label # "sending" /\ Goto(c, label))
  BY <1>1, <1>5 DEF Goto, SendsFromCell
<1> QED
  BY <1>2, <1>3, <1>4, <1>5
  DEF HandlerNext, InsertClient, RecvCall, Receive, Disconnected, Sigpipe, BroadcastUnlock,
      RemoveClient, HangUp, FollowFreed, handler_vars, worker_vars

LEMMA HandlerTypesStep ==
  ASSUME ServerTypes, NEW c \in Conns, HandlerNext(c), UNCHANGED client_vars
  PROVE  ServerTypes'
<1> USE DEF ServerTypes
<1>1. ClientTypes'
  BY DEF ClientTypes, client_vars
<1>0. SendsFromCell'
  BY SendsFromCellStep
<1>2. ASSUME UNCHANGED socket_vars PROVE QueueTypes' /\ descriptor' = descriptor /\ accepted' = accepted
  BY <1>2 DEF QueueTypes, socket_vars
<1>3. descriptor \in [Fds -> Conns \cup {NoConn}]
  BY DEF LibraryTypes
<1>4. CASE NewClient(c)
  <2>1. PICK a \in Cells \ clients.allocated :
          /\ clients' = PointToFirst(NewCell(clients, a, socket[c]), a)
          /\ client' = [client EXCEPT ![c] = a]
    BY <1>4 DEF NewClient
  <2>2. socket[c] \in Fds \cup {0}
    BY DEF LibraryTypes
  <2>3. clients' \in Lists
    BY <2>1, <2>2, NewCellType, PointToFirstType DEF HandlerTypes
  <2>4. HandlerTypes'
    BY <1>4, <2>1, <2>3 DEF NewClient, HandlerTypes
  <2> QED  BY <1>0, <1>1, <1>2, <1>3, <1>4, <2>4, HandlerGoes, "insert" \in Labels DEF NewClient, Labels
<1>5. CASE InsertClient(c)
  <2>1. clients' \in Lists
    BY <1>5 DEF InsertClient, HandlerTypes, Lists
  <2>2. HandlerTypes'
    BY <1>5, <2>1 DEF InsertClient, HandlerTypes
  <2> QED  BY <1>0, <1>1, <1>2, <1>3, <1>5, <2>2, HandlerGoes, "recv" \in Labels DEF InsertClient, Labels
<1>6. CASE RecvCall(c)
  <2>1. HandlerTypes'
    BY <1>6, FileType DEF RecvCall, HandlerTypes
  <2> QED  BY <1>0, <1>1, <1>2, <1>3, <1>6, <2>1, HandlerGoes, "receiving" \in Labels DEF RecvCall, Labels
<1>7. CASE Receive(c)
  <2>1. PICK n \in 1..Len(inq[file[c]]) :
          /\ RecvData(file[c], n)
          /\ buffer' = [buffer EXCEPT ![c] = SubSeq(inq[file[c]], 1, n)]
    BY <1>7 DEF Receive
  <2>2. file[c] \in Conns /\ inq[file[c]] \in Seq(Lines)
    BY <1>7 DEF Receive, HandlerTypes, QueueTypes
  <2>3. /\ SubSeq(inq[file[c]], n + 1, Len(inq[file[c]])) \in Seq(Lines)
        /\ SubSeq(inq[file[c]], 1, n) \in Seq(Lines)
    BY <2>2
  <2>4. QueueTypes' /\ descriptor' = descriptor /\ accepted' = accepted
    BY <2>1, <2>2, <2>3 DEF RecvData, QueueTypes
  <2>5. HandlerTypes'
    BY <1>7, <2>1, <2>3 DEF Receive, HandlerTypes
  <2> QED  BY <1>0, <1>1, <1>3, <1>7, <2>4, <2>5, HandlerGoes, "lock" \in Labels DEF Receive, Labels
<1>8. CASE Disconnected(c)
  <2>1. HandlerTypes' /\ UNCHANGED socket_vars
    BY <1>8 DEF Disconnected, HandlerTypes, RecvEnd
  <2> QED  BY <1>0, <1>1, <1>2, <1>3, <1>8, <2>1, HandlerGoes, "remove" \in Labels DEF Disconnected, Labels
<1>9. CASE BroadcastLock(c)
  <2>1. HandlerTypes'
    BY <1>9 DEF BroadcastLock, HandlerTypes, Lists
  <2> QED  BY <1>0, <1>1, <1>2, <1>3, <1>9, <2>1, HandlerGoes, "broadcast" \in Labels DEF BroadcastLock, Labels
<1>10. ASSUME client[c] # NULL, NextClient(c) PROVE client' \in [Conns -> Cells \cup {NULL}]
  BY <1>10 DEF NextClient, HandlerTypes, Lists
<1>11. CASE BroadcastSkip(c)
  <2>1. HandlerTypes'
    BY <1>10, <1>11 DEF BroadcastSkip, HandlerTypes
  <2> QED  BY <1>0, <1>1, <1>2, <1>11, <2>1, HandlerStays DEF BroadcastSkip
<1>12. CASE SendCall(c)
  <2>1. HandlerTypes'
    BY <1>12, FileType DEF SendCall, HandlerTypes
  <2> QED  BY <1>0, <1>1, <1>2, <1>3, <1>12, <2>1, HandlerGoes, "sending" \in Labels DEF SendCall, Labels
<1>13. CASE SendReturn(c)
  <2>1. buffer[c] \in Seq(Lines) /\ client[c] # NULL
    BY <1>13, ListAssumption DEF SendReturn, At, HandlerTypes, SendsFromCell
  <2>2. QueueTypes' /\ UNCHANGED <<descriptor, accepted>>
    BY <1>13, <2>1, SendTypes DEF SendReturn
  <2>3. HandlerTypes'
    BY <1>10, <1>13, <2>1 DEF SendReturn, HandlerTypes
  <2> QED  BY <1>0, <1>1, <1>3, <1>13, <2>2, <2>3, HandlerGoes, "broadcast" \in Labels DEF SendReturn, Labels
<1>14. CASE Sigpipe(c)
  <2>1. HandlerTypes' /\ QueueTypes'
    BY <1>14 DEF Sigpipe, SendSigpipe, HandlerTypes, QueueTypes
  <2>2. /\ descriptor' \in [Fds -> Conns \cup {NoConn}] /\ accepted' \subseteq Conns
        /\ running' \in BOOLEAN
    BY <1>14 DEF Sigpipe, SendSigpipe
  <2>3. LibraryTypes(Labels)'
    BY <1>14, <2>2 DEF Sigpipe, LibraryTypes, main_vars, worker_vars
  <2> QED  BY <1>0, <1>1, <2>1, <2>3
<1>15. CASE BroadcastUnlock(c)
  <2>1. HandlerTypes'
    BY <1>15 DEF BroadcastUnlock, HandlerTypes
  <2> QED  BY <1>0, <1>1, <1>2, <1>3, <1>15, <2>1, HandlerGoes, "recv" \in Labels DEF BroadcastUnlock, Labels
<1>16. CASE RemoveClient(c)
  <2>1. clients' \in Lists
    BY <1>16, UnlinkType DEF RemoveClient, HandlerTypes
  <2>2. HandlerTypes'
    BY <1>16, <2>1 DEF RemoveClient, HandlerTypes
  <2>3. PICK label \in {"spin", "hang up"} : Goto(c, label)
    BY <1>16 DEF RemoveClient
  <2>4. LibraryTypes(Labels)'
    BY <1>2, <1>3, <1>16, <2>3, HandlerGoes, label \in Labels DEF RemoveClient, Labels
  <2> QED  BY <1>0, <1>1, <1>2, <1>16, <2>2, <2>4 DEF RemoveClient
<1>17. CASE HangUp(c)
  <2>1. HandlerTypes'
    BY <1>17 DEF HangUp, HandlerTypes, handler_vars
  <2>2. descriptor' \in [Fds -> Conns \cup {NoConn}] /\ accepted' = accepted /\ QueueTypes'
    BY <1>3, <1>17, CloseTyped DEF HangUp, Close, QueueTypes
  <2> QED  BY <1>0, <1>1, <1>17, <2>1, <2>2, HandlerGoes, "cleanup" \in Labels DEF HangUp, Labels
<1>18. CASE FollowFreed(c)
  <2>1. HandlerTypes'
    BY <1>18 DEF FollowFreed, HandlerTypes, handler_vars
  <2>2. running' \in BOOLEAN
    BY <1>18 DEF FollowFreed
  <2>3. LibraryTypes(Labels)'
    BY <1>18, <2>2 DEF FollowFreed, LibraryTypes, main_vars, worker_vars, socket_vars
  <2> QED  BY <1>0, <1>1, <1>2, <1>18, <2>1, <2>3 DEF FollowFreed
<1> QED
  BY <1>4, <1>5, <1>6, <1>7, <1>8, <1>9, <1>11, <1>12, <1>13, <1>14, <1>15, <1>16, <1>17, <1>18
  DEF HandlerNext

LEMMA ProactorTypesStep ==
  ASSUME ServerTypes, MainNext \/ \E c \in Conns : WorkerNext(c, "new"),
         UNCHANGED <<handler_vars, client_vars>>
  PROVE  ServerTypes'
<1>1. LibraryTypes(Labels)'
  <2>1. WorkerLabels \subseteq Labels /\ "new" \in Labels
    BY DEF WorkerLabels, Labels
  <2> QED  BY <2>1, MainTypes, WorkerTypes DEF ServerTypes
<1>2. UNCHANGED <<peer, inq, outq>>
  BY DEF MainNext, MainAccept, NewNode, AddNode, CreateThread, CreateThreadFails, WorkerNext,
         ReadSocket, Lookup, RemoveNode, CloseSocket, Accept, Close, socket_vars
<1>3. \A d \in Conns : pc'[d] = "sending" => pc[d] = "sending"
  BY DEF MainNext, MainAccept, NewNode, AddNode, CreateThread, CreateThreadFails, WorkerNext,
         ReadSocket, Lookup, RemoveNode, CloseSocket, worker_vars, Searched, Goto,
         ServerTypes, LibraryTypes
<1> QED
  BY <1>1, <1>2, <1>3
  DEF ServerTypes, QueueTypes, HandlerTypes, ClientTypes, SendsFromCell, handler_vars, client_vars

LEMMA SendLineTypes ==
  ASSUME ServerTypes, NEW c \in Conns, NEW line \in Lines, NEW hungup, SendLine(c, line, hungup)
  PROVE  /\ inq' \in [Conns -> Seq(Lines)]
         /\ peer' \in [Conns -> {"new", "open", "closed", "reset"}]
         /\ listening' \subseteq Conns
         /\ outq' = outq /\ shown' = shown
<1>1. Append(inq[c], line) \in Seq(Lines)
  BY DEF ServerTypes, QueueTypes
<1> QED  BY <1>1 DEF SendLine, ServerTypes, QueueTypes, ClientTypes

LEMMA ClientTypesStep ==
  ASSUME ServerTypes, NEW c \in Conns, NEW hungup, ClientNext(c, hungup),
         UNCHANGED <<proactor_vars, handler_vars>>
  PROVE  ServerTypes'
<1> USE ChatClientAssumption DEF ChatClientAssumption, ServerTypes
<1>1. UNCHANGED <<descriptor, accepted>>
  BY DEF ClientNext, Connect, Keyboard, KeyboardAtEnd, SendLine, Display,
         ServerDisconnected, Leave, socket_vars
<1>2. LibraryTypes(Labels)'
  BY <1>1 DEF LibraryTypes, proactor_vars, main_vars, worker_vars
<1>3. HandlerTypes' /\ SendsFromCell'
  BY DEF HandlerTypes, SendsFromCell, proactor_vars, worker_vars, handler_vars
<1>4. CASE Connect(c)
  BY <1>2, <1>3, <1>4 DEF Connect, QueueTypes, ClientTypes
<1>5. CASE Keyboard(c, hungup)
  <2>1. sent' \in [Conns -> 0..MaxLines] /\ atEnd' = atEnd
    BY <1>5 DEF Keyboard, ClientTypes
  <2>2. Line(c, sent[c] + 1) \in Lines
    BY <1>5 DEF Keyboard, Line, Lines, ClientTypes
  <2> QED  BY <1>2, <1>3, <1>5, <2>1, <2>2, SendLineTypes DEF Keyboard, QueueTypes, ClientTypes
<1>6. CASE KeyboardAtEnd(c, hungup)
  <2>1. atEnd' \in [Conns -> 0..MaxAtEnd] /\ sent' = sent
    <3>1. /\ atEnd[c] < MaxAtEnd /\ sent' = sent /\ atEnd \in [Conns -> 0..MaxAtEnd]
          /\ atEnd' = [atEnd EXCEPT ![c] = atEnd[c] + 1]
      BY <1>6 DEF KeyboardAtEnd, ClientTypes
    <3>2. atEnd[c] + 1 \in 0..MaxAtEnd
      BY <3>1
    <3> QED  BY <3>1, <3>2
  <2>2. Line(c, sent[c]) \in Lines
    BY <1>6 DEF KeyboardAtEnd, Line, Lines, ClientTypes
  <2> QED  BY <1>2, <1>3, <1>6, <2>1, <2>2, SendLineTypes DEF KeyboardAtEnd, QueueTypes, ClientTypes
<1>7. CASE Display(c)
  <2>1. /\ Tail(outq[c]) \in Seq(Seq(Lines))
        /\ Append(shown[c], Head(outq[c])) \in Seq(Seq(Lines))
    <3>1. outq[c] \in Seq(Seq(Lines)) /\ outq[c] # <<>> /\ shown[c] \in Seq(Seq(Lines))
      BY <1>7 DEF Display, QueueTypes, ClientTypes
    <3> QED  BY <3>1
  <2> QED  BY <1>2, <1>3, <1>7, <2>1 DEF Display, QueueTypes, ClientTypes
<1>8. CASE ServerDisconnected(c, hungup)
  BY <1>2, <1>3, <1>8 DEF ServerDisconnected, QueueTypes, ClientTypes, socket_vars
<1>9. CASE Leave(c)
  BY <1>2, <1>3, <1>9 DEF Leave, QueueTypes, ClientTypes
<1> QED  BY <1>4, <1>5, <1>6, <1>7, <1>8, <1>9 DEF ClientNext

LEMMA ServerTypesNext == ServerTypes /\ [Next]_vars => ServerTypes'
<1> SUFFICES ASSUME ServerTypes, [Next]_vars PROVE ServerTypes'
  OBVIOUS
<1>1. CASE Main \/ \E c \in Conns : WorkerNext(c, "new") /\ UNCHANGED <<handler_vars, client_vars>>
  BY <1>1, ProactorTypesStep DEF Main
<1>2. ASSUME NEW c \in Conns, HandlerNext(c), UNCHANGED client_vars PROVE ServerTypes'
  BY <1>2, HandlerTypesStep
<1>3. ASSUME NEW c \in Conns, Client(c) PROVE ServerTypes'
  BY <1>3, ClientTypesStep DEF Client
<1>4. CASE UNCHANGED vars
  BY <1>4
  DEF vars, socket_vars, proactor_vars, main_vars, worker_vars, handler_vars, client_vars,
      ServerTypes, LibraryTypes, QueueTypes, HandlerTypes, ClientTypes, SendsFromCell
<1> QED  BY <1>1, <1>2, <1>3, <1>4 DEF Next, Thread

LEMMA ServerTypesInvariant == Spec => []ServerTypes
BY ServerTypesInit, ServerTypesNext, PTL DEF Spec

(***************************************************************************)
(* Every variable of the chat server, of its threads and of its clients    *)
(* keeps its type, also while cells and numbers are used that were freed.  *)
(***************************************************************************)
THEOREM ChatProactorTypeOK == Spec => []TypeOK
<1>1. ServerTypes => TypeOK
  BY DEF ServerTypes, LibraryTypes, QueueTypes, HandlerTypes, ClientTypes, TypeOK
<1> QED  BY <1>1, ServerTypesInvariant, PTL

LEMMA ServerChained == Spec => []NodesChained
<1>1. Init => NodesChained
  BY ChainedInit DEF Init
<1>2. ServerTypes /\ NodesChained /\ [Next]_vars => NodesChained'
  <2> SUFFICES ASSUME ServerTypes, NodesChained, [Next]_vars PROVE NodesChained'
    OBVIOUS
  <2>1. CASE MainNext
    BY <2>1, ChainedMain DEF ServerTypes
  <2>2. ASSUME NEW c \in Conns, WorkerNext(c, "new") PROVE NodesChained'
    BY <2>2, ChainedWorker DEF ServerTypes
  <2>3. CASE UNCHANGED <<socket_handlers, main_pc, new_socket_handler, failures>>
    BY <2>3 DEF NodesChained
  <2>4. ASSUME NEW c \in Conns, HandlerNext(c)
        PROVE  UNCHANGED <<socket_handlers, main_pc, new_socket_handler, failures>>
    BY <2>4
    DEF HandlerNext, NewClient, InsertClient, RecvCall, Receive, Disconnected, BroadcastLock,
        BroadcastSkip, SendCall, SendReturn, Sigpipe, BroadcastUnlock, RemoveClient, HangUp,
        FollowFreed, library_vars, main_vars
  <2> QED
    BY <2>1, <2>2, <2>3, <2>4
    DEF Next, Main, Thread, Client, vars, proactor_vars, main_vars
<1> QED  BY <1>1, <1>2, ServerTypesInvariant, PTL DEF Spec

(***************************************************************************)
(* Until pthread_create fails, the list of nodes never leads to a freed    *)
(* cell or in a circle, whatever the handlers of server_proactor.c do with *)
(* the sockets and in which order the threads remove nodes.                *)
(***************************************************************************)
THEOREM NodesStayIntact == Spec => []HandlersIntact
<1>1. NodesChained => HandlersIntact
  BY ChainReach DEF NodesChained, HandlersIntact
<1> QED  BY <1>1, ServerChained, PTL

-----------------------------------------------------------------------------
(* The library used as its interface asks: types.                          *)

AsAskedTypes ==
  LibraryTypes(LibraryLabels) /\ peer \in [Conns -> {"new", "open"}] /\ running = TRUE

LEMMA AsAskedTypesInit == LibraryInit => AsAskedTypes
<1> SUFFICES ASSUME LibraryInit PROVE AsAskedTypes
  OBVIOUS
<1>1. WorkerLabels \subseteq LibraryLabels
  BY DEF WorkerLabels, LibraryLabels
<1>2. LibraryTypes(LibraryLabels)
  BY <1>1, LibraryTypesInit DEF LibraryInit
<1> QED  BY <1>2 DEF LibraryInit, SocketInit, ProactorInit, AsAskedTypes

LEMMA AsAskedTypesNext == AsAskedTypes /\ [LibraryNext]_all_vars => AsAskedTypes'
<1> SUFFICES ASSUME AsAskedTypes, [LibraryNext]_all_vars PROVE AsAskedTypes'
  OBVIOUS
<1>1. WorkerLabels \subseteq LibraryLabels /\ "handler" \in LibraryLabels
  BY DEF WorkerLabels, LibraryLabels
<1>2. CASE MainNext
  <2>1. UNCHANGED <<peer, running>>
    BY <1>2 DEF MainNext, MainAccept, NewNode, AddNode, CreateThread, CreateThreadFails, Accept, Close,
                socket_vars
  <2> QED  BY <1>1, <1>2, <2>1, MainTypes DEF AsAskedTypes
<1>3. ASSUME NEW c \in Conns, WorkerNext(c, "handler") PROVE AsAskedTypes'
  <2>1. UNCHANGED <<peer, running>>
    BY <1>3 DEF WorkerNext, ReadSocket, Lookup, RemoveNode, CloseSocket, Close, socket_vars
  <2> QED  BY <1>1, <1>3, <2>1, WorkerTypes DEF AsAskedTypes
<1>4. ASSUME NEW c \in Conns, HandlerReturns(c) PROVE AsAskedTypes'
  <2>1. "cleanup" \in LibraryLabels
    BY DEF LibraryLabels
  <2> QED  BY <1>4, <2>1
    DEF HandlerReturns, AsAskedTypes, LibraryTypes, Goto, socket_vars, main_vars
<1>5. ASSUME NEW c \in Conns, Arrive(c) PROVE AsAskedTypes'
  BY <1>5 DEF Arrive, AsAskedTypes, LibraryTypes, proactor_vars, main_vars, worker_vars
<1>6. CASE UNCHANGED all_vars
  BY <1>6 DEF all_vars, AsAskedTypes, LibraryTypes, socket_vars, proactor_vars, main_vars, worker_vars
<1> QED  BY <1>2, <1>3, <1>4, <1>5, <1>6 DEF LibraryNext, LibraryThread

LEMMA AsAskedTypesInvariant == LibrarySpec => []AsAskedTypes
BY AsAskedTypesInit, AsAskedTypesNext, PTL DEF LibrarySpec

\* The variables of proactor.c keep their types, failures of pthread_create included.
THEOREM ProactorLibraryTypeOK == LibrarySpec => []LibraryTypeOK
<1>1. AsAskedTypes => LibraryTypeOK
  BY DEF AsAskedTypes, LibraryTypes, Lists, LibraryTypeOK
<1> QED  BY <1>1, AsAskedTypesInvariant, PTL

-----------------------------------------------------------------------------
(***************************************************************************)
(* Numbers.  Each thread that has not removed its node has one that is     *)
(* allocated and holds a number of its connection, which the thread has    *)
(* read; main's connection has no thread yet, and its node the number of   *)
(* it.  This holds even when a freed node has spoilt the list: a node is   *)
(* only taken out by its number, and nobody else has that number.          *)
(***************************************************************************)
ThreadsAccepted == \A c \in Conns : pc[c] # "none" => c \in accepted

ThreadsNumbered ==
  \A c \in Conns : HasNode(c) =>
    /\ arg[c] \in socket_handlers.allocated /\ arg[c] \in Cells
    /\ socket_handlers.socket[arg[c]] \in Fds
    /\ descriptor[socket_handlers.socket[arg[c]]] = c
    /\ pc[c] # "start" => socket[c] = socket_handlers.socket[arg[c]]

ClosersNumbered ==
  \A c \in Conns : pc[c] = "close" => socket[c] \in Fds /\ descriptor[socket[c]] = c

MainNumbered ==
  /\ main_pc # "accept" => /\ connection \in Conns /\ connection \in accepted
                           /\ pc[connection] = "none" /\ client_socket \in Fds
                           /\ descriptor[client_socket] = connection
  /\ main_pc \in {"link", "create"} =>
       /\ new_socket_handler \in Cells
       /\ new_socket_handler \in socket_handlers.allocated
       /\ socket_handlers.socket[new_socket_handler] = client_socket

Numbered == ThreadsAccepted /\ ThreadsNumbered /\ ClosersNumbered /\ MainNumbered

LEMMA NumberedInit == LibraryInit => Numbered
BY DEF LibraryInit, SocketInit, ProactorInit, Numbered, ThreadsAccepted, ThreadsNumbered,
       ClosersNumbered, MainNumbered, HasNode

LEMMA NumberedMain ==
  ASSUME AsAskedTypes, Numbered, MainNext PROVE Numbered'
<1> USE DEF HasNode
<1>0. /\ pc \in [Conns -> LibraryLabels] /\ descriptor \in [Fds -> Conns \cup {NoConn}]
      /\ NoConn \notin Conns /\ arg \in [Conns -> Cells \cup {NULL}]
      /\ socket_handlers \in Lists
  BY SocketAssumption DEF AsAskedTypes, LibraryTypes, SocketAssumption
<1>1. CASE MainAccept
  <2>1. PICK f \in Fds, c \in Conns :
          /\ descriptor[f] = NoConn /\ c \notin accepted
          /\ descriptor' = [descriptor EXCEPT ![f] = c] /\ accepted' = accepted \cup {c}
          /\ client_socket' = f /\ connection' = c
    BY <1>1 DEF MainAccept, Accept
  <2>2. /\ main_pc' = "add"
        /\ UNCHANGED <<socket_handlers, new_socket_handler, pc, arg, socket>>
    BY <1>1 DEF MainAccept, worker_vars
  <2>3. \A g \in Fds : descriptor[g] \in Conns => descriptor'[g] = descriptor[g]
    BY <1>0, <2>1
  <2>4. ThreadsAccepted' /\ ThreadsNumbered' /\ ClosersNumbered'
    BY <2>1, <2>2, <2>3 DEF Numbered, ThreadsAccepted, ThreadsNumbered, ClosersNumbered
  <2>5. MainNumbered'
    BY <1>0, <2>1, <2>2 DEF Numbered, ThreadsAccepted, MainNumbered
  <2> QED  BY <2>4, <2>5 DEF Numbered
<1>2. CASE NewNode
  <2>1. PICK a \in Cells \ socket_handlers.allocated :
          /\ socket_handlers' = NewCell(socket_handlers, a, client_socket)
          /\ new_socket_handler' = a
    BY <1>2 DEF NewNode
  <2>2. PICK new : new = socket_handlers' /\ NewInto(new, socket_handlers, a, client_socket)
    BY <1>0, <2>1, NewCellFields
  <2>3. /\ socket_handlers'.allocated = socket_handlers.allocated \cup {a}
        /\ socket_handlers'.socket[a] = client_socket
        /\ \A b \in Cells : b # a => socket_handlers'.socket[b] = socket_handlers.socket[b]
    BY <1>0, <2>2 DEF NewInto, Lists
  <2>4. /\ main_pc = "add" /\ main_pc' = "link"
        /\ UNCHANGED <<client_socket, connection, pc, arg, socket, descriptor, accepted>>
    BY <1>2 DEF NewNode, worker_vars, socket_vars
  <2>5. ThreadsAccepted' /\ ClosersNumbered'
    BY <2>4 DEF Numbered, ThreadsAccepted, ClosersNumbered
  <2>6. ThreadsNumbered'
    BY <2>3, <2>4 DEF Numbered, ThreadsNumbered
  <2>7. MainNumbered'
    BY <2>1, <2>3, <2>4 DEF Numbered, MainNumbered
  <2> QED  BY <2>5, <2>6, <2>7 DEF Numbered
<1>5. CASE AddNode
  <2>1. PICK a \in Cells : a = new_socket_handler
    BY <1>5 DEF AddNode, Numbered, MainNumbered
  <2>2. PICK new : new = socket_handlers' /\ Prepended(new, socket_handlers, a)
    <3>1. socket_handlers' = InFront(socket_handlers, a)
      BY <1>5, <2>1, Zenon DEF AddNode, InFront
    <3> QED  BY <1>0, <3>1, InFrontFields
  <2>3. /\ main_pc = "link" /\ main_pc' = "create"
        /\ UNCHANGED <<client_socket, connection, new_socket_handler, pc, arg, socket, descriptor,
                       accepted>>
    BY <1>5 DEF AddNode, worker_vars, socket_vars
  <2>4. ThreadsAccepted' /\ ClosersNumbered'
    BY <2>3 DEF Numbered, ThreadsAccepted, ClosersNumbered
  <2>5. ThreadsNumbered' /\ MainNumbered'
    BY <2>2, <2>3 DEF Numbered, ThreadsNumbered, MainNumbered, Prepended
  <2> QED  BY <2>4, <2>5 DEF Numbered
<1>3. CASE CreateThread
  <2>1. /\ main_pc = "create" /\ main_pc' = "accept"
        /\ pc' = [pc EXCEPT ![connection] = "start"]
        /\ arg' = [arg EXCEPT ![connection] = new_socket_handler]
        /\ UNCHANGED <<socket_handlers, socket, descriptor, accepted>>
    BY <1>3 DEF CreateThread, Goto, socket_vars
  <2> QED
    BY <1>0, <2>1 DEF Numbered, ThreadsAccepted, ThreadsNumbered, ClosersNumbered, MainNumbered
<1>4. CASE CreateThreadFails
  <2>1. /\ main_pc = "create" /\ main_pc' = "accept"
        /\ socket_handlers' = Free(socket_handlers, new_socket_handler)
        /\ Close(client_socket)
        /\ UNCHANGED <<pc, arg, socket>>
    BY <1>4 DEF CreateThreadFails, worker_vars
  <2>2. /\ new_socket_handler \in Cells /\ connection \in Conns /\ pc[connection] = "none"
        /\ descriptor[client_socket] = connection /\ client_socket \in Fds
        /\ socket_handlers.socket[new_socket_handler] = client_socket
    BY <2>1 DEF Numbered, MainNumbered
  <2>3. /\ accepted' = accepted
        /\ \A f \in Fds : descriptor[f] # connection => descriptor'[f] = descriptor[f]
    BY <1>0, <2>1, <2>2 DEF Close
  <2>4. PICK new : new = socket_handlers' /\ new = Free(socket_handlers, new_socket_handler)
    BY <2>1
  <2>5. \A a \in Cells : a # new_socket_handler =>
          /\ new.socket[a] = socket_handlers.socket[a]
          /\ a \in new.allocated <=> a \in socket_handlers.allocated
    BY <1>0, <2>2, <2>4 DEF Free, Lists
  <2>6. ThreadsAccepted' /\ ClosersNumbered' /\ MainNumbered'
    BY <2>1, <2>2, <2>3 DEF Numbered, ThreadsAccepted, ClosersNumbered, MainNumbered
  <2>7. \A c \in Conns : HasNode(c) => arg[c] # new_socket_handler /\ c # connection
    BY <2>2 DEF Numbered, ThreadsNumbered
  <2>8. ThreadsNumbered'
    BY <2>1, <2>3, <2>4, <2>5, <2>7 DEF Numbered, ThreadsNumbered
  <2> QED  BY <2>6, <2>8 DEF Numbered
<1> QED  BY <1>1, <1>2, <1>3, <1>4, <1>5 DEF MainNext

\* The number of a thread's node is that of no other thread and not main's.
LEMMA NumbersApart ==
  ASSUME Numbered, NEW c \in Conns, HasNode(c)
  PROVE  /\ \A d \in Conns : HasNode(d) /\ socket_handlers.socket[arg[d]] = socket_handlers.socket[arg[c]] => d = c
         /\ main_pc \in {"link", "create"} =>
              socket_handlers.socket[new_socket_handler] # socket_handlers.socket[arg[c]]
BY DEF Numbered, ThreadsNumbered, MainNumbered, HasNode

LEMMA NumberedMoves ==
  ASSUME AsAskedTypes, Numbered, NEW c \in Conns, HasNode(c), NEW label,
         label \in {"lookup", "handler", "cleanup", "spin"}, pc' = [pc EXCEPT ![c] = label],
         label = "spin" \/ pc[c] # "start" \/ socket'[c] = socket_handlers.socket[arg[c]],
         \A d \in Conns : d # c \/ pc[c] # "start" => socket'[d] = socket[d],
         UNCHANGED <<socket_handlers, descriptor, accepted, main_pc, client_socket, connection,
                     new_socket_handler, arg>>
  PROVE  Numbered'
<1>1. pc \in [Conns -> LibraryLabels]
  BY DEF AsAskedTypes, LibraryTypes
<1>2. ThreadsAccepted'
  BY <1>1 DEF Numbered, ThreadsAccepted, HasNode
<1>3. ThreadsNumbered'
  BY <1>1 DEF Numbered, ThreadsNumbered, HasNode
<1>4. ClosersNumbered'
  BY <1>1 DEF Numbered, ClosersNumbered, HasNode
<1>5. MainNumbered'
  BY <1>1 DEF Numbered, MainNumbered, HasNode
<1> QED  BY <1>2, <1>3, <1>4, <1>5 DEF Numbered

\* A cell with another number than the one that is taken out stays as it is.
SameCell(new, list, a) ==
  new.socket[a] = list.socket[a] /\ (a \in new.allocated <=> a \in list.allocated)

LEMMA UnlinkKeeps ==
  ASSUME NEW list \in Lists, NEW f, NEW a \in Cells, list.socket[a] # f
  PROVE  SameCell(Unlink(list, f), list, a)
<1>1. CASE ~Found(list, f)
  BY <1>1, UnlinkFields DEF SameCell
<1>2. CASE Found(list, f)
  <2>1. PICK b, n : n = Min(Matches(list, f)) /\ b = Path(list)[n]
    OBVIOUS
  <2>2. b \in Cells /\ list.socket[b] = f
    BY <1>2, <2>1, FirstMatch
  <2> DEFINE new == Unlink(list, f)
  <2>3. new.allocated = list.allocated \ {b} /\ new.socket = [list.socket EXCEPT ![b] = Junk]
    BY <1>2, <2>1, UnlinkFields
  <2> HIDE DEF new
  <2>4. SameCell(new, list, a)
    BY <2>2, <2>3 DEF Lists, SameCell
  <2> QED  BY <2>4 DEF new
<1> QED  BY <1>1, <1>2

LEMMA NumberedWorker ==
  ASSUME AsAskedTypes, Numbered, NEW c \in Conns, WorkerNext(c, "handler") \/ HandlerReturns(c)
  PROVE  Numbered'
<1>0. /\ pc \in [Conns -> LibraryLabels] /\ descriptor \in [Fds -> Conns \cup {NoConn}]
      /\ arg \in [Conns -> Cells \cup {NULL}] /\ socket \in [Conns -> Fds \cup {0}]
      /\ socket_handlers \in Lists
  BY DEF AsAskedTypes, LibraryTypes
<1>1. CASE ReadSocket(c)
  BY <1>0, <1>1, NumberedMoves, "lookup" \in {"lookup", "handler", "cleanup", "spin"}
  DEF ReadSocket, HasNode, Goto, main_vars, socket_vars
<1>2. CASE Lookup(c, "handler")
  <2>1. PICK label \in {"lookup", "handler", "cleanup", "spin"} : pc' = [pc EXCEPT ![c] = label]
    BY <1>2 DEF Lookup, Searched, Goto
  <2> QED  BY <1>2, <2>1, NumberedMoves DEF Lookup, HasNode, main_vars, socket_vars
<1>3. CASE HandlerReturns(c)
  BY <1>3, NumberedMoves, "cleanup" \in {"lookup", "handler", "cleanup", "spin"}
  DEF HandlerReturns, HasNode, Goto, main_vars, socket_vars
<1>4. CASE RemoveNode(c)
  <2>1. /\ pc[c] = "cleanup" /\ socket_handlers' = Unlink(socket_handlers, socket[c])
        /\ UNCHANGED <<arg, socket, descriptor, accepted, main_pc, client_socket, connection,
                       new_socket_handler>>
    BY <1>4 DEF RemoveNode, main_vars, socket_vars
  <2>2. PICK label \in {"close", "spin"} : pc' = [pc EXCEPT ![c] = label]
    BY <1>4 DEF RemoveNode, Searched, Goto
  <2>3. PICK new : new = socket_handlers' /\ new = Unlink(socket_handlers, socket[c])
    BY <2>1
  <2>4. /\ HasNode(c) /\ socket[c] \in Fds /\ descriptor[socket[c]] = c
        /\ socket[c] = socket_handlers.socket[arg[c]]
    BY <2>1 DEF Numbered, ThreadsNumbered, HasNode
  <2>5. \A a \in Cells : socket_handlers.socket[a] # socket[c] =>
          /\ new.socket[a] = socket_handlers.socket[a]
          /\ a \in new.allocated <=> a \in socket_handlers.allocated
    BY <1>0, <2>3, UnlinkKeeps DEF SameCell
  <2>6. ThreadsAccepted'
    BY <1>0, <2>1, <2>2 DEF Numbered, ThreadsAccepted
  <2>7. \A d \in Conns : d # c /\ HasNode(d) => socket_handlers.socket[arg[d]] # socket[c]
    BY <2>4, NumbersApart
  <2>8. ThreadsNumbered'
    BY <1>0, <2>1, <2>2, <2>3, <2>5, <2>7 DEF Numbered, ThreadsNumbered, HasNode
  <2>9. ClosersNumbered'
    BY <1>0, <2>1, <2>2, <2>4 DEF Numbered, ClosersNumbered
  <2>10. MainNumbered'
    BY <1>0, <2>1, <2>2, <2>3, <2>4, <2>5 DEF Numbered, MainNumbered
  <2> QED  BY <2>6, <2>8, <2>9, <2>10 DEF Numbered
<1>5. CASE CloseSocket(c)
  <2>1. /\ pc[c] = "close" /\ pc' = [pc EXCEPT ![c] = "done"] /\ Close(socket[c])
        /\ UNCHANGED <<socket_handlers, arg, socket, main_pc, client_socket, connection,
                       new_socket_handler>>
    BY <1>5 DEF CloseSocket, Goto, main_vars
  <2>2. socket[c] \in Fds /\ descriptor[socket[c]] = c
    BY <2>1 DEF Numbered, ClosersNumbered
  <2>3. /\ accepted' = accepted
        /\ \A f \in Fds : descriptor[f] # c => descriptor'[f] = descriptor[f]
    BY <1>0, <2>1, <2>2 DEF Close
  <2>4. ThreadsAccepted' /\ ClosersNumbered'
    BY <1>0, <2>1, <2>3 DEF Numbered, ThreadsAccepted, ClosersNumbered
  <2>5. ThreadsNumbered'
    BY <1>0, <2>1, <2>3 DEF Numbered, ThreadsNumbered, HasNode
  <2>6. MainNumbered'
    BY <1>0, <2>1, <2>3 DEF Numbered, MainNumbered
  <2> QED  BY <2>4, <2>5, <2>6 DEF Numbered
<1> QED  BY <1>1, <1>2, <1>3, <1>4, <1>5 DEF WorkerNext

LEMMA NumberedInvariant == LibrarySpec => []Numbered
<1>1. AsAskedTypes /\ Numbered /\ [LibraryNext]_all_vars => Numbered'
  <2> SUFFICES ASSUME AsAskedTypes, Numbered, [LibraryNext]_all_vars PROVE Numbered'
    OBVIOUS
  <2>1. ASSUME UNCHANGED <<descriptor, accepted, proactor_vars>> PROVE Numbered'
    BY <2>1
    DEF Numbered, ThreadsAccepted, ThreadsNumbered, ClosersNumbered, MainNumbered, HasNode,
        proactor_vars, main_vars, worker_vars
  <2>2. UNCHANGED all_vars => UNCHANGED <<descriptor, accepted, proactor_vars>>
    BY DEF all_vars, socket_vars
  <2> QED  BY <2>1, <2>2, NumberedMain, NumberedWorker DEF LibraryNext, LibraryThread, Arrive
<1> QED  BY <1>1, NumberedInit, AsAskedTypesInvariant, PTL DEF LibrarySpec

(***************************************************************************)
(* worker_thread closes the connection it was created for and no other,    *)
(* however numbers and nodes are reused, also after pthread_create failed. *)
(***************************************************************************)
THEOREM ThreadsCloseTheirOwn == LibrarySpec => ClosesOwn
<1>1. Numbered /\ [LibraryNext]_all_vars
        => [\A c \in Conns : CloseSocket(c) => descriptor[socket[c]] = c]_all_vars
  BY DEF Numbered, ClosersNumbered, CloseSocket
<1> QED  BY <1>1, NumberedInvariant, PTL DEF LibrarySpec, ClosesOwn

-----------------------------------------------------------------------------
(***************************************************************************)
(* The nodes in the list are those of the threads and the one in main's    *)
(* hands, as long as no call of pthread_create has failed.                 *)
(***************************************************************************)
Owners == {c \in Conns : HasNode(c)}

MainsNode == IF main_pc = "create" THEN {new_socket_handler} ELSE {}

OwnedNodes == {arg[c] : c \in Owners} \cup MainsNode

NodesOwned == failures = 0 => \E s : Chain(socket_handlers, s) /\ CellsOf(s) = OwnedNodes

LEMMA OwnedInit == LibraryInit => NodesOwned
<1> SUFFICES ASSUME LibraryInit PROVE NodesOwned
  OBVIOUS
<1>1. OwnedNodes = {}
  BY DEF LibraryInit, ProactorInit, OwnedNodes, Owners, MainsNode, HasNode
<1> QED  BY <1>1, ChainEmpty DEF LibraryInit, ProactorInit, NodesOwned

LEMMA OwnedUnchanged ==
  ASSUME NodesOwned, UNCHANGED <<failures, socket_handlers>>, OwnedNodes' = OwnedNodes
  PROVE  NodesOwned'
BY DEF NodesOwned

LEMMA OwnedMain ==
  ASSUME AsAskedTypes, Numbered, NodesOwned, MainNext PROVE NodesOwned'
<1>0. /\ pc \in [Conns -> LibraryLabels] /\ arg \in [Conns -> Cells \cup {NULL}]
      /\ socket_handlers \in Lists /\ failures \in Nat
  BY DEF AsAskedTypes, LibraryTypes
<1>1. CASE MainAccept
  <2>1. OwnedNodes' = OwnedNodes
    BY <1>1 DEF MainAccept, OwnedNodes, Owners, MainsNode, HasNode, worker_vars
  <2> QED  BY <1>1, <2>1, OwnedUnchanged DEF MainAccept
<1>2. CASE NewNode /\ failures = 0
  <2>1. PICK a \in Cells \ socket_handlers.allocated :
          socket_handlers' = NewCell(socket_handlers, a, client_socket)
    BY <1>2 DEF NewNode
  <2>2. PICK s : Chain(socket_handlers, s) /\ CellsOf(s) = OwnedNodes
    BY <1>2 DEF NodesOwned
  <2>3. PICK new : new = socket_handlers' /\ NewInto(new, socket_handlers, a, client_socket)
    BY <1>0, <2>1, NewCellFields
  <2>4. Chain(new, s)
    BY <1>0, <2>2, <2>3, ChainNew DEF NewInto
  <2>5. OwnedNodes' = OwnedNodes
    BY <1>2 DEF NewNode, OwnedNodes, Owners, MainsNode, HasNode, worker_vars
  <2> QED  BY <2>2, <2>3, <2>4, <2>5 DEF NodesOwned
<1>7. CASE AddNode /\ failures = 0
  <2>1. main_pc = "link" /\ main_pc' = "create" /\ UNCHANGED <<new_socket_handler, pc, arg>>
    BY <1>7 DEF AddNode, worker_vars
  <2>2. PICK a \in Cells : a = new_socket_handler /\ a \in socket_handlers.allocated
    BY <2>1 DEF Numbered, MainNumbered
  <2>3. PICK s : Chain(socket_handlers, s) /\ CellsOf(s) = OwnedNodes
    BY <1>7 DEF NodesOwned
  <2>4. a \notin CellsOf(s)
    BY <2>1, <2>2, <2>3, NumbersApart DEF OwnedNodes, Owners, MainsNode
  <2>5. PICK new : new = socket_handlers' /\ Prepended(new, socket_handlers, a)
    <3>1. socket_handlers' = InFront(socket_handlers, a)
      BY <1>7, <2>2, Zenon DEF AddNode, InFront
    <3> QED  BY <1>0, <3>1, InFrontFields
  <2>6. PICK t : Chain(new, t) /\ CellsOf(t) = CellsOf(s) \cup {a}
    BY <1>0, <2>2, <2>3, <2>4, <2>5, ChainPrepend DEF Prepended
  <2>7. OwnedNodes' = OwnedNodes \cup {a}
    BY <2>1, <2>2 DEF OwnedNodes, Owners, MainsNode, HasNode
  <2> QED  BY <2>3, <2>5, <2>6, <2>7 DEF NodesOwned
<1>3. CASE CreateThread
  <2>1. /\ main_pc = "create" /\ main_pc' = "accept"
        /\ pc' = [pc EXCEPT ![connection] = "start"]
        /\ arg' = [arg EXCEPT ![connection] = new_socket_handler]
        /\ UNCHANGED <<socket_handlers, failures>>
    BY <1>3 DEF CreateThread, Goto
  <2>2. connection \in Conns /\ pc[connection] = "none"
    BY <2>1 DEF Numbered, MainNumbered
  <2>3. Owners' = Owners \cup {connection} /\ connection \notin Owners
    BY <1>0, <2>1, <2>2 DEF Owners, HasNode
  <2>4. arg'[connection] = new_socket_handler /\ \A c \in Owners : arg'[c] = arg[c]
    BY <1>0, <2>1, <2>2, <2>3 DEF Owners
  <2>5. MainsNode = {new_socket_handler} /\ MainsNode' = {}
    BY <2>1 DEF MainsNode
  <2>6. OwnedNodes' = OwnedNodes
    BY <2>3, <2>4, <2>5 DEF OwnedNodes
  <2> QED  BY <2>1, <2>6, OwnedUnchanged
<1>4. CASE failures' # 0
  BY <1>4 DEF NodesOwned
<1>5. CreateThreadFails => failures' # 0
  BY <1>0 DEF CreateThreadFails
<1>6. NewNode \/ AddNode => failures' = failures
  BY DEF NewNode, AddNode
<1> QED  BY <1>1, <1>2, <1>3, <1>4, <1>5, <1>6, <1>7 DEF MainNext

LEMMA OwnedMoves ==
  ASSUME AsAskedTypes, NodesOwned, NEW c \in Conns, HasNode(c), NEW label,
         label \in {"lookup", "handler", "cleanup"}, pc' = [pc EXCEPT ![c] = label],
         UNCHANGED <<arg, main_pc, new_socket_handler, failures, socket_handlers>>
  PROVE  NodesOwned'
<1>1. pc \in [Conns -> LibraryLabels]
  BY DEF AsAskedTypes, LibraryTypes
<1>2. Owners' = Owners
  BY <1>1 DEF Owners, HasNode
<1>3. OwnedNodes' = OwnedNodes
  BY <1>2 DEF OwnedNodes, MainsNode
<1> QED  BY <1>3, OwnedUnchanged

\* A thread finds its own node and no other one, and the search ends.
LEMMA OwnFound ==
  ASSUME AsAskedTypes, Numbered, NEW s, Chain(socket_handlers, s), CellsOf(s) = OwnedNodes,
         NEW c \in Conns, HasNode(c), pc[c] # "start"
  PROVE  /\ Found(socket_handlers, socket[c]) /\ ~Endless(socket_handlers, socket[c])
         /\ \A a \in CellsOf(s) : socket_handlers.socket[a] = socket[c] => a = arg[c]
         /\ arg[c] \in CellsOf(s) /\ socket_handlers.socket[arg[c]] = socket[c]
<1>1. socket_handlers \in Lists
  BY DEF AsAskedTypes, LibraryTypes
<1>2. arg[c] \in CellsOf(s) /\ socket_handlers.socket[arg[c]] = socket[c]
  BY DEF OwnedNodes, Owners, Numbered, ThreadsNumbered
<1>3. Found(socket_handlers, socket[c]) /\ ~Endless(socket_handlers, socket[c])
  BY <1>1, <1>2, ChainUnlink
<1>4. ASSUME NEW a \in OwnedNodes, socket_handlers.socket[a] = socket[c] PROVE a = arg[c]
  <2>1. CASE a \in MainsNode
    BY <1>2, <1>4, <2>1, NumbersApart DEF MainsNode
  <2>2. ASSUME NEW d \in Owners, a = arg[d] PROVE a = arg[c]
    BY <1>2, <1>4, <2>2, NumbersApart DEF Owners
  <2> QED  BY <2>1, <2>2 DEF OwnedNodes
<1> QED  BY <1>2, <1>3, <1>4

LEMMA OwnedWorker ==
  ASSUME AsAskedTypes, Numbered, NodesOwned, NEW c \in Conns,
         WorkerNext(c, "handler") \/ HandlerReturns(c)
  PROVE  NodesOwned'
<1>0. /\ pc \in [Conns -> LibraryLabels] /\ socket_handlers \in Lists
      /\ failures' = failures
  BY DEF AsAskedTypes, LibraryTypes, WorkerNext, ReadSocket, Lookup, RemoveNode, CloseSocket,
         HandlerReturns, main_vars
<1> SUFFICES ASSUME failures = 0 PROVE NodesOwned'
  BY <1>0 DEF NodesOwned
<1>1. PICK s : Chain(socket_handlers, s) /\ CellsOf(s) = OwnedNodes
  BY DEF NodesOwned
<1>2. CASE ReadSocket(c)
  BY <1>2, OwnedMoves, "lookup" \in {"lookup", "handler", "cleanup"}
  DEF ReadSocket, HasNode, Goto, main_vars
<1>3. CASE Lookup(c, "handler")
  <2>1. HasNode(c) /\ pc[c] # "start"
    BY <1>3 DEF Lookup, HasNode
  <2>2. ~Endless(socket_handlers, socket[c])
    BY <1>1, <2>1, OwnFound
  <2>3. PICK label \in {"lookup", "handler", "cleanup"} : pc' = [pc EXCEPT ![c] = label]
    BY <1>3, <2>2 DEF Lookup, Searched, Goto
  <2> QED  BY <1>3, <2>1, <2>3, OwnedMoves DEF Lookup, main_vars
<1>4. CASE HandlerReturns(c)
  BY <1>4, OwnedMoves, "cleanup" \in {"lookup", "handler", "cleanup"}
  DEF HandlerReturns, HasNode, Goto, main_vars
<1>5. CASE RemoveNode(c)
  <2>1. HasNode(c) /\ pc[c] # "start"
    BY <1>5 DEF RemoveNode, HasNode
  <2>2. /\ Found(socket_handlers, socket[c]) /\ ~Endless(socket_handlers, socket[c])
        /\ \A a \in CellsOf(s) : socket_handlers.socket[a] = socket[c] => a = arg[c]
    BY <1>1, <2>1, OwnFound
  <2>3. PICK t : Chain(Unlink(socket_handlers, socket[c]), t) /\ CellsOf(t) = CellsOf(s) \ {arg[c]}
    <3>1. \E a \in CellsOf(s) : \E t :
            /\ socket_handlers.socket[a] = socket[c]
            /\ Chain(Unlink(socket_handlers, socket[c]), t) /\ CellsOf(t) = CellsOf(s) \ {a}
      BY <1>0, <1>1, <2>2, ChainUnlink
    <3> QED  BY <2>2, <3>1
  <2>4. /\ pc' = [pc EXCEPT ![c] = "close"]
        /\ socket_handlers' = Unlink(socket_handlers, socket[c])
        /\ UNCHANGED <<arg, main_pc, new_socket_handler>>
    BY <1>5, <2>2 DEF RemoveNode, Searched, Goto, main_vars
  <2>5. Owners' = Owners \ {c} /\ c \in Owners
    BY <1>0, <2>1, <2>4 DEF Owners, HasNode
  <2>6. \A d \in Owners : arg[d] = arg[c] => d = c
    BY <2>5, NumbersApart DEF Owners
  <2>7. arg[c] \notin MainsNode
    BY <2>1, NumbersApart DEF MainsNode
  <2>8. OwnedNodes' = OwnedNodes \ {arg[c]}
    BY <2>4, <2>5, <2>6, <2>7 DEF OwnedNodes, MainsNode
  <2> QED  BY <1>1, <2>3, <2>4, <2>8 DEF NodesOwned
<1>6. CASE CloseSocket(c)
  <2>1. /\ pc[c] = "close" /\ pc' = [pc EXCEPT ![c] = "done"]
        /\ UNCHANGED <<arg, main_pc, new_socket_handler, socket_handlers>>
    BY <1>6 DEF CloseSocket, Goto, main_vars
  <2>2. Owners' = Owners
    BY <1>0, <2>1 DEF Owners, HasNode
  <2>3. OwnedNodes' = OwnedNodes
    BY <2>1, <2>2 DEF OwnedNodes, MainsNode
  <2> QED  BY <1>0, <2>1, <2>3, OwnedUnchanged
<1> QED  BY <1>2, <1>3, <1>4, <1>5, <1>6 DEF WorkerNext

LEMMA OwnedInvariant == LibrarySpec => []NodesOwned
<1>1. AsAskedTypes /\ Numbered /\ NodesOwned /\ [LibraryNext]_all_vars => NodesOwned'
  <2> SUFFICES ASSUME AsAskedTypes, Numbered, NodesOwned, [LibraryNext]_all_vars PROVE NodesOwned'
    OBVIOUS
  <2>1. ASSUME UNCHANGED proactor_vars PROVE NodesOwned'
    <3>1. OwnedNodes' = OwnedNodes /\ UNCHANGED <<failures, socket_handlers>>
      BY <2>1 DEF OwnedNodes, Owners, HasNode, MainsNode, proactor_vars, main_vars, worker_vars
    <3> QED  BY <3>1, OwnedUnchanged
  <2>2. UNCHANGED all_vars => UNCHANGED proactor_vars
    BY DEF all_vars
  <2> QED  BY <2>1, <2>2, OwnedMain, OwnedWorker DEF LibraryNext, LibraryThread, Arrive
<1> QED  BY <1>1, OwnedInit, NumberedInvariant, AsAskedTypesInvariant, PTL DEF LibrarySpec

\* As many nodes as threads that have one, and main's.
LEMMA NodesCounted ==
  ASSUME AsAskedTypes, Numbered
  PROVE  Cardinality(OwnedNodes) = Cardinality(Owners) + IF main_pc = "create" THEN 1 ELSE 0
<1> DEFINE nodes == {arg[c] : c \in Owners}
           f == [c \in Owners |-> arg[c]]
<1>1. nodes \subseteq Cells
  BY DEF Owners, Numbered, ThreadsNumbered
<1>2. IsFiniteSet(nodes)
  BY <1>1, ListAssumption, FS_Subset
<1>3. f \in [Owners -> nodes]
  OBVIOUS
<1>4. \A c, d \in Owners : f[c] = f[d] => c = d
  BY NumbersApart DEF Owners
<1>5. \A a \in nodes : \E c \in Owners : f[c] = a
  OBVIOUS
<1> HIDE DEF nodes, f
<1>6. f \in Injection(Owners, nodes) /\ f \in Surjection(Owners, nodes)
  BY <1>3, <1>4, <1>5, Fun_IsInj, Fun_IsSurj
<1>7. Cardinality(Owners) = Cardinality(nodes) /\ IsFiniteSet(Owners)
  BY <1>2, <1>6, FS_Injection
<1>8. CASE main_pc = "create"
  <2>1. new_socket_handler \notin nodes
    BY <1>8, NumbersApart DEF nodes, Owners
  <2>2. OwnedNodes = nodes \cup {new_socket_handler}
    BY <1>8 DEF OwnedNodes, MainsNode, nodes
  <2> QED  BY <1>2, <1>7, <1>8, <2>1, <2>2, FS_AddElement
<1>9. CASE main_pc # "create"
  <2>1. OwnedNodes = nodes
    BY <1>9 DEF OwnedNodes, MainsNode, nodes
  <2>2. Cardinality(Owners) \in Nat
    BY <1>7, FS_CardinalityType
  <2> QED  BY <1>7, <1>9, <2>1, <2>2
<1> QED  BY <1>8, <1>9

(***************************************************************************)
(* Until pthread_create fails, each thread has a node of its own in the    *)
(* list, with the number of its connection, and there are no others but    *)
(* main's: whatever nodes and numbers were freed and given out before.     *)
(***************************************************************************)
THEOREM ThreadsOwnTheirNodes == LibrarySpec => []OwnNode
<1>1. AsAskedTypes /\ Numbered /\ NodesOwned => OwnNode
  <2> SUFFICES ASSUME AsAskedTypes, Numbered, NodesOwned, failures = 0
               PROVE  /\ \A c \in Conns : HasNode(c) =>
                           /\ arg[c] \in Reachable(socket_handlers)
                           /\ descriptor[socket_handlers.socket[arg[c]]] = c
                           /\ pc[c] # "start" => socket[c] = socket_handlers.socket[arg[c]]
                      /\ Cardinality(Reachable(socket_handlers))
                           = Cardinality(Owners) + IF main_pc = "create" THEN 1 ELSE 0
    BY DEF OwnNode, Owners
  <2>1. Reachable(socket_handlers) = OwnedNodes
    BY ChainReach DEF NodesOwned
  <2>2. \A c \in Conns : HasNode(c) => arg[c] \in OwnedNodes
    BY DEF OwnedNodes, Owners
  <2> QED  BY <2>1, <2>2, NodesCounted DEF Numbered, ThreadsNumbered
<1> QED  BY <1>1, OwnedInvariant, NumberedInvariant, AsAskedTypesInvariant, PTL

-----------------------------------------------------------------------------
(* Elements of sequences.                                                  *)

LEMMA ElementsOfAppend ==
  ASSUME NEW S, NEW s \in Seq(S), NEW x \in S, NEW k \in DOMAIN Append(s, x)
  PROVE  Append(s, x)[k] = x \/ (k \in DOMAIN s /\ Append(s, x)[k] = s[k])
OBVIOUS

LEMMA ElementsOfTail ==
  ASSUME NEW S, NEW s \in Seq(S), s # <<>>, NEW k \in DOMAIN Tail(s)
  PROVE  k + 1 \in DOMAIN s /\ Tail(s)[k] = s[k + 1]
OBVIOUS

LEMMA ElementsOfConcat ==
  ASSUME NEW S, NEW s \in Seq(S), NEW t \in Seq(S), NEW k \in DOMAIN (s \o t)
  PROVE  \/ k \in DOMAIN s /\ (s \o t)[k] = s[k]
         \/ k - Len(s) \in DOMAIN t /\ (s \o t)[k] = t[k - Len(s)]
OBVIOUS

(***************************************************************************)
(* Nobody hears himself.  A thread may work on the connection of another   *)
(* thread, once numbers were closed too early.  But a connection has one   *)
(* number in its life: a line that the thread received came in at the      *)
(* number which it skips, and its sender is at no other.                   *)
(***************************************************************************)
LinesOf(s, c) == \A k \in DOMAIN s : s[k][1] = c

ForeignTo(s, c) == \A k \in DOMAIN s : \A i \in DOMAIN s[k] : s[k][i][1] # c

QueuesApart ==
  \A c \in Conns : LinesOf(inq[c], c) /\ ForeignTo(shown[c], c) /\ ForeignTo(outq[c], c)

\* Connection d was accepted, and if it has a number still, it is the one of t.
AtNumberOf(t, d) == d \in accepted /\ \A f \in Fds : descriptor[f] = d => f = socket[t]

OneNumberEach ==
  /\ \A f, g \in Fds : descriptor[f] = descriptor[g] /\ descriptor[f] # NoConn => f = g
  /\ \A f \in Fds : descriptor[f] # NoConn => descriptor[f] \in accepted

OneThreadEach ==
  /\ \A c \in Conns : pc[c] # "none" => c \in accepted
  /\ main_pc # "accept" => connection \in Conns /\ connection \in accepted /\ pc[connection] = "none"

ReceivesAtNumber ==
  \A t \in Conns : pc[t] = "receiving" /\ file[t] \in Conns => AtNumberOf(t, file[t])

BufferAtNumber ==
  \A t \in Conns :
    /\ pc[t] \in {"none", "start"} => buffer[t] = <<>>
    /\ \A k \in DOMAIN buffer[t] : AtNumberOf(t, buffer[t][k][1])

SendsToOthers ==
  \A t \in Conns :
    pc[t] = "sending" /\ file[t] \in Conns => \A k \in DOMAIN buffer[t] : buffer[t][k][1] # file[t]

ThreadsApart ==
  OneNumberEach /\ OneThreadEach /\ ReceivesAtNumber /\ BufferAtNumber /\ SendsToOthers

Apart == QueuesApart /\ (running => ThreadsApart)

LEMMA ApartInit == Init => Apart
BY SocketAssumption
DEF Init, SocketInit, ProactorInit, HandlerInit, ClientInit, Apart, QueuesApart, LinesOf,
    ForeignTo, ThreadsApart, OneNumberEach, OneThreadEach, ReceivesAtNumber, BufferAtNumber,
    SendsToOthers

\* Closing a number takes no connection to another one.
LEMMA ApartClose ==
  ASSUME ServerTypes, OneNumberEach, NEW f, Close(f)
  PROVE  /\ OneNumberEach' /\ accepted' = accepted
         /\ \A g \in Fds : descriptor'[g] = descriptor[g] \/ descriptor'[g] = NoConn
<1>1. \A g \in Fds : descriptor'[g] = descriptor[g] \/ descriptor'[g] = NoConn
  BY DEF ServerTypes, LibraryTypes, Close
<1> QED  BY <1>1 DEF OneNumberEach, Close

\* A step that closes a number, or none, and leaves the calls where they are.
LEMMA ApartStays ==
  ASSUME ServerTypes, running, ThreadsApart, OneNumberEach', accepted' = accepted,
         \A g \in Fds : descriptor'[g] = descriptor[g] \/ descriptor'[g] = NoConn,
         \A t \in Conns : /\ pc'[t] \in {"receiving", "sending"} => pc'[t] = pc[t]
                          /\ pc'[t] = "none" => pc[t] = "none"
                          /\ pc'[t] # "none" => t \in accepted
                          /\ pc'[t] = "start" => pc[t] \in {"none", "start"}
                          /\ socket'[t] = socket[t] \/ pc[t] = "start",
         main_pc' # "accept" => /\ main_pc # "accept" /\ connection' = connection
                                /\ pc'[connection] = "none",
         UNCHANGED <<file, buffer>>
  PROVE  ThreadsApart'
<1> USE DEF ThreadsApart
<1>1. NoConn \notin Conns /\ buffer \in [Conns -> Seq(Lines)] /\ accepted \subseteq Conns
  BY SocketAssumption DEF SocketAssumption, ServerTypes, HandlerTypes, LibraryTypes
<1>2. OneThreadEach'
  BY DEF OneThreadEach
<1>3. ASSUME NEW t \in Conns, NEW d, AtNumberOf(t, d), socket'[t] = socket[t] PROVE AtNumberOf(t, d)'
  BY <1>1, <1>3 DEF AtNumberOf
<1>4. ReceivesAtNumber'
  BY <1>3 DEF ReceivesAtNumber
<1>5. BufferAtNumber'
  <2>1. ASSUME NEW t \in Conns, NEW k \in DOMAIN buffer[t] PROVE AtNumberOf(t, buffer[t][k][1])'
    <3>1. pc[t] # "start"
      BY <1>1 DEF BufferAtNumber
    <3>2. AtNumberOf(t, buffer[t][k][1])
      BY DEF BufferAtNumber
    <3> QED  BY <1>3, <3>1, <3>2
  <2> QED  BY <2>1 DEF BufferAtNumber
<1>6. SendsToOthers'
  BY DEF SendsToOthers
<1> QED  BY <1>2, <1>4, <1>5, <1>6

LEMMA ApartMain == ASSUME ServerTypes, running, ThreadsApart, MainNext, UNCHANGED handler_vars
                   PROVE  ThreadsApart'
<1> USE DEF ThreadsApart
<1>0. /\ pc \in [Conns -> Labels] /\ descriptor \in [Fds -> Conns \cup {NoConn}]
      /\ NoConn \notin Conns /\ UNCHANGED <<file, buffer>> /\ accepted \subseteq Conns
  BY SocketAssumption DEF SocketAssumption, ServerTypes, LibraryTypes, handler_vars
<1>1. CASE MainAccept
  <2>1. PICK f \in Fds, c \in Conns :
          /\ descriptor[f] = NoConn /\ c \notin accepted
          /\ descriptor' = [descriptor EXCEPT ![f] = c] /\ accepted' = accepted \cup {c}
          /\ client_socket' = f /\ connection' = c
    BY <1>1 DEF MainAccept, Accept
  <2>2. UNCHANGED <<pc, socket>>
    BY <1>1 DEF MainAccept, worker_vars
  <2>3. OneNumberEach'
    BY <1>0, <2>1 DEF OneNumberEach
  <2>4. OneThreadEach'
    BY <1>0, <2>1, <2>2 DEF OneThreadEach
  <2>5. ASSUME NEW t \in Conns, NEW d, AtNumberOf(t, d) PROVE AtNumberOf(t, d)'
    BY <1>0, <2>1, <2>2, <2>5 DEF AtNumberOf
  <2>6. ReceivesAtNumber'
    BY <1>0, <2>2, <2>5 DEF ReceivesAtNumber
  <2>7. BufferAtNumber'
    <3>1. ASSUME NEW t \in Conns, NEW k \in DOMAIN buffer[t] PROVE AtNumberOf(t, buffer[t][k][1])'
      <4>1. AtNumberOf(t, buffer[t][k][1])
        BY DEF BufferAtNumber
      <4> QED  BY <1>0, <2>5, <4>1
    <3> QED  BY <1>0, <2>2, <3>1 DEF BufferAtNumber
  <2>8. SendsToOthers'
    BY <1>0, <2>2 DEF SendsToOthers
  <2> QED  BY <2>3, <2>4, <2>6, <2>7, <2>8
<1>2. CASE NewNode \/ AddNode
  <2>1. main_pc # "accept" /\ UNCHANGED <<pc, socket, connection, descriptor, accepted>>
    BY <1>2 DEF NewNode, AddNode, worker_vars, socket_vars
  <2>2. OneNumberEach'
    BY <2>1 DEF OneNumberEach
  <2> QED  BY <1>0, <2>1, <2>2, ApartStays DEF OneThreadEach
<1>3. CASE CreateThread
  <2>1. /\ main_pc = "create" /\ main_pc' = "accept" /\ pc' = [pc EXCEPT ![connection] = "start"]
        /\ UNCHANGED <<socket, descriptor, accepted>>
    BY <1>3 DEF CreateThread, Goto, socket_vars
  <2>2. OneNumberEach'
    BY <2>1 DEF OneNumberEach
  <2>3. connection \in Conns /\ connection \in accepted /\ pc[connection] = "none"
    BY <2>1 DEF OneThreadEach
  <2>4. \A t \in Conns : /\ pc'[t] \in {"receiving", "sending"} => pc'[t] = pc[t]
                         /\ pc'[t] = "none" => pc[t] = "none"
                         /\ pc'[t] # "none" => t \in accepted
                         /\ pc'[t] = "start" => pc[t] \in {"none", "start"}
    BY <1>0, <2>1, <2>3 DEF OneThreadEach
  <2>5. descriptor' = descriptor /\ accepted' = accepted /\ socket' = socket
    BY <2>1
  <2> QED  BY <1>0, <2>1, <2>2, <2>4, <2>5, ApartStays
<1>4. CASE CreateThreadFails
  <2>1. main_pc' = "accept" /\ UNCHANGED <<pc, socket>> /\ Close(client_socket)
    BY <1>4 DEF CreateThreadFails, worker_vars
  <2>2. /\ OneNumberEach' /\ accepted' = accepted
        /\ \A g \in Fds : descriptor'[g] = descriptor[g] \/ descriptor'[g] = NoConn
    BY <2>1, ApartClose
  <2> QED  BY <1>0, <2>1, <2>2, ApartStays DEF OneThreadEach
<1> QED  BY <1>1, <1>2, <1>3, <1>4 DEF MainNext

\* A thread that goes on to a place where it has no call to return from.
LEMMA ApartGoes ==
  ASSUME ServerTypes, running, ThreadsApart, NEW t \in Conns, pc[t] # "none", NEW label,
         label \notin {"none", "start", "receiving", "sending"}, pc' = [pc EXCEPT ![t] = label],
         socket'[t] = socket[t] \/ pc[t] = "start", \A d \in Conns \ {t} : socket'[d] = socket[d],
         OneNumberEach', accepted' = accepted,
         \A g \in Fds : descriptor'[g] = descriptor[g] \/ descriptor'[g] = NoConn,
         UNCHANGED <<main_pc, connection, file, buffer>>
  PROVE  ThreadsApart'
<1>1. pc \in [Conns -> Labels]
  BY DEF ServerTypes, LibraryTypes
<1> QED  BY <1>1, ApartStays DEF ThreadsApart, OneThreadEach

LEMMA ApartWorker ==
  ASSUME ServerTypes, running, ThreadsApart, NEW t \in Conns, WorkerNext(t, "new"),
         UNCHANGED handler_vars
  PROVE  ThreadsApart'
<1>1. UNCHANGED <<main_pc, connection, file, buffer>>
  BY DEF WorkerNext, ReadSocket, Lookup, RemoveNode, CloseSocket, main_vars, handler_vars
<1>2. ASSUME UNCHANGED <<descriptor, accepted>>
      PROVE  /\ OneNumberEach' /\ accepted' = accepted
             /\ \A g \in Fds : descriptor'[g] = descriptor[g] \/ descriptor'[g] = NoConn
  BY <1>2 DEF ThreadsApart, OneNumberEach
<1>3. CASE ReadSocket(t)
  <2>1. /\ pc[t] = "start" /\ pc' = [pc EXCEPT ![t] = "lookup"]
        /\ \A d \in Conns \ {t} : socket'[d] = socket[d]
        /\ UNCHANGED <<descriptor, accepted>>
    BY <1>3 DEF ReadSocket, Goto, ServerTypes, LibraryTypes, socket_vars
  <2> QED  BY <1>1, <1>2, <2>1, ApartGoes
<1>4. CASE Lookup(t, "new") \/ RemoveNode(t)
  <2>1. pc[t] # "none" /\ UNCHANGED <<socket, descriptor, accepted>>
    BY <1>4 DEF Lookup, RemoveNode, socket_vars
  <2>2. PICK label \in {"spin", "new", "cleanup", "close"} : pc' = [pc EXCEPT ![t] = label]
    BY <1>4 DEF Lookup, RemoveNode, Searched, Goto
  <2> QED  BY <1>1, <1>2, <2>1, <2>2, ApartGoes
<1>5. CASE CloseSocket(t)
  <2>1. /\ pc[t] = "close" /\ pc' = [pc EXCEPT ![t] = "done"] /\ socket' = socket
        /\ Close(socket[t])
    BY <1>5 DEF CloseSocket, Goto
  <2>2. /\ OneNumberEach' /\ accepted' = accepted
        /\ \A g \in Fds : descriptor'[g] = descriptor[g] \/ descriptor'[g] = NoConn
    BY <2>1, ApartClose DEF ThreadsApart
  <2> QED  BY <1>1, <2>1, <2>2, ApartGoes
<1> QED  BY <1>3, <1>4, <1>5 DEF WorkerNext

LEMMA ApartCall ==
  ASSUME ServerTypes, ThreadsApart, NEW t \in Conns,
         RecvCall(t) \/ SendCall(t)
  PROVE  ThreadsApart'
<1> USE DEF ThreadsApart
<1>0. /\ pc \in [Conns -> Labels] /\ file \in [Conns -> Conns \cup {NoConn}]
      /\ NoConn \notin Conns
      /\ UNCHANGED <<buffer, descriptor, accepted, main_pc, connection, socket>>
  BY SocketAssumption
  DEF SocketAssumption, ServerTypes, LibraryTypes, HandlerTypes, RecvCall, SendCall,
      library_vars, main_vars, socket_vars
<1>1. PICK f : file' = [file EXCEPT ![t] = FileOf(f)] /\
               \/ pc[t] = "recv" /\ pc' = [pc EXCEPT ![t] = "receiving"] /\ f = socket[t]
               \/ pc[t] = "broadcast" /\ pc' = [pc EXCEPT ![t] = "sending"] /\ f # socket[t]
  BY DEF RecvCall, SendCall, At, Goto
<1>2. FileOf(f) # NoConn => f \in Fds /\ FileOf(f) = descriptor[f]
  BY DEF FileOf
<1>3. OneNumberEach'
  BY <1>0 DEF OneNumberEach
<1>4. OneThreadEach'
  BY <1>0, <1>1 DEF OneThreadEach
<1>5. ReceivesAtNumber'
  <2>1. pc[t] = "recv" /\ FileOf(f) \in Conns => AtNumberOf(t, FileOf(f))
    BY <1>0, <1>1, <1>2 DEF OneNumberEach, AtNumberOf
  <2> QED  BY <1>0, <1>1, <2>1 DEF ReceivesAtNumber, AtNumberOf
<1>6. BufferAtNumber'
  BY <1>0, <1>1 DEF BufferAtNumber, AtNumberOf
<1>7. SendsToOthers'
  <2>1. ASSUME pc[t] = "broadcast", FileOf(f) \in Conns, NEW k \in DOMAIN buffer[t]
        PROVE  buffer[t][k][1] # FileOf(f)
    <3>1. AtNumberOf(t, buffer[t][k][1])
      BY DEF BufferAtNumber
    <3> QED  BY <1>0, <1>1, <1>2, <2>1, <3>1 DEF AtNumberOf
  <2> QED  BY <1>0, <1>1, <2>1 DEF SendsToOthers
<1> QED  BY <1>3, <1>4, <1>5, <1>6, <1>7

LEMMA ApartReceive ==
  ASSUME ServerTypes, ThreadsApart, QueuesApart, NEW t \in Conns, Receive(t),
         UNCHANGED client_vars
  PROVE  ThreadsApart' /\ QueuesApart'
<1> USE DEF ThreadsApart
<1>0. /\ pc \in [Conns -> Labels] /\ file \in [Conns -> Conns \cup {NoConn}]
      /\ inq \in [Conns -> Seq(Lines)] /\ buffer \in [Conns -> Seq(Lines)]
      /\ NoConn \notin Conns
  BY SocketAssumption DEF SocketAssumption, ServerTypes, LibraryTypes, HandlerTypes, QueueTypes
<1>1. PICK d \in Conns : d = file[t] /\ pc[t] = "receiving"
  BY <1>0 DEF Receive, At
<1>2. PICK n \in 1..Len(inq[d]) :
        /\ inq' = [inq EXCEPT ![d] = SubSeq(inq[d], n + 1, Len(inq[d]))]
        /\ buffer' = [buffer EXCEPT ![t] = SubSeq(inq[d], 1, n)]
        /\ UNCHANGED <<descriptor, accepted, outq>>
  BY <1>1 DEF Receive, RecvData
<1>3. /\ pc' = [pc EXCEPT ![t] = "lock"] /\ file' = [file EXCEPT ![t] = NoConn]
      /\ UNCHANGED <<main_pc, connection, socket, shown>>
  BY DEF Receive, Goto, library_vars, main_vars, client_vars
<1>4. inq[d] \in Seq(Lines) /\ LinesOf(inq[d], d)
  BY <1>0 DEF QueuesApart
<1>5. /\ LinesOf(SubSeq(inq[d], n + 1, Len(inq[d])), d)
      /\ LinesOf(SubSeq(inq[d], 1, n), d)
  BY <1>4 DEF LinesOf
<1>6. QueuesApart'
  BY <1>0, <1>2, <1>3, <1>5 DEF QueuesApart
<1>7. OneNumberEach'
  BY <1>2 DEF OneNumberEach
<1>8. OneThreadEach'
  BY <1>0, <1>1, <1>2, <1>3 DEF OneThreadEach
<1>9. AtNumberOf(t, d) /\ \A s, e \in Conns : AtNumberOf(s, e) => AtNumberOf(s, e)'
  BY <1>1, <1>2, <1>3 DEF ReceivesAtNumber, AtNumberOf
<1>10. ReceivesAtNumber'
  BY <1>0, <1>3, <1>9 DEF ReceivesAtNumber
<1>11. BufferAtNumber'
  <2>1. ASSUME NEW s \in Conns, NEW k \in DOMAIN buffer'[s] PROVE AtNumberOf(s, buffer[s][k][1])'
    <3>1. CASE s = t
      <4>1. buffer'[s][k][1] = d
        BY <1>0, <1>2, <1>5, <2>1, <3>1 DEF LinesOf
      <4>2. AtNumberOf(t, d)'
        BY <1>9
      <4> QED  BY <3>1, <4>1, <4>2 DEF AtNumberOf
    <3>2. CASE s # t
      <4>1. buffer'[s] = buffer[s]
        BY <1>0, <1>2, <3>2
      <4>2. AtNumberOf(s, buffer[s][k][1])
        BY <2>1, <4>1 DEF BufferAtNumber
      <4>3. UNCHANGED <<descriptor, accepted, socket>>
        BY <1>2, <1>3
      <4> QED  BY <4>1, <4>2, <4>3 DEF AtNumberOf
    <3> QED  BY <3>1, <3>2
  <2>2. \A s \in Conns : pc'[s] \in {"none", "start"} => buffer'[s] = <<>>
    BY <1>0, <1>2, <1>3 DEF BufferAtNumber
  <2> QED  BY <2>1, <2>2 DEF BufferAtNumber
<1>12. SendsToOthers'
  BY <1>0, <1>2, <1>3 DEF SendsToOthers
<1> QED  BY <1>6, <1>7, <1>8, <1>10, <1>11, <1>12

LEMMA ApartSend ==
  ASSUME ServerTypes, ThreadsApart, QueuesApart, NEW t \in Conns, SendReturn(t),
         UNCHANGED client_vars
  PROVE  QueuesApart'
<1>0. /\ pc[t] = "sending" /\ inq' = inq /\ shown' = shown /\ Send(file[t], buffer[t])
      /\ outq \in [Conns -> Seq(Seq(Lines))] /\ buffer[t] \in Seq(Lines)
  BY DEF SendReturn, At, Send, client_vars, ServerTypes, QueueTypes, HandlerTypes
<1>1. CASE outq' = outq
  BY <1>0, <1>1 DEF QueuesApart
<1>2. ASSUME NEW d \in Conns, d = file[t], outq' = [outq EXCEPT ![d] = Append(outq[d], buffer[t])]
      PROVE  QueuesApart'
  <2>1. ForeignTo(outq[d], d) /\ \A i \in DOMAIN buffer[t] : buffer[t][i][1] # d
    BY <1>0, <1>2 DEF QueuesApart, ThreadsApart, SendsToOthers
  <2>2. ForeignTo(Append(outq[d], buffer[t]), d)
    <3>1. outq[d] \in Seq(Seq(Lines))
      BY <1>0
    <3> QED  BY <1>0, <2>1, <3>1 DEF ForeignTo
  <2> QED  BY <1>0, <1>2, <2>2 DEF QueuesApart
<1> QED  BY <1>0, <1>1, <1>2 DEF Send

LEMMA ApartHandler ==
  ASSUME ServerTypes, running, ThreadsApart, QueuesApart, NEW t \in Conns, HandlerNext(t),
         UNCHANGED client_vars
  PROVE  QueuesApart' /\ (running' => ThreadsApart')
<1>0. /\ pc \in [Conns -> Labels] /\ file \in [Conns -> Conns \cup {NoConn}]
      /\ NoConn \notin Conns /\ shown' = shown
  BY SocketAssumption
  DEF SocketAssumption, ServerTypes, LibraryTypes, HandlerTypes, client_vars
<1>1. ASSUME UNCHANGED <<inq, outq>> PROVE QueuesApart'
  BY <1>0, <1>1 DEF QueuesApart
<1>2. ASSUME UNCHANGED <<descriptor, accepted>>
      PROVE  /\ OneNumberEach' /\ accepted' = accepted
             /\ \A g \in Fds : descriptor'[g] = descriptor[g] \/ descriptor'[g] = NoConn
  BY <1>2 DEF ThreadsApart, OneNumberEach
<1>3. CASE RecvCall(t) \/ SendCall(t)
  <2>1. UNCHANGED <<inq, outq>>
    BY <1>3 DEF RecvCall, SendCall, socket_vars
  <2> QED  BY <1>1, <1>3, <2>1, ApartCall
<1>4. CASE Receive(t)
  BY <1>4, ApartReceive
<1>5. CASE SendReturn(t) \/ Disconnected(t)
  <2>1. PICK label \in {"broadcast", "remove"} : pc' = [pc EXCEPT ![t] = label]
    BY <1>5 DEF SendReturn, Disconnected, Goto
  <2>2. /\ file' = [file EXCEPT ![t] = NoConn] /\ pc[t] # "none"
        /\ UNCHANGED <<descriptor, accepted, main_pc, connection, socket, buffer>>
    BY <1>5
    DEF SendReturn, Disconnected, At, Send, RecvEnd, socket_vars, library_vars, main_vars
  <2>3. ThreadsApart'
    BY <1>0, <2>1, <2>2
    DEF ThreadsApart, OneNumberEach, OneThreadEach, ReceivesAtNumber, BufferAtNumber,
        SendsToOthers, AtNumberOf
  <2>4. Disconnected(t) => UNCHANGED <<inq, outq>>
    BY DEF Disconnected, RecvEnd, socket_vars
  <2> QED  BY <1>1, <1>5, <2>3, <2>4, ApartSend
<1>6. CASE HangUp(t)
  <2>1. /\ pc[t] = "hang up" /\ pc' = [pc EXCEPT ![t] = "cleanup"] /\ Close(socket[t])
        /\ UNCHANGED <<socket, main_pc, connection, file, buffer, inq, outq>>
    BY <1>6 DEF HangUp, At, Goto, Close, library_vars, main_vars, handler_vars
  <2>2. /\ OneNumberEach' /\ accepted' = accepted
        /\ \A g \in Fds : descriptor'[g] = descriptor[g] \/ descriptor'[g] = NoConn
    BY <2>1, ApartClose DEF ThreadsApart
  <2> QED  BY <1>1, <2>1, <2>2, ApartGoes
<1>7. CASE BroadcastSkip(t)
  <2>1. UNCHANGED <<pc, socket, main_pc, connection, file, buffer, socket_vars>>
    BY <1>7 DEF BroadcastSkip, library_vars, main_vars
  <2>2. ThreadsApart'
    BY <2>1
    DEF ThreadsApart, OneNumberEach, OneThreadEach, ReceivesAtNumber, BufferAtNumber,
        SendsToOthers, AtNumberOf, socket_vars
  <2> QED  BY <1>1, <2>1, <2>2 DEF socket_vars
<1>8. CASE NewClient(t) \/ InsertClient(t) \/ BroadcastLock(t) \/ BroadcastUnlock(t) \/ RemoveClient(t)
  <2>1. PICK label \in {"insert", "recv", "broadcast", "hang up", "spin"} :
          pc' = [pc EXCEPT ![t] = label]
    BY <1>8 DEF NewClient, InsertClient, BroadcastLock, BroadcastUnlock, RemoveClient, Goto
  <2>2. /\ pc[t] # "none"
        /\ UNCHANGED <<socket, main_pc, connection, file, buffer, socket_vars>>
    BY <1>8 DEF NewClient, InsertClient, BroadcastLock, BroadcastUnlock, RemoveClient, At,
                library_vars, main_vars
  <2> QED  BY <1>1, <1>2, <2>1, <2>2, ApartGoes DEF socket_vars
<1>9. CASE Sigpipe(t) \/ FollowFreed(t)
  <2>1. running' = FALSE /\ UNCHANGED <<inq, outq>>
    BY <1>9 DEF Sigpipe, SendSigpipe, FollowFreed, socket_vars
  <2> QED  BY <1>1, <2>1
<1> QED  BY <1>3, <1>4, <1>5, <1>6, <1>7, <1>8, <1>9 DEF HandlerNext

LEMMA ApartLine ==
  ASSUME ServerTypes, QueuesApart, NEW c \in Conns, NEW n, Line(c, n) \in Lines, NEW hungup,
         SendLine(c, Line(c, n), hungup)
  PROVE  QueuesApart'
<1>1. /\ UNCHANGED <<shown, outq>>
      /\ inq' = inq \/ inq' = [inq EXCEPT ![c] = Append(inq[c], Line(c, n))]
  BY DEF SendLine
<1>2. inq \in [Conns -> Seq(Lines)] /\ LinesOf(inq[c], c)
  BY DEF ServerTypes, QueueTypes, QueuesApart
<1>3. LinesOf(Append(inq[c], Line(c, n)), c)
  BY <1>2 DEF LinesOf, Line
<1> QED  BY <1>1, <1>2, <1>3 DEF QueuesApart

LEMMA ApartClient ==
  ASSUME ServerTypes, QueuesApart, NEW c \in Conns, NEW hungup, ClientNext(c, hungup)
  PROVE  QueuesApart'
<1> USE ChatClientAssumption DEF ChatClientAssumption
<1>1. outq \in [Conns -> Seq(Seq(Lines))] /\ shown \in [Conns -> Seq(Seq(Lines))]
  BY DEF ServerTypes, QueueTypes, ClientTypes
<1>2. CASE Keyboard(c, hungup)
  <2>1. Line(c, sent[c] + 1) \in Lines
    BY <1>2 DEF Keyboard, Line, Lines, ServerTypes, ClientTypes
  <2> QED  BY <1>2, <2>1, ApartLine DEF Keyboard
<1>3. CASE KeyboardAtEnd(c, hungup)
  <2>1. Line(c, sent[c]) \in Lines
    BY <1>3 DEF KeyboardAtEnd, Line, Lines, ServerTypes, ClientTypes
  <2> QED  BY <1>3, <2>1, ApartLine DEF KeyboardAtEnd
<1>4. CASE Display(c)
  <2>1. /\ outq[c] # <<>> /\ ForeignTo(outq[c], c) /\ ForeignTo(shown[c], c)
        /\ outq[c] \in Seq(Seq(Lines)) /\ shown[c] \in Seq(Seq(Lines))
    BY <1>1, <1>4 DEF Display, QueuesApart
  <2>2. ForeignTo(Tail(outq[c]), c)
    BY <2>1, ElementsOfTail DEF ForeignTo
  <2>3. ForeignTo(Append(shown[c], Head(outq[c])), c)
    <3>1. Head(outq[c]) = outq[c][1] /\ 1 \in DOMAIN outq[c] /\ Head(outq[c]) \in Seq(Lines)
      BY <2>1
    <3> QED  BY <2>1, <3>1, ElementsOfAppend DEF ForeignTo
  <2> QED  BY <1>1, <1>4, <2>2, <2>3 DEF Display, QueuesApart
<1>5. CASE Leave(c)
  <2>1. ForeignTo(<<>>, c)
    BY DEF ForeignTo
  <2> QED  BY <1>1, <1>5, <2>1 DEF Leave, QueuesApart
<1>6. CASE Connect(c) \/ ServerDisconnected(c, hungup)
  BY <1>6 DEF Connect, ServerDisconnected, socket_vars, QueuesApart
<1> QED  BY <1>2, <1>3, <1>4, <1>5, <1>6 DEF ClientNext

LEMMA ApartNext == ServerTypes /\ Apart /\ [Next]_vars => Apart'
<1> SUFFICES ASSUME ServerTypes, Apart, [Next]_vars PROVE Apart'
  OBVIOUS
<1>0. QueuesApart
  BY DEF Apart
<1>1. ASSUME running, MainNext \/ \E t \in Conns : WorkerNext(t, "new"),
             UNCHANGED <<handler_vars, client_vars>>
      PROVE  Apart'
  <2>1. UNCHANGED <<inq, outq, shown>>
    BY <1>1
    DEF MainNext, MainAccept, NewNode, AddNode, CreateThread, CreateThreadFails, WorkerNext,
        ReadSocket, Lookup, RemoveNode, CloseSocket, Accept, Close, socket_vars, client_vars
  <2>2. ThreadsApart'
    BY <1>1, ApartMain, ApartWorker DEF Apart
  <2> QED  BY <1>0, <2>1, <2>2 DEF Apart, QueuesApart
<1>2. (\/ MainNext \/ \E t \in Conns : WorkerNext(t, "new") \/ HandlerNext(t)) => running
  BY DEF MainNext, MainAccept, NewNode, AddNode, CreateThread, CreateThreadFails, WorkerNext,
         ReadSocket, Lookup, RemoveNode, CloseSocket, HandlerNext, At, NewClient, InsertClient,
         RecvCall, Receive, Disconnected, BroadcastLock, BroadcastSkip, SendCall, SendReturn,
         Sigpipe, BroadcastUnlock, RemoveClient, HangUp, FollowFreed
<1>3. ASSUME NEW t \in Conns, running, HandlerNext(t), UNCHANGED client_vars PROVE Apart'
  BY <1>3, ApartHandler DEF Apart
<1>4. ASSUME UNCHANGED <<descriptor, accepted, proactor_vars, handler_vars>>
      PROVE  (running => ThreadsApart) => (running' => ThreadsApart')
  BY <1>4
  DEF ThreadsApart, OneNumberEach, OneThreadEach, ReceivesAtNumber, BufferAtNumber,
      SendsToOthers, AtNumberOf, proactor_vars, main_vars, worker_vars, handler_vars
<1>5. ASSUME NEW c \in Conns, Client(c) PROVE Apart'
  <2>1. UNCHANGED <<descriptor, accepted, proactor_vars, handler_vars>>
    BY <1>5 DEF Client, ClientNext, Connect, Keyboard, KeyboardAtEnd, SendLine, Display,
                ServerDisconnected, Leave, socket_vars
  <2>2. QueuesApart'
    BY <1>0, <1>5, ApartClient DEF Client
  <2> QED  BY <1>4, <2>1, <2>2 DEF Apart
<1>6. CASE UNCHANGED vars
  <2>1. UNCHANGED <<descriptor, accepted, proactor_vars, handler_vars, inq, outq, shown>>
    BY <1>6 DEF vars, socket_vars, client_vars
  <2>2. QueuesApart'
    BY <1>0, <2>1 DEF QueuesApart
  <2> QED  BY <1>4, <2>1, <2>2 DEF Apart
<1> QED  BY <1>1, <1>2, <1>3, <1>5, <1>6 DEF Next, Main, Thread

LEMMA ApartInvariant == Spec => []Apart
BY ApartInit, ApartNext, ServerTypesInvariant, PTL DEF Spec

(***************************************************************************)
(* No client of server_proactor.c is sent a line of its own, although a    *)
(* thread may come to read and close the connection of another one.        *)
(***************************************************************************)
THEOREM ChatProactorNoEcho == Spec => []NoEcho
<1>1. ServerTypes /\ QueuesApart => NoEcho
  <2> SUFFICES ASSUME ServerTypes, QueuesApart, NEW c \in Conns, NEW n \in 1..MaxLines,
                      NEW k \in DOMAIN Delivered(c), Contains(Delivered(c)[k], Line(c, n))
               PROVE  FALSE
    BY DEF NoEcho, LinesFrom
  <2>1. /\ shown[c] \in Seq(Seq(Lines)) /\ outq[c] \in Seq(Seq(Lines))
        /\ ForeignTo(shown[c], c) /\ ForeignTo(outq[c], c)
    BY DEF ServerTypes, QueueTypes, ClientTypes, QueuesApart
  <2>2. ForeignTo(Delivered(c), c)
    <3>1. ASSUME NEW j \in DOMAIN Delivered(c), NEW i \in DOMAIN Delivered(c)[j]
          PROVE  Delivered(c)[j][i][1] # c
      <4>1. \/ j \in DOMAIN shown[c] /\ Delivered(c)[j] = shown[c][j]
            \/ j - Len(shown[c]) \in DOMAIN outq[c] /\ Delivered(c)[j] = outq[c][j - Len(shown[c])]
        BY <2>1, ElementsOfConcat DEF Delivered
      <4> QED  BY <2>1, <3>1, <4>1 DEF ForeignTo
    <3> QED  BY <3>1 DEF ForeignTo
  <2>3. Delivered(c)[k] \in Seq(Lines)
    <3>1. Delivered(c) \in Seq(Seq(Lines))
      BY <2>1 DEF Delivered
    <3> QED  BY <3>1
  <2> QED  BY <2>2, <2>3 DEF ForeignTo, Contains, Line
<1> QED  BY <1>1, ApartInvariant, ServerTypesInvariant, PTL DEF Apart

=============================================================================
