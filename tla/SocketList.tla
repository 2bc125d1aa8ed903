---------------------------- MODULE SocketList ----------------------------
(***************************************************************************)
(* The singly linked lists of proactor.c (struct SocketHandler) and        *)
(* server_proactor.c (struct Client): cells from malloc that hold a socket *)
(* number and a pointer, a pointer to the first one, and the loops that    *)
(* search, insert and remove.  A list is a record                          *)
(*   first     - where the list begins,                                    *)
(*   socket    - Cells -> number,                                          *)
(*   next      - Cells -> cell or NULL,                                    *)
(*   allocated - the cells that malloc has given out and free not got back.*)
(* A cell that was freed can be read until it is given out again: the      *)
(* allocator has written over its number; its pointer may still be there.  *)
(***************************************************************************)
EXTENDS Naturals, FiniteSets, FiniteSetsExt

CONSTANTS Cells,  \* memory cells of one list
          NULL

ASSUME ListAssumption == IsFiniteSet(Cells) /\ NULL \notin Cells

\* Stands for what a freed cell holds: the number of no connection.
Junk == 0

EmptyList == [first     |-> NULL,
              socket    |-> [a \in Cells |-> Junk],
              next      |-> [a \in Cells |-> NULL],
              allocated |-> {}]

\* Deviation: the pointer of a new cell is left as malloc gave it.
NewCellLoose(list, a, f) ==
  [list EXCEPT !.socket[a] = f, !.next[a] = Junk, !.allocated = @ \cup {a}]

\* malloc: a new cell with the number f.
NewCell(list, a, f) ==
  [list EXCEPT !.socket[a] = f, !.next[a] = NULL, !.allocated = @ \cup {a}]

\* The cell a points to the present first one.
PointToFirst(list, a) == [list EXCEPT !.next[a] = list.first]

Free(list, a) ==
  [list EXCEPT !.socket[a] = Junk, !.allocated = @ \ {a}]

\* The cells a loop from the first one visits, as far as it can be new ones.
Path(list) ==
  LET path[n \in 0..Cardinality(Cells)] ==
        IF n = 0 THEN list.first
        ELSE IF path[n - 1] = NULL THEN NULL ELSE list.next[path[n - 1]]
  IN path

Matches(list, f) ==
  {n \in 0..Cardinality(Cells) :
     Path(list)[n] # NULL /\ list.socket[Path(list)[n]] = f}

Found(list, f) == Matches(list, f) # {}

\* The search for f runs in a circle of cells.
Endless(list, f) == ~Found(list, f) /\ Path(list)[Cardinality(Cells)] # NULL

\* Deviation: the first cell of the list is removed, whatever its number.
UnlinkHead(list, f) ==
  IF ~Found(list, f) THEN list
  ELSE Free([list EXCEPT !.first = list.next[list.first]], list.first)

\* Deviation: the beginning of the list is not moved when its cell is freed.
UnlinkInner(list, f) ==
  LET n == Min(Matches(list, f))
      a == Path(list)[n] IN
  IF ~Found(list, f) THEN list
  ELSE IF n = 0 THEN Free(list, a)
  ELSE Free([list EXCEPT !.next[Path(list)[n - 1]] = list.next[a]], a)

\* The first cell with the number f is unlinked and freed, if there is one.
Unlink(list, f) ==
  LET n == Min(Matches(list, f))
      a == Path(list)[n] IN
  IF ~Found(list, f) THEN list
  ELSE IF n = 0 THEN Free([list EXCEPT !.first = list.next[a]], a)
  ELSE Free([list EXCEPT !.next[Path(list)[n - 1]] = list.next[a]], a)

Reachable(list) == {Path(list)[n] : n \in 0..Cardinality(Cells)} \ {NULL}

\* No cell of the list has been freed, and the list has an end.
Intact(list) ==
  Reachable(list) \subseteq list.allocated /\ Path(list)[Cardinality(Cells)] = NULL

===========================================================================
