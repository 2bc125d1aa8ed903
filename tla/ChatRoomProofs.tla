--------------------------- MODULE ChatRoomProofs ---------------------------
(***************************************************************************)
(* What the clients of ChatSystem see of each other, for every number of   *)
(* connections, descriptor numbers, lines and failures.                    *)
(***************************************************************************)
EXTENDS ChatSystemProofs

Seqs == INSTANCE SequenceTheorems

(* Elements of sequences.                                                  *)

LEMMA LastOfAppend ==
  ASSUME NEW S, NEW s \in Seq(S), NEW x \in S
  PROVE  Append(s, x) # <<>> /\ Append(s, x)[Len(Append(s, x))] = x
OBVIOUS

LEMMA ElementsOfAppend ==
  ASSUME NEW S, NEW s \in Seq(S), NEW x \in S, NEW k \in DOMAIN Append(s, x)
  PROVE  Append(s, x)[k] = x \/ (k \in DOMAIN s /\ Append(s, x)[k] = s[k])
OBVIOUS

LEMMA ElementsOfTail ==
  ASSUME NEW S, NEW s \in Seq(S), s # <<>>, NEW k \in DOMAIN Tail(s)
  PROVE  k + 1 \in DOMAIN s /\ Tail(s)[k] = s[k + 1]
OBVIOUS

LEMMA ElementsOfConcat ==
  ASSUME NEW S, NEW s \in Seq(S), NEW t \in Seq(S), NEW k \in DOMAIN (s \o t)
  PROVE  \/ k \in DOMAIN s /\ (s \o t)[k] = s[k]
         \/ k - Len(s) \in DOMAIN t /\ (s \o t)[k] = t[k - Len(s)]
OBVIOUS

-----------------------------------------------------------------------------
(***************************************************************************)
(* The handler in the broadcast loop has the mutex, and its message is the *)
(* last one of the log.                                                    *)
(***************************************************************************)
SendInv ==
  \A c \in Conns :
    pc[c] = "send" => /\ clients_mutex = c /\ next[c] > 0
                      /\ log # <<>> /\ log[Len(log)] = buffer[c]

Typed == OwnInv /\ log \in Seq(Seq(Lines))

\* A step of c after which c is not in the loop, and nobody got into it.
LEMMA SendMoves ==
  ASSUME Typed, SendInv, NEW c \in Conns, NEW label \in Labels \ {"send"},
         pc' = [pc EXCEPT ![c] = label], Log,
         \A d \in Conns \ {c} : next'[d] = next[d] /\ buffer'[d] = buffer[d],
         clients_mutex' = clients_mutex \/ (pc[c] = "send" /\ clients_mutex' = NoConn)
  PROVE  SendInv'
<1>1. log' = log
  BY DEF Log, Logs, Typed, OwnInv, ProgramTypeOK, Labels
<1> QED  BY <1>1 DEF SendInv, Typed, OwnInv, ProgramTypeOK, Labels

\* A step that leaves the handlers where they are, in their loops.
LEMMA SendStays ==
  ASSUME Typed, SendInv, Log, UNCHANGED <<pc, buffer, clients_mutex>>,
         \A c \in Conns : next'[c] = next[c] \/ next'[c] = next[c] + 1
  PROVE  SendInv'
<1>1. log' = log
  BY DEF Log, Logs, Typed, OwnInv, ProgramTypeOK
<1>2. next \in [Conns -> Nat]
  BY DEF Typed, OwnInv, ProgramTypeOK
<1> QED  BY <1>1, <1>2 DEF SendInv

LEMMA SendLock ==
  ASSUME Typed, SendInv, NEW c \in Conns, BroadcastLock(c), Log PROVE SendInv'
<1>1. /\ pc[c] = "lock" /\ pc' = [pc EXCEPT ![c] = "send"] /\ clients_mutex = NoConn
      /\ clients_mutex' = c /\ next' = [next EXCEPT ![c] = 1] /\ buffer' = buffer
  BY DEF BroadcastLock, Goto
<1>2. pc \in [Conns -> Labels] /\ next \in [Conns -> Nat] /\ buffer \in [Conns -> Seq(Lines)]
  BY DEF Typed, OwnInv, ProgramTypeOK
<1>3. \A d \in Conns : pc'[d] = "send" => d = c
  BY <1>1, <1>2, SocketAssumption DEF SendInv, SocketAssumption
<1>4. log' = Append(log, buffer[c])
  BY <1>1, <1>2, <1>3 DEF Log, Logs
<1>5. log' # <<>> /\ log'[Len(log')] = buffer[c]
  <2>1. log \in Seq(Seq(Lines)) /\ buffer[c] \in Seq(Lines)
    BY <1>2 DEF Typed
  <2> QED  BY <1>4, <2>1, LastOfAppend
<1> QED  BY <1>1, <1>2, <1>3, <1>5 DEF SendInv

LEMMA SendHandler ==
  ASSUME Typed, SendInv, NEW c \in Conns, HandlerNext(c), Log PROVE SendInv'
<1> USE DEF Goto, Labels
<1>1. pc \in [Conns -> Labels] /\ next \in [Conns -> Nat] /\ buffer \in [Conns -> Seq(Lines)]
  BY DEF Typed, OwnInv, ProgramTypeOK
<1>2. CASE Receive(c)
  BY <1>1, <1>2, SendMoves, "lock" \in Labels \ {"send"} DEF Receive
<1>3. CASE Disconnected(c)
  BY <1>3, SendMoves, "close" \in Labels \ {"send"} DEF Disconnected
<1>4. CASE BroadcastLock(c)
  BY <1>4, SendLock
<1>5. CASE BroadcastSend(c)
  BY <1>1, <1>5, SendStays DEF BroadcastSend
<1>6. CASE BroadcastUnlock(c)
  BY <1>6, SendMoves, "recv" \in Labels \ {"send"} DEF BroadcastUnlock
<1>7. CASE BroadcastSigpipe(c)
  BY <1>7, SendStays DEF BroadcastSigpipe, handler_vars
<1>8. CASE CloseSocket(c)
  BY <1>8, SendMoves, "remove" \in Labels \ {"send"} DEF CloseSocket
<1>9. CASE RemoveClient(c)
  BY <1>9, SendMoves, "done" \in Labels \ {"send"} DEF RemoveClient
<1> QED  BY <1>2, <1>3, <1>4, <1>5, <1>6, <1>7, <1>8, <1>9 DEF HandlerNext

LEMMA SendMain == ASSUME Typed, SendInv, MainNext, Log PROVE SendInv'
<1>1. CASE MainAccept
  BY <1>1, SendStays DEF MainAccept, handler_vars
<1>2. CASE MainRegister
  BY <1>2, SendStays DEF MainRegister, handler_vars
<1>3. CASE MainCreate
  <2>1. running /\ main_pc = "create" /\ UNCHANGED <<clients_mutex, buffer, next>>
        /\ pc' = [pc EXCEPT ![descriptor[client_socket]] = "recv"]
    BY <1>3 DEF MainCreate, Goto
  <2>2. descriptor[client_socket] \in Conns
    BY <2>1 DEF Typed, OwnInv, Ownership, MainHolds
  <2> QED  BY <2>1, <2>2, SendMoves, "recv" \in Labels \ {"send"} DEF Labels
<1>4. CASE MainCreateFails
  BY <1>4, SendStays DEF MainCreateFails, handler_vars
<1> QED  BY <1>1, <1>2, <1>3, <1>4 DEF MainNext

LEMMA SendNext == Typed /\ SendInv /\ [Next]_vars => SendInv'
<1> SUFFICES ASSUME Typed, SendInv, [Next]_vars PROVE SendInv'
  OBVIOUS
<1>1. CASE Server
  BY <1>1, SendHandler, SendMain DEF Server, ServerNext
<1>2. CASE UNCHANGED <<server_vars, log>>
  BY <1>2 DEF SendInv, server_vars, handler_vars
<1> QED  BY <1>1, <1>2 DEF Next, Client, vars

-----------------------------------------------------------------------------
(***************************************************************************)
(* Nobody hears himself because a handler has received lines of its own    *)
(* client only, and no other number than the one it skips leads to him.    *)
(***************************************************************************)
LinesOf(s, c) == \A k \in DOMAIN s : s[k][1] = c

ForeignTo(s, c) == \A k \in DOMAIN s : \A i \in DOMAIN s[k] : s[k][i][1] # c

EchoInv ==
  \A c \in Conns : /\ LinesOf(inq[c], c) /\ LinesOf(buffer[c], c)
                   /\ ForeignTo(shown[c], c) /\ ForeignTo(outq[c], c)

\* A step that leaves the queues, the buffers and the screens alone.
LEMMA EchoUnchanged ==
  ASSUME EchoInv, UNCHANGED <<inq, buffer, shown, outq>> PROVE EchoInv'
BY DEF EchoInv

LEMMA EchoReceive ==
  ASSUME OwnInv, EchoInv, NEW c \in Conns, Receive(c), UNCHANGED client_vars
  PROVE  EchoInv'
<1>1. descriptor[socket[c]] = c
  BY DEF Receive, OwnInv, Ownership, HandlersHold, Holds, InLoop
<1>2. PICK n \in 1..Len(inq[c]) :
        /\ inq' = [inq EXCEPT ![c] = SubSeq(inq[c], n + 1, Len(inq[c]))]
        /\ buffer' = [buffer EXCEPT ![c] = SubSeq(inq[c], 1, n)]
        /\ UNCHANGED outq
  BY <1>1 DEF Receive, RecvData
<1>3. inq[c] \in Seq(Lines) /\ LinesOf(inq[c], c)
  BY DEF OwnInv, ProgramTypeOK, EchoInv
<1>4. /\ LinesOf(SubSeq(inq[c], n + 1, Len(inq[c])), c)
      /\ LinesOf(SubSeq(inq[c], 1, n), c)
  BY <1>3 DEF LinesOf
<1>5. inq \in [Conns -> Seq(Lines)] /\ buffer \in [Conns -> Seq(Lines)] /\ shown' = shown
  BY DEF OwnInv, ProgramTypeOK, client_vars
<1> QED  BY <1>2, <1>4, <1>5 DEF EchoInv

LEMMA EchoSend ==
  ASSUME OwnInv, SendInv, EchoInv, NEW c \in Conns, BroadcastSend(c), UNCHANGED client_vars
  PROVE  EchoInv'
<1> DEFINE f == client_sockets[next[c]]
           d == descriptor[f]
<1>1. running /\ pc[c] = "send" /\ next[c] <= Len(client_sockets)
      /\ inq' = inq /\ buffer' = buffer /\ shown' = shown
  BY DEF BroadcastSend, Send, socket_vars, client_vars
<1>2. CASE outq' = outq
  BY <1>1, <1>2 DEF EchoInv
<1>3. CASE f # socket[c] /\ d \in Conns /\ outq' = [outq EXCEPT ![d] = Append(outq[d], buffer[c])]
  <2>1. d # c
    <3>1. socket[c] \in Fds /\ descriptor[socket[c]] = c
      BY <1>1 DEF OwnInv, Ownership, HandlersHold, Holds, InLoop
    <3>2. CASE f \in Fds
      BY <1>1, <1>3, <3>1, <3>2, SocketAssumption
      DEF SocketAssumption, OwnInv, Ownership, OneNumberEach
    <3>3. f \in Fds
      <4>1. client_sockets \in Seq(Fds) /\ next[c] \in Nat
        BY DEF OwnInv, ProgramTypeOK
      <4>2. next[c] # 0
        BY <1>1 DEF SendInv
      <4> QED  BY <1>1, <4>1, <4>2
    <3> QED  BY <3>2, <3>3
  <2>2. /\ ForeignTo(outq[d], d) /\ LinesOf(buffer[c], c)
        /\ outq \in [Conns -> Seq(Seq(Lines))] /\ buffer[c] \in Seq(Lines)
    BY <1>3 DEF EchoInv, OwnInv, ProgramTypeOK
  <2>3. ForeignTo(Append(outq[d], buffer[c]), d)
    BY <1>3, <2>1, <2>2 DEF ForeignTo, LinesOf
  <2> QED  BY <1>1, <1>3, <2>2, <2>3 DEF EchoInv
<1> QED  BY <1>2, <1>3 DEF BroadcastSend, Send, socket_vars

-----------------------------------------------------------------------------

LEMMA EchoServer ==
  ASSUME Typed, SendInv, EchoInv, Server PROVE EchoInv'
<1>1. ASSUME NEW c \in Conns, HandlerNext(c), UNCHANGED client_vars PROVE EchoInv'
  <2>1. CASE Receive(c)
    BY <1>1, <2>1, EchoReceive DEF Typed
  <2>2. CASE BroadcastSend(c)
    BY <1>1, <2>2, EchoSend DEF Typed
  <2>3. CASE ~Receive(c) /\ ~BroadcastSend(c)
    <3>1. UNCHANGED <<inq, buffer, outq, shown>>
      BY <1>1, <2>3
      DEF HandlerNext, Disconnected, BroadcastLock, BroadcastUnlock, BroadcastSigpipe,
          CloseSocket, RemoveClient, RecvEnd, SendSigpipe, Close, socket_vars,
          handler_vars, client_vars
    <3> QED  BY <3>1, EchoUnchanged
  <2> QED  BY <2>1, <2>2, <2>3
<1>2. CASE MainNext /\ UNCHANGED client_vars
  <2>1. UNCHANGED <<inq, buffer, outq, shown>>
    BY <1>2 DEF MainNext, MainAccept, MainRegister, MainCreate, MainCreateFails, Accept,
                Close, socket_vars, handler_vars, client_vars
  <2> QED  BY <2>1, EchoUnchanged
<1> QED  BY <1>1, <1>2 DEF Server, ServerNext

LEMMA EchoLine ==
  ASSUME Typed, EchoInv, NEW c \in Conns, NEW n \in Nat, Line(c, n) \in Lines,
         SendLine(c, Line(c, n), Hungup(c)), UNCHANGED buffer
  PROVE  EchoInv'
<1>1. UNCHANGED <<shown, outq>> /\ (inq' = inq \/ inq' = [inq EXCEPT ![c] = Append(inq[c], Line(c, n))])
  BY DEF SendLine
<1>2. inq \in [Conns -> Seq(Lines)] /\ LinesOf(inq[c], c)
  BY DEF Typed, OwnInv, ProgramTypeOK, EchoInv
<1>3. LinesOf(Append(inq[c], Line(c, n)), c)
  BY <1>2 DEF LinesOf, Line
<1> QED  BY <1>1, <1>2, <1>3 DEF EchoInv

LEMMA EchoClient == ASSUME Typed, EchoInv, NEW c \in Conns, Client(c) PROVE EchoInv'
<1> USE ChatClientAssumption DEF ChatClientAssumption
<1>1. /\ buffer' = buffer
      /\ outq \in [Conns -> Seq(Seq(Lines))] /\ shown \in [Conns -> Seq(Seq(Lines))]
  BY DEF Client, server_vars, handler_vars, Typed, OwnInv, ProgramTypeOK
<1>2. CASE Keyboard(c, Hungup(c))
  <2>1. Line(c, sent[c] + 1) \in Lines /\ sent[c] + 1 \in Nat
    BY <1>2 DEF Keyboard, Line, Lines, Typed, OwnInv, ProgramTypeOK
  <2> QED  BY <1>1, <1>2, <2>1, EchoLine DEF Keyboard
<1>3. CASE KeyboardAtEnd(c, Hungup(c))
  <2>1. Line(c, sent[c]) \in Lines /\ sent[c] \in Nat
    BY <1>3 DEF KeyboardAtEnd, Line, Lines, Typed, OwnInv, ProgramTypeOK
  <2> QED  BY <1>1, <1>3, <2>1, EchoLine DEF KeyboardAtEnd
<1>4. CASE Display(c)
  <2>1. outq[c] # <<>> /\ ForeignTo(outq[c], c) /\ ForeignTo(shown[c], c)
        /\ outq[c] \in Seq(Seq(Lines)) /\ shown[c] \in Seq(Seq(Lines))
    BY <1>1, <1>4 DEF Display, EchoInv
  <2>2. ForeignTo(Tail(outq[c]), c)
    BY <2>1, ElementsOfTail DEF ForeignTo
  <2>3. ForeignTo(Append(shown[c], Head(outq[c])), c)
    <3>1. Head(outq[c]) = outq[c][1] /\ 1 \in DOMAIN outq[c] /\ Head(outq[c]) \in Seq(Lines)
      BY <2>1
    <3> QED  BY <2>1, <3>1, ElementsOfAppend DEF ForeignTo
  <2> QED  BY <1>1, <1>4, <2>2, <2>3 DEF Display, EchoInv
<1>5. CASE Leave(c)
  <2>1. ForeignTo(<<>>, c)
    BY DEF ForeignTo
  <2> QED  BY <1>1, <1>5, <2>1 DEF Leave, EchoInv
<1>6. CASE Connect(c) \/ ServerDisconnected(c, Hungup(c))
  BY <1>1, <1>6, EchoUnchanged DEF Connect, ServerDisconnected, socket_vars
<1> QED  BY <1>2, <1>3, <1>4, <1>5, <1>6 DEF Client, ClientNext

RoomInv == Typed /\ SendInv /\ EchoInv

LEMMA RoomInvariant == Spec => []RoomInv
<1>1. Init => SendInv /\ EchoInv
  BY DEF Init, SocketInit, ServerInit, ClientInit, SendInv, EchoInv, LinesOf, ForeignTo
<1>2. Typed /\ SendInv /\ EchoInv /\ [Next]_vars => SendInv' /\ EchoInv'
  <2>1. Typed /\ EchoInv /\ UNCHANGED vars => EchoInv'
    BY EchoUnchanged DEF vars, socket_vars, server_vars, handler_vars, client_vars
  <2> QED  BY <2>1, SendNext, EchoServer, EchoClient DEF Next
<1>3. Spec => []Typed
  BY OwnInvariant, LogTyped, PTL DEF Typed
<1> QED  BY <1>1, <1>2, <1>3, PTL DEF Spec, RoomInv

(***************************************************************************)
(* No client is ever sent a line of its own, however numbers are reused.   *)
(***************************************************************************)
THEOREM NobodyHearsHimself == Spec => []NoEcho
<1>1. RoomInv => NoEcho
  <2> SUFFICES ASSUME RoomInv, NEW c \in Conns, NEW n \in 1..MaxLines,
                      NEW k \in DOMAIN Delivered(c), Contains(Delivered(c)[k], Line(c, n))
               PROVE  FALSE
    BY DEF NoEcho, LinesFrom
  <2>1. /\ shown[c] \in Seq(Seq(Lines)) /\ outq[c] \in Seq(Seq(Lines))
        /\ ForeignTo(shown[c], c) /\ ForeignTo(outq[c], c)
    BY DEF RoomInv, Typed, OwnInv, ProgramTypeOK, EchoInv
  <2>2. ForeignTo(Delivered(c), c)
    <3>1. ASSUME NEW j \in DOMAIN Delivered(c), NEW i \in DOMAIN Delivered(c)[j]
          PROVE  Delivered(c)[j][i][1] # c
      <4>1. \/ j \in DOMAIN shown[c] /\ Delivered(c)[j] = shown[c][j]
            \/ j - Len(shown[c]) \in DOMAIN outq[c] /\ Delivered(c)[j] = outq[c][j - Len(shown[c])]
        BY <2>1, ElementsOfConcat DEF Delivered
      <4> QED  BY <2>1, <3>1, <4>1 DEF ForeignTo
    <3> QED  BY <3>1 DEF ForeignTo
  <2>3. Delivered(c)[k] \in Seq(Lines)
    <3>1. Delivered(c) \in Seq(Seq(Lines))
      BY <2>1 DEF Delivered
    <3> QED  BY <3>1
  <2> QED  BY <2>2, <2>3 DEF ForeignTo, Contains, Line
<1> QED  BY <1>1, RoomInvariant, PTL

-----------------------------------------------------------------------------
(* The order of the messages.                                              *)

LEMMA OrderedLonger ==
  ASSUME NEW S, NEW s \in Seq(S), NEW l \in Seq(S), NEW x \in S, OrderedBy(s, l)
  PROVE  OrderedBy(s, Append(l, x))
<1>1. PICK at \in [DOMAIN s -> DOMAIN l] :
        /\ \A k \in DOMAIN s : l[at[k]] = s[k]
        /\ \A j, k \in DOMAIN s : j <= k => at[j] <= at[k]
  BY DEF OrderedBy
<1>2. \A i \in DOMAIN l : i \in DOMAIN Append(l, x) /\ Append(l, x)[i] = l[i]
  OBVIOUS
<1>3. at \in [DOMAIN s -> DOMAIN Append(l, x)]
  BY <1>1, <1>2
<1>4. \A k \in DOMAIN s : Append(l, x)[at[k]] = s[k]
  BY <1>1, <1>2
<1> QED  BY <1>1, <1>3, <1>4 DEF OrderedBy

LEMMA OrderedAppend ==
  ASSUME NEW S, NEW s \in Seq(S), NEW l \in Seq(S), l # <<>>, OrderedBy(s, l)
  PROVE  OrderedBy(Append(s, l[Len(l)]), l)
<1> DEFINE m == l[Len(l)]
           t == Append(s, m)
<1>1. PICK at \in [DOMAIN s -> DOMAIN l] :
        /\ \A k \in DOMAIN s : l[at[k]] = s[k]
        /\ \A j, k \in DOMAIN s : j <= k => at[j] <= at[k]
  BY DEF OrderedBy
<1> DEFINE to == [k \in DOMAIN t |-> IF k \in DOMAIN s THEN at[k] ELSE Len(l)]
<1>2. Len(l) \in DOMAIN l /\ m \in S /\ DOMAIN l = 1..Len(l) /\ Len(l) \in Nat
  OBVIOUS
<1>3. /\ DOMAIN s = 1..Len(s) /\ DOMAIN t = 1..(Len(s) + 1) /\ Len(s) \in Nat
      /\ t[Len(s) + 1] = m /\ \A k \in DOMAIN s : t[k] = s[k]
  BY <1>2
<1>4. to \in [DOMAIN t -> DOMAIN l]
  BY <1>1, <1>2
<1>5. \A k \in DOMAIN t : l[to[k]] = t[k]
  BY <1>1, <1>2, <1>3
<1>6. ASSUME NEW j \in DOMAIN t, NEW k \in DOMAIN t, j <= k PROVE to[j] <= to[k]
  <2>1. CASE k \in DOMAIN s
    BY <1>1, <1>3, <1>6, <2>1
  <2>2. CASE k \notin DOMAIN s
    <3>1. to[k] = Len(l) /\ to[j] \in DOMAIN l
      BY <1>4, <2>2
    <3> QED  BY <1>2, <3>1
  <2> QED  BY <2>1, <2>2
<1> QED  BY <1>4, <1>5, <1>6 DEF OrderedBy

LEMMA OrderedPrefix ==
  ASSUME NEW S, NEW s \in Seq(S), NEW t \in Seq(S), NEW l \in Seq(S), OrderedBy(s \o t, l)
  PROVE  OrderedBy(s, l)
<1>1. PICK at \in [DOMAIN (s \o t) -> DOMAIN l] :
        /\ \A k \in DOMAIN (s \o t) : l[at[k]] = (s \o t)[k]
        /\ \A j, k \in DOMAIN (s \o t) : j <= k => at[j] <= at[k]
  BY DEF OrderedBy
<1>2. \A k \in DOMAIN s : k \in DOMAIN (s \o t) /\ (s \o t)[k] = s[k]
  OBVIOUS
<1> DEFINE to == [k \in DOMAIN s |-> at[k]]
<1>3. to \in [DOMAIN s -> DOMAIN l]
  <2>1. \A k \in DOMAIN s : at[k] \in DOMAIN l
    BY <1>1, <1>2
  <2> QED  BY <2>1
<1>4. /\ \A k \in DOMAIN s : l[to[k]] = s[k]
      /\ \A j, k \in DOMAIN s : j <= k => to[j] <= to[k]
  BY <1>1, <1>2
<1> QED  BY <1>3, <1>4 DEF OrderedBy

LEMMA MoveHead ==
  ASSUME NEW S, NEW s \in Seq(S), NEW q \in Seq(S), q # <<>>
  PROVE  Append(s, Head(q)) \o Tail(q) = s \o q
<1>1. Head(q) \in S /\ Tail(q) \in Seq(S) /\ Len(Tail(q)) + 1 = Len(q)
      /\ Head(q) = q[1] /\ \A i \in 1..Len(Tail(q)) : Tail(q)[i] = q[i + 1]
  BY Seqs!HeadTailProperties
<1>2. Append(s, Head(q)) \in Seq(S) /\ Len(Append(s, Head(q))) = Len(s) + 1
      /\ \A i \in 1..Len(s) : Append(s, Head(q))[i] = s[i]
      /\ Append(s, Head(q))[Len(s) + 1] = q[1]
  BY <1>1, Seqs!AppendProperties
<1> DEFINE a == Append(s, Head(q))
           b == Tail(q)
<1> HIDE DEF a, b
<1>3. a \o b \in Seq(S) /\ Len(a \o b) = Len(s) + Len(q) /\ Len(s) \in Nat
      /\ \A i \in 1..(Len(s) + Len(q)) : (a \o b)[i] =
            IF i <= Len(s) + 1 THEN a[i] ELSE b[i - (Len(s) + 1)]
  BY <1>1, <1>2, Seqs!ConcatProperties DEF a, b
<1>4. s \o q \in Seq(S) /\ Len(s \o q) = Len(s) + Len(q)
      /\ \A i \in 1..(Len(s) + Len(q)) : (s \o q)[i] =
            IF i <= Len(s) THEN s[i] ELSE q[i - Len(s)]
  BY Seqs!ConcatProperties
<1>5. ASSUME NEW i \in 1..(Len(s) + Len(q)) PROVE (a \o b)[i] = (s \o q)[i]
  BY <1>1, <1>2, <1>3, <1>4 DEF a, b
<1> QED  BY <1>3, <1>4, <1>5, Seqs!SeqEqual DEF a, b

LEMMA AppendToConcat ==
  ASSUME NEW S, NEW s \in Seq(S), NEW q \in Seq(S), NEW x \in S
  PROVE  s \o Append(q, x) = Append(s \o q, x)
<1>1. s \o q \in Seq(S) /\ <<x>> \in Seq(S)
  BY Seqs!ConcatProperties
<1>2. Append(q, x) = q \o <<x>> /\ Append(s \o q, x) = (s \o q) \o <<x>>
  BY <1>1, Seqs!AppendIsConcat
<1> QED  BY <1>1, <1>2, Seqs!ConcatAssociative

\* What TotalOrder says of the next state.
LEMMA OrderNext ==
  ASSUME \A c \in Conns : OrderedBy(shown'[c] \o outq'[c], log') PROVE TotalOrder'
BY DEF TotalOrder, Delivered, OrderedBy

LEMMA OrderUnchanged ==
  ASSUME TotalOrder, UNCHANGED <<shown, outq, log>> PROVE TotalOrder'
<1>1. \A c \in Conns : OrderedBy(shown[c] \o outq[c], log)
  BY DEF TotalOrder, Delivered
<1> QED  BY <1>1, OrderNext

LEMMA OrderLock ==
  ASSUME Typed, TotalOrder, NEW c \in Conns, log' = Append(log, buffer[c]),
         UNCHANGED <<shown, outq>>
  PROVE  TotalOrder'
<1> SUFFICES ASSUME NEW d \in Conns
             PROVE  OrderedBy(shown[d] \o outq[d], Append(log, buffer[c]))
  BY OrderNext
<1>1. /\ shown[d] \o outq[d] \in Seq(Seq(Lines)) /\ log \in Seq(Seq(Lines))
      /\ buffer[c] \in Seq(Lines) /\ OrderedBy(shown[d] \o outq[d], log)
  BY DEF Typed, OwnInv, ProgramTypeOK, Delivered, TotalOrder
<1> QED  BY <1>1, OrderedLonger

LEMMA OrderSend ==
  ASSUME Typed, SendInv, TotalOrder, NEW c \in Conns, BroadcastSend(c), Log,
         UNCHANGED client_vars
  PROVE  TotalOrder'
<1>1. pc[c] = "send" /\ pc' = pc /\ shown' = shown
  BY DEF BroadcastSend, client_vars
<1>2. log' = log
  BY <1>1 DEF Log, Logs
<1>3. CASE outq' = outq
  BY <1>1, <1>2, <1>3, OrderUnchanged
<1>4. ASSUME NEW d \in Conns, outq' = [outq EXCEPT ![d] = Append(outq[d], buffer[c])]
      PROVE  TotalOrder'
  <2>1. /\ shown[d] \in Seq(Seq(Lines)) /\ outq[d] \in Seq(Seq(Lines))
        /\ log \in Seq(Seq(Lines)) /\ buffer[c] \in Seq(Lines)
        /\ outq \in [Conns -> Seq(Seq(Lines))]
    BY DEF Typed, OwnInv, ProgramTypeOK
  <2>2. log # <<>> /\ log[Len(log)] = buffer[c]
    BY <1>1 DEF SendInv
  <2>3. OrderedBy(Append(Delivered(d), buffer[c]), log)
    <3>1. OrderedBy(Delivered(d), log) /\ Delivered(d) \in Seq(Seq(Lines))
      BY <2>1 DEF TotalOrder, Delivered
    <3> QED  BY <2>1, <2>2, <3>1, OrderedAppend
  <2>4. shown[d] \o Append(outq[d], buffer[c]) = Append(Delivered(d), buffer[c])
    <3>1. ASSUME NEW s \in Seq(Seq(Lines)), NEW q \in Seq(Seq(Lines)), NEW x \in Seq(Lines)
          PROVE  s \o Append(q, x) = Append(s \o q, x)
      BY AppendToConcat
    <3> QED  BY <2>1, <3>1 DEF Delivered
  <2>5. ASSUME NEW e \in Conns PROVE OrderedBy(shown[e] \o outq'[e], log)
    <3>1. CASE e = d
      BY <1>4, <2>1, <2>3, <2>4, <3>1
    <3>2. CASE e # d
      BY <1>4, <2>1, <3>2 DEF TotalOrder, Delivered
    <3> QED  BY <3>1, <3>2
  <2> QED  BY <1>1, <1>2, <2>5, OrderNext
<1> QED  BY <1>3, <1>4 DEF BroadcastSend, Send, socket_vars

LEMMA OrderServer == ASSUME Typed, SendInv, TotalOrder, Server PROVE TotalOrder'
<1>1. ASSUME NEW c \in Conns, HandlerNext(c), UNCHANGED client_vars PROVE TotalOrder'
  <2>1. CASE BroadcastSend(c)
    BY <1>1, <2>1, OrderSend DEF Server
  <2>2. CASE ~BroadcastSend(c)
    <3>1. UNCHANGED <<outq, shown>>
      BY <1>1, <2>2
      DEF HandlerNext, Receive, RecvData, Disconnected, BroadcastLock, BroadcastUnlock,
          BroadcastSigpipe, CloseSocket, RemoveClient, RecvEnd, SendSigpipe, Close,
          socket_vars, client_vars
    <3> QED  BY <3>1, OrderLock, OrderUnchanged DEF Server, Log, Logs
  <2> QED  BY <2>1, <2>2
<1>2. CASE MainNext /\ UNCHANGED client_vars
  <2>1. UNCHANGED <<outq, shown>>
    BY <1>2 DEF MainNext, MainAccept, MainRegister, MainCreate, MainCreateFails, Accept,
                Close, socket_vars, client_vars
  <2> QED  BY <2>1, OrderLock, OrderUnchanged DEF Server, Log, Logs
<1> QED  BY <1>1, <1>2 DEF Server, ServerNext

LEMMA OrderClient == ASSUME Typed, TotalOrder, NEW c \in Conns, Client(c) PROVE TotalOrder'
<1>1. /\ log' = log /\ log \in Seq(Seq(Lines))
      /\ outq \in [Conns -> Seq(Seq(Lines))] /\ shown \in [Conns -> Seq(Seq(Lines))]
  BY DEF Client, Typed, OwnInv, ProgramTypeOK
<1>2. CASE Display(c)
  <2>1. \A d \in Conns : shown'[d] \o outq'[d] = shown[d] \o outq[d]
    <3>1. /\ outq[c] # <<>> /\ outq' = [outq EXCEPT ![c] = Tail(outq[c])]
          /\ shown' = [shown EXCEPT ![c] = Append(shown[c], Head(outq[c]))]
      BY <1>2 DEF Display
    <3>2. Append(shown[c], Head(outq[c])) \o Tail(outq[c]) = shown[c] \o outq[c]
      BY <1>1, <3>1, MoveHead
    <3> QED  BY <1>1, <3>1, <3>2
  <2> QED  BY <1>1, <2>1, OrderNext DEF TotalOrder, Delivered
<1>3. CASE Leave(c)
  <2>1. ASSUME NEW d \in Conns PROVE OrderedBy(shown[d] \o outq'[d], log)
    <3>1. CASE d = c
      <4>1. outq'[c] = <<>> /\ shown[c] \o <<>> = shown[c]
        BY <1>1, <1>3 DEF Leave
      <4>2. OrderedBy(shown[c] \o outq[c], log)
        BY DEF TotalOrder, Delivered
      <4>3. OrderedBy(shown[c], log)
        BY <1>1, <4>2, OrderedPrefix
      <4> QED  BY <3>1, <4>1, <4>3
    <3>2. CASE d # c
      BY <1>1, <1>3, <3>2 DEF Leave, TotalOrder, Delivered
    <3> QED  BY <3>1, <3>2
  <2> QED  BY <1>1, <1>3, <2>1, OrderNext DEF Leave
<1>4. CASE UNCHANGED <<shown, outq>>
  BY <1>1, <1>4, OrderUnchanged
<1> QED
  BY <1>2, <1>3, <1>4
  DEF Client, ClientNext, Connect, Keyboard, KeyboardAtEnd, SendLine,
      ServerDisconnected, socket_vars

(***************************************************************************)
(* All clients are sent the messages in the order of the log, which is     *)
(* that in which the handlers got the mutex.                               *)
(***************************************************************************)
THEOREM MessagesInOneOrder == Spec => []TotalOrder
<1>1. Init => TotalOrder
  <2> SUFFICES ASSUME Init PROVE TotalOrder
    OBVIOUS
  <2>1. \A c \in Conns : Delivered(c) = <<>> /\ log = <<>>
    <3>1. \A c \in Conns : shown[c] = <<>> /\ outq[c] = <<>> /\ log = <<>>
      BY DEF Init, SocketInit, ClientInit
    <3>2. <<>> \o <<>> = <<>>
      BY <<>> \in Seq({}), Seqs!ConcatEmptySeq
    <3> QED  BY <3>1, <3>2 DEF Delivered
  <2>2. OrderedBy(<<>>, <<>>)
    <3>1. [k \in DOMAIN <<>> |-> k] \in [DOMAIN <<>> -> DOMAIN <<>>] /\ DOMAIN <<>> = {}
      OBVIOUS
    <3> QED  BY <3>1 DEF OrderedBy
  <2> QED  BY <2>1, <2>2 DEF TotalOrder
<1>2. RoomInv /\ TotalOrder /\ [Next]_vars => TotalOrder'
  <2>1. TotalOrder /\ UNCHANGED vars => TotalOrder'
    BY OrderUnchanged DEF vars, socket_vars, client_vars
  <2> QED  BY <2>1, OrderServer, OrderClient DEF Next, RoomInv
<1> QED  BY <1>1, <1>2, RoomInvariant, PTL DEF Spec

-----------------------------------------------------------------------------
(***************************************************************************)
(* While a handler is in the broadcast loop, the clients to which one of   *)
(* the entries behind its index leads have the message.  The number main   *)
(* has in hand is left out: it was given out again after its old entry was *)
(* passed, and main cannot register it before the loop has ended.          *)
(***************************************************************************)
KnownToServer == \A c \in Conns : c \in accepted => peer[c] # "new"

LeadsTo(k, d) == /\ k \in DOMAIN client_sockets /\ descriptor[client_sockets[k]] = d
                 /\ ~(main_pc = "register" /\ client_socket = client_sockets[k])

Passed(c, d, k) ==
  pc[c] = "send" /\ d # c /\ peer[d] = "open" /\ k < next[c] /\ LeadsTo(k, d)

Reached ==
  running => \A c, d \in Conns, k \in Nat : Passed(c, d, k) => Contains(Delivered(d), buffer[c])

\* A step after which no entry has been passed that was not before.
LEMMA ReachedKept ==
  ASSUME Reached, running' => running,
         \A c, d \in Conns, k \in Nat :
           Passed(c, d, k)' => /\ Passed(c, d, k) /\ buffer'[c] = buffer[c]
                               /\ Contains(Delivered(d), buffer[c]) => Contains(Delivered(d)', buffer[c])
  PROVE  Reached'
BY DEF Reached

LEMMA ContainsAppend ==
  ASSUME NEW S, NEW s \in Seq(S), NEW x \in S
  PROVE  Contains(Append(s, x), x) /\ \A m : Contains(s, m) => Contains(Append(s, x), m)
<1>1. /\ Append(s, x) \in Seq(S) /\ Len(s) \in Nat /\ Len(Append(s, x)) = Len(s) + 1
      /\ Append(s, x)[Len(s) + 1] = x /\ \A i \in 1..Len(s) : Append(s, x)[i] = s[i]
  OBVIOUS
<1>2. Len(s) + 1 \in 1..Len(Append(s, x)) /\ \A i \in 1..Len(s) : i \in 1..Len(Append(s, x))
  BY <1>1
<1> QED  BY <1>1, <1>2 DEF Contains

\* A handler moves on to a place outside the loop, and no entry moves.
LEMMA ReachedMoves ==
  ASSUME Typed, Reached, NEW c \in Conns, NEW label \in Labels \ {"send"},
         pc' = [pc EXCEPT ![c] = label],
         \A d \in Conns \ {c} : next'[d] = next[d] /\ buffer'[d] = buffer[d],
         \A f \in Fds : descriptor'[f] = descriptor[f] \/ descriptor'[f] = NoConn,
         \/ main_vars' = main_vars
         \/ main_pc = "create" /\ descriptor' = descriptor,
         UNCHANGED <<running, client_sockets, peer, shown, outq>>
  PROVE  Reached'
<1>1. client_sockets \in Seq(Fds) /\ pc \in [Conns -> Labels] /\ NoConn \notin Conns
  BY SocketAssumption DEF Typed, OwnInv, ProgramTypeOK, SocketAssumption
<1>2. ASSUME NEW e \in Conns, NEW d \in Conns, NEW k \in Nat, Passed(e, d, k)'
      PROVE  Passed(e, d, k) /\ buffer'[e] = buffer[e]
  <2>1. /\ pc'[e] = "send" /\ d # e /\ peer[d] = "open" /\ k < next'[e]
        /\ k \in DOMAIN client_sockets /\ descriptor'[client_sockets[k]] = d
        /\ ~(main_pc' = "register" /\ client_socket' = client_sockets[k])
    BY <1>2 DEF Passed, LeadsTo
  <2>2. e # c /\ pc[e] = "send"
    BY <1>1, <2>1
  <2>3. client_sockets[k] \in Fds
    BY <1>1, <2>1
  <2>4. descriptor[client_sockets[k]] = d
    BY <1>1, <2>1, <2>3
  <2> QED  BY <2>1, <2>2, <2>4 DEF Passed, LeadsTo, main_vars
<1>3. \A d \in Conns : Delivered(d)' = Delivered(d)
  BY DEF Delivered
<1> QED  BY <1>2, <1>3, ReachedKept

\* A step taken while nobody is in the loop, or that begins it.
LEMMA ReachedIdle ==
  ASSUME \A c \in Conns : pc'[c] = "send" => next'[c] = 1, client_sockets' \in Seq(Fds)
  PROVE  Reached'
<1>1. ASSUME NEW c \in Conns, NEW d \in Conns, NEW k \in Nat, Passed(c, d, k)' PROVE FALSE
  <2>1. pc'[c] = "send" /\ k < next'[c] /\ k \in DOMAIN client_sockets'
    BY <1>1 DEF Passed, LeadsTo
  <2>2. k \in 1..Len(client_sockets') /\ next'[c] = 1
    BY <2>1
  <2> QED  BY <2>1, <2>2
<1> QED  BY <1>1 DEF Reached

LEMMA DeliveredMore ==
  ASSUME Typed, NEW d \in Conns, NEW x \in Seq(Lines),
         shown' = shown, outq'[d] = Append(outq[d], x)
  PROVE  Contains(Delivered(d)', x) /\ \A m : Contains(Delivered(d), m) => Contains(Delivered(d)', m)
<1>1. shown[d] \in Seq(Seq(Lines)) /\ outq[d] \in Seq(Seq(Lines))
  BY DEF Typed, OwnInv, ProgramTypeOK
<1>2. ASSUME NEW s \in Seq(Seq(Lines)), NEW q \in Seq(Seq(Lines))
      PROVE  s \o q \in Seq(Seq(Lines)) /\ s \o Append(q, x) = Append(s \o q, x)
  BY AppendToConcat
<1>3. Delivered(d) \in Seq(Seq(Lines)) /\ Delivered(d)' = Append(Delivered(d), x)
  BY <1>1, <1>2 DEF Delivered
<1> QED  BY <1>3, ContainsAppend

LEMMA ReachedSend ==
  ASSUME Typed, SendInv, Reached, NEW c \in Conns, BroadcastSend(c), UNCHANGED client_vars
  PROVE  Reached'
<1> DEFINE f == client_sockets[next[c]]
<1>1. /\ running /\ running' /\ pc[c] = "send" /\ next[c] <= Len(client_sockets)
      /\ next' = [next EXCEPT ![c] = @ + 1] /\ shown' = shown
      /\ UNCHANGED <<client_sockets, main_pc, client_socket, pc, buffer, descriptor>>
      /\ f # socket[c] => Send(descriptor[f], buffer[c])
      /\ f = socket[c] => UNCHANGED <<peer, outq>>
  BY DEF BroadcastSend, Send, socket_vars, main_vars, client_vars
<1>2. /\ next \in [Conns -> Nat] /\ outq \in [Conns -> Seq(Seq(Lines))] /\ buffer[c] \in Seq(Lines)
      /\ peer \in [Conns -> {"new", "open", "closed", "reset"}] /\ NoConn \notin Conns
  BY SocketAssumption DEF Typed, OwnInv, ProgramTypeOK, SocketAssumption
<1>3. socket[c] \in Fds /\ descriptor[socket[c]] = c
  BY <1>1 DEF Typed, OwnInv, Ownership, HandlersHold, Holds, InLoop
<1>4. \A d \in Conns : peer'[d] = "open" => peer[d] = "open"
  BY <1>1, <1>2 DEF Send
<1>5. \/ outq' = outq
      \/ \E d \in Conns : outq' = [outq EXCEPT ![d] = Append(outq[d], buffer[c])]
  BY <1>1 DEF Send
<1>6. ASSUME NEW d \in Conns, NEW m, Contains(Delivered(d), m) PROVE Contains(Delivered(d)', m)
  <2>1. CASE outq'[d] = outq[d]
    BY <1>1, <1>6, <2>1 DEF Delivered
  <2>2. CASE outq'[d] = Append(outq[d], buffer[c])
    BY <1>1, <1>2, <1>6, <2>2, DeliveredMore
  <2> QED  BY <1>2, <1>5, <2>1, <2>2
<1>7. ASSUME NEW d \in Conns, d # c, peer'[d] = "open", LeadsTo(next[c], d)
      PROVE  Contains(Delivered(d)', buffer[c])
  <2>1. descriptor[f] = d /\ f # socket[c]
    BY <1>3, <1>7 DEF LeadsTo
  <2>2. outq' = [outq EXCEPT ![d] = Append(outq[d], buffer[c])]
    BY <1>1, <1>2, <1>4, <1>7, <2>1 DEF Send
  <2>3. outq'[d] = Append(outq[d], buffer[c])
    BY <1>2, <2>2
  <2> QED  BY <1>1, <1>2, <2>3, DeliveredMore
<1>8. ASSUME NEW e \in Conns, NEW d \in Conns, NEW k \in Nat, Passed(e, d, k)'
      PROVE  Contains(Delivered(d)', buffer'[e])
  <2>1. /\ pc[e] = "send" /\ d # e /\ peer'[d] = "open" /\ k < next'[e] /\ LeadsTo(k, d)
    BY <1>1, <1>8 DEF Passed, LeadsTo
  <2>2. CASE k < next[e]
    BY <1>1, <1>4, <1>6, <2>1, <2>2 DEF Reached, Passed
  <2>3. CASE ~(k < next[e])
    <3>1. e = c /\ k = next[c]
      BY <1>1, <1>2, <2>1, <2>3
    <3> QED  BY <1>1, <1>7, <2>1, <3>1
  <2> QED  BY <2>2, <2>3
<1> QED  BY <1>8 DEF Reached

LEMMA ReachedHandler ==
  ASSUME Typed, SendInv, Reached, NEW c \in Conns, HandlerNext(c), UNCHANGED client_vars
  PROVE  Reached'
<1> USE DEF Goto, Labels, client_vars
<1>1. NoConn \notin Conns /\ client_sockets \in Seq(Fds) /\ descriptor \in [Fds -> Conns \cup {NoConn}]
      /\ pc \in [Conns -> Labels] /\ buffer \in [Conns -> Seq(Lines)] /\ next \in [Conns -> Nat]
  BY SocketAssumption DEF Typed, OwnInv, ProgramTypeOK, SocketAssumption
<1>2. CASE Receive(c)
  BY <1>1, <1>2, ReachedMoves, "lock" \in Labels \ {"send"} DEF Receive, RecvData
<1>3. CASE Disconnected(c)
  BY <1>3, ReachedMoves, "close" \in Labels \ {"send"} DEF Disconnected, RecvEnd, socket_vars
<1>4. CASE BroadcastLock(c)
  <2>1. \A e \in Conns : pc'[e] = "send" => e = c
    BY <1>1, <1>4 DEF BroadcastLock, SendInv
  <2>2. next'[c] = 1 /\ client_sockets' = client_sockets
    BY <1>1, <1>4 DEF BroadcastLock
  <2> QED  BY <1>1, <2>1, <2>2, ReachedIdle
<1>5. CASE BroadcastSend(c)
  BY <1>5, ReachedSend
<1>6. CASE BroadcastUnlock(c)
  BY <1>6, ReachedMoves, "recv" \in Labels \ {"send"} DEF BroadcastUnlock, socket_vars
<1>7. CASE BroadcastSigpipe(c)
  BY <1>7 DEF BroadcastSigpipe, Reached
<1>8. CASE CloseSocket(c)
  <2>1. \A f \in Fds : descriptor'[f] = descriptor[f] \/ descriptor'[f] = NoConn
    BY <1>1, <1>8 DEF CloseSocket, Close
  <2> QED  BY <1>8, <2>1, ReachedMoves, "remove" \in Labels \ {"send"} DEF CloseSocket, Close
<1>9. CASE RemoveClient(c)
  <2>1. \A e \in Conns : pc'[e] # "send"
    BY <1>1, <1>9 DEF RemoveClient, SendInv
  <2>2. client_sockets' \in Seq(Fds)
    <3>1. CASE UNCHANGED client_sockets
      BY <1>1, <3>1
    <3>2. ASSUME NEW k \in DOMAIN client_sockets, client_sockets' = RemoveAt(client_sockets, k)
          PROVE  client_sockets' \in Seq(Fds)
      BY <1>1, <3>2, Removed
    <3> QED  BY <1>9, <3>1, <3>2 DEF RemoveClient, Unregister
  <2> QED  BY <2>1, <2>2, ReachedIdle
<1> QED  BY <1>2, <1>3, <1>4, <1>5, <1>6, <1>7, <1>8, <1>9 DEF HandlerNext

LEMMA ReachedMain ==
  ASSUME Typed, SendInv, Reached, MainNext, UNCHANGED client_vars PROVE Reached'
<1> USE DEF Goto, Labels, client_vars
<1>1. NoConn \notin Conns /\ client_sockets \in Seq(Fds) /\ descriptor \in [Fds -> Conns \cup {NoConn}]
      /\ pc \in [Conns -> Labels]
  BY SocketAssumption DEF Typed, OwnInv, ProgramTypeOK, SocketAssumption
<1>2. CASE MainAccept
  <2>1. PICK f \in Fds, a \in Conns :
          /\ running /\ main_pc = "accept" /\ main_pc' = "register" /\ client_socket' = f
          /\ descriptor' = [descriptor EXCEPT ![f] = a]
          /\ UNCHANGED <<running, client_sockets, pc, buffer, next, peer, outq, shown>>
    BY <1>2 DEF MainAccept, Accept, handler_vars
  <2>2. ASSUME NEW e \in Conns, NEW d \in Conns, NEW k \in Nat, Passed(e, d, k)'
        PROVE  Passed(e, d, k)
    <3>1. /\ k \in DOMAIN client_sockets /\ client_sockets[k] # f /\ client_sockets[k] \in Fds
          /\ descriptor'[client_sockets[k]] = d
      BY <1>1, <2>1, <2>2 DEF Passed, LeadsTo
    <3>2. descriptor[client_sockets[k]] = d
      BY <1>1, <2>1, <3>1
    <3> QED  BY <2>1, <2>2, <3>1, <3>2 DEF Passed, LeadsTo
  <2>3. \A d \in Conns : Delivered(d)' = Delivered(d)
    BY <2>1 DEF Delivered
  <2> QED  BY <2>1, <2>2, <2>3, ReachedKept
<1>3. CASE MainRegister
  <2>1. \A e \in Conns : pc'[e] # "send"
    BY <1>1, <1>3 DEF MainRegister, SendInv, handler_vars
  <2>2. client_sockets' \in Seq(Fds)
    BY <1>1, <1>3 DEF MainRegister, Typed, OwnInv, Ownership, MainHolds
  <2> QED  BY <2>1, <2>2, ReachedIdle
<1>4. CASE MainCreate
  <2>1. descriptor[client_socket] \in Conns
    BY <1>4 DEF MainCreate, Typed, OwnInv, Ownership, MainHolds
  <2>2. /\ pc' = [pc EXCEPT ![descriptor[client_socket]] = "recv"]
        /\ main_pc = "create" /\ descriptor' = descriptor
        /\ UNCHANGED <<running, client_sockets, peer, shown, outq, next, buffer>>
    BY <1>4 DEF MainCreate, socket_vars
  <2> QED  BY <2>1, <2>2, ReachedMoves, "recv" \in Labels \ {"send"}
<1>5. CASE MainCreateFails
  <2>1. /\ \A f \in Fds : descriptor'[f] = descriptor[f] \/ descriptor'[f] = NoConn
        /\ main_pc = "create"
        /\ UNCHANGED <<running, client_sockets, pc, buffer, next, peer, outq, shown>>
    BY <1>1, <1>5 DEF MainCreateFails, Close, handler_vars
  <2>2. ASSUME NEW e \in Conns, NEW d \in Conns, NEW k \in Nat, Passed(e, d, k)'
        PROVE  Passed(e, d, k)
    <3>1. k \in DOMAIN client_sockets /\ client_sockets[k] \in Fds /\ descriptor'[client_sockets[k]] = d
      BY <1>1, <2>1, <2>2 DEF Passed, LeadsTo
    <3>2. descriptor[client_sockets[k]] = d
      BY <1>1, <2>1, <3>1
    <3> QED  BY <2>1, <2>2, <3>1, <3>2 DEF Passed, LeadsTo
  <2>3. \A d \in Conns : Delivered(d)' = Delivered(d)
    BY <2>1 DEF Delivered
  <2> QED  BY <2>1, <2>2, <2>3, ReachedKept
<1> QED  BY <1>2, <1>3, <1>4, <1>5 DEF MainNext

LEMMA ReachedClient ==
  ASSUME Typed, KnownToServer, Reached, NEW c \in Conns, Client(c) PROVE Reached'
<1>1. /\ UNCHANGED <<descriptor, running, client_sockets, main_pc, client_socket, pc, buffer, next>>
      /\ client_sockets \in Seq(Fds) /\ NoConn \notin Conns
      /\ peer \in [Conns -> {"new", "open", "closed", "reset"}]
      /\ outq \in [Conns -> Seq(Seq(Lines))] /\ shown \in [Conns -> Seq(Seq(Lines))]
  BY SocketAssumption
  DEF Client, ClientNext, Connect, Keyboard, KeyboardAtEnd, SendLine, Display,
      ServerDisconnected, Leave, server_vars, main_vars, handler_vars, socket_vars,
      SocketAssumption, Typed, OwnInv, ProgramTypeOK
<1>2. ASSUME NEW d \in Conns, peer'[d] = "open", d \in accepted
      PROVE  peer[d] = "open" /\ Delivered(d)' = Delivered(d)
  <2>1. CASE Display(c)
    <3>1. /\ outq[c] # <<>> /\ outq' = [outq EXCEPT ![c] = Tail(outq[c])] /\ peer' = peer
          /\ shown' = [shown EXCEPT ![c] = Append(shown[c], Head(outq[c]))]
      BY <2>1 DEF Display
    <3>2. Append(shown[c], Head(outq[c])) \o Tail(outq[c]) = shown[c] \o outq[c]
      <4>1. shown[c] \in Seq(Seq(Lines)) /\ outq[c] \in Seq(Seq(Lines)) /\ outq[c] # <<>>
        BY <1>1, <3>1
      <4> QED  BY <4>1, MoveHead
    <3>3. shown'[d] \o outq'[d] = shown[d] \o outq[d]
      BY <1>1, <3>1, <3>2
    <3> QED  BY <1>2, <3>1, <3>3 DEF Delivered
  <2>2. CASE Leave(c)
    <3>1. d # c
      BY <1>1, <1>2, <2>2 DEF Leave
    <3> QED  BY <1>1, <1>2, <2>2, <3>1 DEF Leave, Delivered
  <2>3. CASE Connect(c)
    <3>1. d # c
      BY <1>2, <2>3 DEF Connect, KnownToServer
    <3> QED  BY <1>1, <1>2, <2>3, <3>1 DEF Connect, Delivered
  <2>4. CASE Keyboard(c, Hungup(c)) \/ KeyboardAtEnd(c, Hungup(c)) \/ ServerDisconnected(c, Hungup(c))
    BY <1>1, <1>2, <2>4 DEF Keyboard, KeyboardAtEnd, SendLine, ServerDisconnected, socket_vars, Delivered
  <2> QED  BY <2>1, <2>2, <2>3, <2>4 DEF Client, ClientNext
<1>3. ASSUME NEW e \in Conns, NEW d \in Conns, NEW k \in Nat, Passed(e, d, k)', running
      PROVE  Passed(e, d, k) /\ Delivered(d)' = Delivered(d)
  <2>1. pc[e] = "send" /\ d # e /\ peer'[d] = "open" /\ k < next[e] /\ LeadsTo(k, d)
    BY <1>1, <1>3 DEF Passed, LeadsTo
  <2>2. d \in accepted
    <3>1. client_sockets[k] \in Fds /\ descriptor[client_sockets[k]] = d
      BY <1>1, <2>1 DEF LeadsTo
    <3> QED  BY <1>1, <1>3, <3>1 DEF Typed, OwnInv, Ownership, InUseAccepted
  <2> QED  BY <1>2, <2>1, <2>2 DEF Passed
<1>4. CASE ~running
  BY <1>1, <1>4 DEF Reached
<1>5. CASE running
  BY <1>1, <1>3, <1>5, ReachedKept
<1> QED  BY <1>4, <1>5

\* The server knows connections only that a client has made.
LEMMA KnownNext == Typed /\ KnownToServer /\ [Next]_vars => KnownToServer'
<1> SUFFICES ASSUME Typed, KnownToServer, [Next]_vars PROVE KnownToServer'
  OBVIOUS
<1>1. peer \in [Conns -> {"new", "open", "closed", "reset"}]
  BY DEF Typed, OwnInv, ProgramTypeOK
<1>2. CASE Server
  <2>1. \A c \in Conns : peer'[c] = "new" => peer[c] = "new"
    BY <1>1, <1>2
    DEF Server, ServerNext, MainNext, MainAccept, MainRegister, MainCreate, MainCreateFails,
        HandlerNext, Receive, RecvData, Disconnected, BroadcastLock, BroadcastSend,
        BroadcastUnlock, BroadcastSigpipe, CloseSocket, RemoveClient, RecvEnd, SendSigpipe,
        Send, Accept, Close, socket_vars
  <2>2. \A c \in Conns : c \in accepted' => c \in accepted \/ peer[c] # "new"
    BY <1>2
    DEF Server, ServerNext, MainNext, MainAccept, MainRegister, MainCreate, MainCreateFails,
        HandlerNext, Receive, RecvData, Disconnected, BroadcastLock, BroadcastSend,
        BroadcastUnlock, BroadcastSigpipe, CloseSocket, RemoveClient, RecvEnd, SendSigpipe,
        Send, Accept, Close, socket_vars
  <2> QED  BY <2>1, <2>2 DEF KnownToServer
<1>3. ASSUME NEW c \in Conns, Client(c) PROVE KnownToServer'
  <2>1. \A d \in Conns : peer'[d] = "new" => peer[d] = "new"
    BY <1>1, <1>3
    DEF Client, ClientNext, Connect, Keyboard, KeyboardAtEnd, SendLine, Display,
        ServerDisconnected, Leave, socket_vars
  <2>2. accepted' = accepted
    BY <1>3
    DEF Client, ClientNext, Connect, Keyboard, KeyboardAtEnd, SendLine, Display,
        ServerDisconnected, Leave, socket_vars
  <2> QED  BY <2>1, <2>2 DEF KnownToServer
<1>4. CASE UNCHANGED vars
  BY <1>4 DEF vars, socket_vars, KnownToServer
<1> QED  BY <1>2, <1>3, <1>4 DEF Next

LEMMA ReachedInvariant == Spec => [](KnownToServer /\ Reached)
<1>1. Init => KnownToServer /\ Reached
  BY DEF Init, SocketInit, ServerInit, KnownToServer, Reached, Passed
<1>2. RoomInv /\ KnownToServer /\ Reached /\ [Next]_vars => Reached'
  <2> SUFFICES ASSUME RoomInv, KnownToServer, Reached, [Next]_vars PROVE Reached'
    OBVIOUS
  <2>1. CASE Server
    BY <2>1, ReachedHandler, ReachedMain DEF Server, ServerNext, RoomInv
  <2>2. ASSUME NEW c \in Conns, Client(c) PROVE Reached'
    BY <2>2, ReachedClient DEF RoomInv
  <2>3. CASE UNCHANGED vars
    BY <2>3 DEF vars, socket_vars, server_vars, main_vars, handler_vars, client_vars,
                Reached, Passed, LeadsTo, Delivered
  <2> QED  BY <2>1, <2>2, <2>3 DEF Next
<1> QED  BY <1>1, <1>2, KnownNext, RoomInvariant, PTL DEF Spec, RoomInv

(***************************************************************************)
(* When the broadcast loop ends, everyone whose handler is in its loop and *)
(* whose client is there has the message (chat_server.c:24-38), though     *)
(* numbers are freed, given out again and removed all the time: a handler's*)
(* number is in the array, because as many entries are as there are        *)
(* handlers to remove them, so the index has passed it, and nobody could   *)
(* move it meanwhile, because he would have needed the mutex.              *)
(***************************************************************************)
THEOREM BroadcastReachesEveryone == Spec => []BroadcastReachesAll
<1>1. RoomInv /\ EntriesInv /\ Reached => BroadcastReachesAll
  <2> SUFFICES ASSUME RoomInv, EntriesInv, Reached, running, NEW c \in Conns, NEW d \in Conns,
                      pc[c] = "send", next[c] > Len(client_sockets),
                      d # c, InLoop(d), peer[d] = "open"
               PROVE  Contains(Delivered(d), buffer[c])
    BY DEF BroadcastReachesAll
  <2>1. /\ client_sockets \in Seq(Fds) /\ next[c] \in Nat /\ NoConn \notin Conns
        /\ descriptor[socket[d]] = d /\ socket[d] \in Fds
    BY SocketAssumption
    DEF RoomInv, Typed, OwnInv, ProgramTypeOK, Ownership, HandlersHold, Holds, SocketAssumption
  <2>2. d \in Removers(socket[d])
    BY DEF Removers, Registered, InLoop
  <2>3. Cardinality(Positions(client_sockets, socket[d])) # 0
    <3>1. Cardinality(Removers(socket[d])) \in Nat /\ Cardinality(Removers(socket[d])) # 0
      BY <2>2, RemoversFinite, FS_EmptySet DEF EntriesInv
    <3>2. /\ Cardinality(Removers(socket[d])) + InHand(socket[d])
                <= Cardinality(Positions(client_sockets, socket[d]))
          /\ InHand(socket[d]) \in {0, 1}
      BY <2>1 DEF EntriesInv, InHand
    <3> QED  BY <3>1, <3>2
  <2>4. PICK k \in DOMAIN client_sockets : client_sockets[k] = socket[d]
    <3>1. Positions(client_sockets, socket[d]) # {}
      BY <2>3, FS_EmptySet
    <3> QED  BY <3>1 DEF Positions
  <2>5. k \in Nat /\ k < next[c]
    <3>1. k \in 1..Len(client_sockets) /\ Len(client_sockets) \in Nat
      BY <2>1, <2>4
    <3> QED  BY <2>1, <3>1
  <2>6. ~(main_pc = "register" /\ client_socket = client_sockets[k])
    <3>1. main_pc = "register" => pc[descriptor[client_socket]] = "none"
      BY DEF RoomInv, Typed, OwnInv, Ownership, MainHolds
    <3> QED  BY <2>1, <2>4, <3>1 DEF InLoop
  <2>7. Passed(c, d, k)
    BY <2>1, <2>4, <2>5, <2>6 DEF Passed, LeadsTo
  <2> QED  BY <2>5, <2>7 DEF Reached
<1> QED  BY <1>1, RoomInvariant, EntriesInvariant, ReachedInvariant, PTL

=============================================================================
