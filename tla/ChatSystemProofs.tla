-------------------------- MODULE ChatSystemProofs --------------------------
(***************************************************************************)
(* Proofs about ChatSystem for every number of connections, descriptor     *)
(* numbers, lines and failures of pthread_create.                          *)
(***************************************************************************)
EXTENDS ChatSystem, FiniteSetTheorems, FunctionTheorems, TLAPS

(***************************************************************************)
(* That a handler works on its own connection is not inductive: one has to *)
(* know that no two numbers refer to one connection, that a number which is*)
(* in use refers to an accepted connection, so that accept never returns   *)
(* one that has a handler, and that the connection main has in hand, and   *)
(* may close, has none yet.                                                *)
(***************************************************************************)
OneNumberEach ==
  \A f, g \in Fds : descriptor[f] = descriptor[g] /\ descriptor[f] # NoConn => f = g

InUseAccepted ==
  /\ \A f \in Fds : descriptor[f] # NoConn => descriptor[f] \in accepted
  /\ \A c \in Conns : pc[c] # "none" => c \in accepted

HandlersHold ==
  \A c \in Conns : Holds(c) => socket[c] \in Fds /\ descriptor[socket[c]] = c

MainHolds ==
  main_pc # "accept" => /\ client_socket \in Fds
                        /\ descriptor[client_socket] \in Conns
                        /\ pc[descriptor[client_socket]] = "none"

Ownership == OneNumberEach /\ InUseAccepted /\ HandlersHold /\ MainHolds

OwnInv == ProgramTypeOK /\ (running => Ownership)

LEMMA OwnInit == Init => OwnInv
<1> SUFFICES ASSUME Init PROVE OwnInv
  OBVIOUS
<1> USE SocketAssumption, ChatServerAssumption, ChatClientAssumption
    DEF SocketAssumption, ChatServerAssumption, ChatClientAssumption,
        Init, SocketInit, ServerInit, ClientInit
<1>1. ProgramTypeOK
  BY DEF ProgramTypeOK, Labels
<1>2. Ownership
  BY DEF Ownership, OneNumberEach, InUseAccepted, HandlersHold, MainHolds, Holds, InLoop
<1> QED  BY <1>1, <1>2 DEF OwnInv

-----------------------------------------------------------------------------
(* Steps of the server.  Each lemma is about one action.                   *)

LEMMA MainAcceptStep == ASSUME OwnInv, MainAccept, UNCHANGED client_vars PROVE OwnInv'
<1> USE SocketAssumption DEF SocketAssumption
<1>1. PICK f \in Fds, c \in Conns : Accept(f, c) /\ client_socket' = f
  BY DEF MainAccept
<1>2. /\ running /\ running' /\ main_pc' = "register" /\ client_socket' = f
      /\ descriptor[f] = NoConn /\ c \notin accepted /\ c # NoConn
      /\ descriptor' = [descriptor EXCEPT ![f] = c] /\ accepted' = accepted \cup {c}
      /\ UNCHANGED <<pc, socket, peer, inq, outq, client_sockets, clients_mutex,
                     failures, buffer, next, sent, atEnd, shown, listening>>
  BY <1>1 DEF MainAccept, Accept, handler_vars, client_vars, OwnInv, ProgramTypeOK
<1>3. ProgramTypeOK'
  BY <1>2 DEF OwnInv, ProgramTypeOK
<1>4. descriptor \in [Fds -> Conns \cup {NoConn}] /\ Ownership
  BY <1>2 DEF OwnInv, ProgramTypeOK
<1>5. OneNumberEach' /\ InUseAccepted'
  BY <1>2, <1>4 DEF Ownership, OneNumberEach, InUseAccepted
<1>6. HandlersHold'
  BY <1>2, <1>4 DEF Ownership, HandlersHold, Holds, InLoop
<1>7. MainHolds'
  BY <1>2, <1>4 DEF Ownership, InUseAccepted, MainHolds
<1> QED  BY <1>3, <1>5, <1>6, <1>7 DEF OwnInv, Ownership

LEMMA MainRegisterStep == ASSUME OwnInv, MainRegister, UNCHANGED client_vars PROVE OwnInv'
<1>1. /\ running /\ main_pc = "register" /\ main_pc' = "create"
      /\ client_sockets' = Append(client_sockets, client_socket)
      /\ UNCHANGED <<socket_vars, running, clients_mutex, client_socket, failures,
                     handler_vars, client_vars>>
  BY DEF MainRegister
<1>2. client_socket \in Fds
  BY <1>1 DEF OwnInv, Ownership, MainHolds
<1>3. ProgramTypeOK'
  BY <1>1, <1>2 DEF OwnInv, ProgramTypeOK, socket_vars, handler_vars, client_vars
<1>4. Ownership'
  BY <1>1 DEF OwnInv, Ownership, OneNumberEach, InUseAccepted, HandlersHold,
              MainHolds, Holds, InLoop, socket_vars, handler_vars
<1> QED  BY <1>3, <1>4 DEF OwnInv

LEMMA MainCreateStep == ASSUME OwnInv, MainCreate, UNCHANGED client_vars PROVE OwnInv'
<1> DEFINE c == descriptor[client_socket]
<1>1. /\ running /\ main_pc = "create" /\ main_pc' = "accept"
      /\ pc' = [pc EXCEPT ![c] = "recv"]
      /\ socket' = [socket EXCEPT ![c] = client_socket]
      /\ UNCHANGED <<socket_vars, running, client_sockets, clients_mutex, client_socket,
                     failures, buffer, next, client_vars>>
  BY DEF MainCreate, Goto
<1>2. c \in Conns /\ client_socket \in Fds /\ pc[c] = "none"
  BY <1>1 DEF OwnInv, Ownership, MainHolds
<1>3. ProgramTypeOK'
  BY <1>1, <1>2 DEF OwnInv, ProgramTypeOK, Labels, socket_vars, client_vars
<1>4. /\ descriptor' = descriptor /\ accepted' = accepted /\ Ownership
      /\ pc \in [Conns -> Labels] /\ socket \in [Conns -> Fds \cup {0}]
  BY <1>1 DEF OwnInv, ProgramTypeOK, socket_vars
<1>5. c \in accepted
  BY <1>2, <1>4, SocketAssumption DEF SocketAssumption, Ownership, InUseAccepted
<1>6. OneNumberEach' /\ InUseAccepted'
  BY <1>1, <1>4, <1>5 DEF Ownership, OneNumberEach, InUseAccepted
<1>7. HandlersHold'
  BY <1>1, <1>2, <1>4 DEF Ownership, HandlersHold, Holds, InLoop
<1>8. MainHolds'
  BY <1>1 DEF MainHolds
<1> QED  BY <1>3, <1>6, <1>7, <1>8 DEF OwnInv, Ownership

LEMMA MainCreateFailsStep ==
  ASSUME OwnInv, MainCreateFails, UNCHANGED client_vars PROVE OwnInv'
<1> USE SocketAssumption, ChatServerAssumption DEF SocketAssumption, ChatServerAssumption
<1>1. /\ running /\ main_pc = "create" /\ main_pc' = "accept" /\ failures < ThreadFailures
      /\ failures' = failures + 1
      /\ UNCHANGED <<accepted, peer, inq, outq, running, client_sockets, clients_mutex,
                     client_socket, pc, socket, buffer, next, client_vars>>
  BY DEF MainCreateFails, Close, handler_vars
<1>2. client_socket \in Fds /\ pc[descriptor[client_socket]] = "none"
  BY <1>1 DEF OwnInv, Ownership, MainHolds
<1>3. descriptor' = [descriptor EXCEPT ![client_socket] = NoConn]
  BY <1>2 DEF MainCreateFails, Close
<1>4. ProgramTypeOK'
  <2>1. failures' \in 0..ThreadFailures
    BY <1>1 DEF OwnInv, ProgramTypeOK
  <2>2. descriptor' \in [Fds -> Conns \cup {NoConn}]
    BY <1>3 DEF OwnInv, ProgramTypeOK
  <2> QED  BY <1>1, <2>1, <2>2 DEF OwnInv, ProgramTypeOK, client_vars
<1>5. descriptor \in [Fds -> Conns \cup {NoConn}] /\ Ownership
  BY <1>1 DEF OwnInv, ProgramTypeOK
<1>6. OneNumberEach' /\ InUseAccepted' /\ MainHolds'
  BY <1>1, <1>3, <1>5 DEF Ownership, OneNumberEach, InUseAccepted, MainHolds
<1>7. HandlersHold'
  BY <1>1, <1>2, <1>3, <1>5 DEF Ownership, HandlersHold, Holds, InLoop
<1> QED  BY <1>4, <1>6, <1>7 DEF OwnInv, Ownership

LEMMA ReceiveStep ==
  ASSUME OwnInv, NEW c \in Conns, Receive(c), UNCHANGED client_vars PROVE OwnInv'
<1>1. running /\ pc[c] = "recv" /\ pc' = [pc EXCEPT ![c] = "lock"]
  BY DEF Receive, Goto
<1>2. descriptor[socket[c]] = c
  BY <1>1 DEF OwnInv, Ownership, HandlersHold, Holds, InLoop
<1>3. PICK n \in 1..Len(inq[c]) :
        /\ inq' = [inq EXCEPT ![c] = SubSeq(inq[c], n + 1, Len(inq[c]))]
        /\ buffer' = [buffer EXCEPT ![c] = SubSeq(inq[c], 1, n)]
        /\ UNCHANGED <<descriptor, accepted, peer, outq>>
  BY <1>2 DEF Receive, RecvData
<1>4. UNCHANGED <<running, client_sockets, clients_mutex, main_pc, client_socket,
                  failures, socket, next, sent, atEnd, shown, listening>>
  BY DEF Receive, main_vars, client_vars
<1>5. /\ SubSeq(inq[c], n + 1, Len(inq[c])) \in Seq(Lines)
      /\ SubSeq(inq[c], 1, n) \in Seq(Lines)
  <2>1. inq[c] \in Seq(Lines)
    BY DEF OwnInv, ProgramTypeOK
  <2> QED  BY <2>1
<1>6. ProgramTypeOK'
  BY <1>1, <1>3, <1>4, <1>5 DEF OwnInv, ProgramTypeOK, Labels
<1>7. Ownership'
  BY <1>1, <1>3, <1>4 DEF OwnInv, ProgramTypeOK, Ownership, OneNumberEach, InUseAccepted,
                          HandlersHold, MainHolds, Holds, InLoop
<1> QED  BY <1>6, <1>7 DEF OwnInv

\* A handler that goes on, and holds its number afterwards only if before.
LEMMA HandlerMoves ==
  ASSUME OwnInv, NEW c \in Conns, NEW label, label # "none", pc[c] # "none",
         pc' = [pc EXCEPT ![c] = label],
         label \in {"recv", "lock", "send", "close"} => Holds(c),
         UNCHANGED <<descriptor, accepted, socket, main_pc, client_socket, running>>
  PROVE  running' => Ownership'
BY DEF OwnInv, ProgramTypeOK, Ownership, OneNumberEach, InUseAccepted, HandlersHold,
       MainHolds, Holds, InLoop

LEMMA DisconnectedStep ==
  ASSUME OwnInv, NEW c \in Conns, Disconnected(c), UNCHANGED client_vars PROVE OwnInv'
<1>1. /\ pc[c] = "recv" /\ pc' = [pc EXCEPT ![c] = "close"]
      /\ UNCHANGED <<socket_vars, running, client_sockets, clients_mutex, main_vars,
                     socket, buffer, next, client_vars>>
  BY DEF Disconnected, Goto, RecvEnd
<1>2. ProgramTypeOK'
  BY <1>1 DEF OwnInv, ProgramTypeOK, Labels, socket_vars, main_vars, client_vars
<1>3. running' => Ownership'
  BY <1>1, HandlerMoves DEF Holds, InLoop, socket_vars, main_vars
<1> QED  BY <1>2, <1>3 DEF OwnInv

LEMMA BroadcastLockStep ==
  ASSUME OwnInv, NEW c \in Conns, BroadcastLock(c), UNCHANGED client_vars PROVE OwnInv'
<1>1. /\ pc[c] = "lock" /\ pc' = [pc EXCEPT ![c] = "send"]
      /\ clients_mutex' = c /\ next' = [next EXCEPT ![c] = 1]
      /\ UNCHANGED <<socket_vars, running, client_sockets, main_vars, socket, buffer,
                     client_vars>>
  BY DEF BroadcastLock, Goto
<1>2. ProgramTypeOK'
  BY <1>1 DEF OwnInv, ProgramTypeOK, Labels, socket_vars, main_vars, client_vars
<1>3. running' => Ownership'
  BY <1>1, HandlerMoves DEF Holds, InLoop, socket_vars, main_vars
<1> QED  BY <1>2, <1>3 DEF OwnInv

\* What send does to the connection, whichever it is.
LEMMA SendTyped ==
  ASSUME ProgramTypeOK, NEW d, NEW m \in Seq(Lines), Send(d, m)
  PROVE  /\ peer' \in [Conns -> {"new", "open", "closed", "reset"}]
         /\ outq' \in [Conns -> Seq(Seq(Lines))]
         /\ UNCHANGED <<descriptor, accepted, inq>>
<1>1. CASE UNCHANGED <<peer, outq>>
  BY <1>1 DEF Send, ProgramTypeOK
<1>2. CASE d \in Conns /\ outq' = [outq EXCEPT ![d] = Append(outq[d], m)] /\ peer' = peer
  <2>1. Append(outq[d], m) \in Seq(Seq(Lines))
    BY <1>2 DEF ProgramTypeOK
  <2> QED  BY <1>2, <2>1 DEF Send, ProgramTypeOK
<1>3. CASE /\ d \in Conns /\ outq' = outq
           /\ \E end \in {"closed", "reset"} : peer' = [peer EXCEPT ![d] = end]
  BY <1>3 DEF Send, ProgramTypeOK
<1> QED  BY <1>1, <1>2, <1>3 DEF Send

LEMMA BroadcastSendStep ==
  ASSUME OwnInv, NEW c \in Conns, BroadcastSend(c), UNCHANGED client_vars PROVE OwnInv'
<1>1. /\ next' = [next EXCEPT ![c] = next[c] + 1]
      /\ UNCHANGED <<running, client_sockets, clients_mutex, main_pc, client_socket,
                     failures, pc, socket, buffer, sent, atEnd, shown, listening>>
  BY DEF BroadcastSend, main_vars, client_vars
<1>2. /\ peer' \in [Conns -> {"new", "open", "closed", "reset"}]
      /\ outq' \in [Conns -> Seq(Seq(Lines))]
      /\ UNCHANGED <<descriptor, accepted, inq>>
  <2>1. CASE UNCHANGED socket_vars
    BY <2>1 DEF OwnInv, ProgramTypeOK, socket_vars
  <2>2. CASE Send(descriptor[client_sockets[next[c]]], buffer[c])
    <3>1. buffer[c] \in Seq(Lines)
      BY DEF OwnInv, ProgramTypeOK
    <3> QED  BY <2>2, <3>1, SendTyped DEF OwnInv
  <2> QED  BY <2>1, <2>2 DEF BroadcastSend
<1>3. ProgramTypeOK'
  <2>1. next' \in [Conns -> Nat]
    BY <1>1 DEF OwnInv, ProgramTypeOK
  <2> QED  BY <1>1, <1>2, <2>1 DEF OwnInv, ProgramTypeOK
<1>4. running' => Ownership'
  BY <1>1, <1>2 DEF OwnInv, Ownership, OneNumberEach, InUseAccepted, HandlersHold,
                    MainHolds, Holds, InLoop
<1> QED  BY <1>3, <1>4 DEF OwnInv

LEMMA BroadcastSigpipeStep ==
  ASSUME OwnInv, NEW c \in Conns, BroadcastSigpipe(c), UNCHANGED client_vars
  PROVE  OwnInv'
<1>1. /\ running' = FALSE /\ descriptor' = [f \in Fds |-> NoConn]
      /\ accepted' = {d \in Conns : peer[d] # "new"}
      /\ UNCHANGED <<peer, inq, outq, client_sockets, clients_mutex, main_vars,
                     handler_vars, client_vars>>
  BY DEF BroadcastSigpipe, SendSigpipe
<1>2. ProgramTypeOK'
  BY <1>1 DEF OwnInv, ProgramTypeOK, main_vars, handler_vars, client_vars
<1> QED  BY <1>1, <1>2 DEF OwnInv

LEMMA BroadcastUnlockStep ==
  ASSUME OwnInv, NEW c \in Conns, BroadcastUnlock(c), UNCHANGED client_vars
  PROVE  OwnInv'
<1>1. /\ pc[c] = "send" /\ pc' = [pc EXCEPT ![c] = "recv"] /\ clients_mutex' = NoConn
      /\ UNCHANGED <<socket_vars, running, client_sockets, main_vars, socket, buffer,
                     next, client_vars>>
  BY DEF BroadcastUnlock, Goto
<1>2. ProgramTypeOK'
  BY <1>1 DEF OwnInv, ProgramTypeOK, Labels, socket_vars, main_vars, client_vars
<1>3. running' => Ownership'
  BY <1>1, HandlerMoves DEF Holds, InLoop, socket_vars, main_vars
<1> QED  BY <1>2, <1>3 DEF OwnInv

\* The number a handler closes is its own, so nobody else loses his.
LEMMA CloseSocketStep ==
  ASSUME OwnInv, NEW c \in Conns, CloseSocket(c), UNCHANGED client_vars PROVE OwnInv'
<1> USE SocketAssumption DEF SocketAssumption
<1>1. /\ running /\ pc[c] = "close" /\ pc' = [pc EXCEPT ![c] = "remove"]
      /\ UNCHANGED <<accepted, peer, inq, outq, running, client_sockets, clients_mutex,
                     main_pc, client_socket, failures, socket, buffer, next,
                     sent, atEnd, shown, listening>>
  BY DEF CloseSocket, Close, Goto, main_vars, client_vars
<1>2. socket[c] \in Fds /\ descriptor[socket[c]] = c /\ pc[c] # "none"
  BY <1>1 DEF OwnInv, Ownership, HandlersHold, Holds
<1>3. descriptor' = [descriptor EXCEPT ![socket[c]] = NoConn]
  BY <1>2 DEF CloseSocket, Close
<1>4. ProgramTypeOK'
  BY <1>1, <1>3 DEF OwnInv, ProgramTypeOK, Labels
<1>5. /\ descriptor \in [Fds -> Conns \cup {NoConn}] /\ pc \in [Conns -> Labels]
      /\ Ownership
  BY <1>1 DEF OwnInv, ProgramTypeOK
<1>6. OneNumberEach' /\ InUseAccepted'
  BY <1>1, <1>2, <1>3, <1>5 DEF Ownership, OneNumberEach, InUseAccepted
<1>7. HandlersHold'
  BY <1>1, <1>2, <1>3, <1>5 DEF Ownership, HandlersHold, Holds, InLoop
<1>8. MainHolds'
  BY <1>1, <1>2, <1>3, <1>5 DEF Ownership, MainHolds
<1> QED  BY <1>4, <1>6, <1>7, <1>8 DEF OwnInv, Ownership

LEMMA RemoveClientStep ==
  ASSUME OwnInv, NEW c \in Conns, RemoveClient(c), UNCHANGED client_vars PROVE OwnInv'
<1>1. /\ pc[c] = "remove" /\ pc' = [pc EXCEPT ![c] = "done"]
      /\ UNCHANGED <<socket_vars, running, clients_mutex, main_vars, socket, buffer,
                     next, client_vars>>
  BY DEF RemoveClient, Goto
<1>2. client_sockets' \in Seq(Fds)
  <2>1. client_sockets \in Seq(Fds)
    BY DEF OwnInv, ProgramTypeOK
  <2>2. ASSUME NEW k \in DOMAIN client_sockets
        PROVE  RemoveAt(client_sockets, k) \in Seq(Fds)
    <3>1. k \in 1..Len(client_sockets)
      BY <2>1
    <3>2. /\ SubSeq(client_sockets, 1, k - 1) \in Seq(Fds)
          /\ SubSeq(client_sockets, k + 1, Len(client_sockets)) \in Seq(Fds)
      BY <2>1, <3>1
    <3> QED  BY <3>2 DEF RemoveAt
  <2> QED  BY <2>1, <2>2 DEF RemoveClient, Unregister
<1>3. ProgramTypeOK'
  BY <1>1, <1>2 DEF OwnInv, ProgramTypeOK, Labels, socket_vars, main_vars, client_vars
<1>4. running' => Ownership'
  BY <1>1, HandlerMoves DEF socket_vars, main_vars
<1> QED  BY <1>3, <1>4 DEF OwnInv

-----------------------------------------------------------------------------
(* Steps of the clients: they change no descriptor.                        *)

LEMMA ClientStep == ASSUME OwnInv, NEW c \in Conns, Client(c) PROVE OwnInv'
<1> USE ChatClientAssumption DEF ChatClientAssumption
<1>1. /\ UNCHANGED <<descriptor, accepted>>
      /\ UNCHANGED <<running, client_sockets, clients_mutex, main_pc, client_socket,
                     failures, pc, socket, buffer, next>>
  BY DEF Client, ClientNext, Connect, Keyboard, KeyboardAtEnd, SendLine, Display, ServerDisconnected, Leave,
         socket_vars, server_vars, main_vars, handler_vars
<1>2. running' => Ownership'
  BY <1>1 DEF OwnInv, Ownership, OneNumberEach, InUseAccepted, HandlersHold,
              MainHolds, Holds, InLoop
<1>3. CASE Connect(c)
  BY <1>1, <1>2, <1>3 DEF Connect, OwnInv, ProgramTypeOK
<1>4. ASSUME NEW line \in Lines, SendLine(c, line, Hungup(c))
      PROVE  /\ inq' \in [Conns -> Seq(Lines)]
             /\ peer' \in [Conns -> {"new", "open", "closed", "reset"}]
             /\ listening' \subseteq Conns
             /\ outq' = outq /\ shown' = shown
  <2>1. Append(inq[c], line) \in Seq(Lines)
    BY DEF OwnInv, ProgramTypeOK
  <2> QED  BY <1>4, <2>1 DEF SendLine, OwnInv, ProgramTypeOK
<1>8. CASE Keyboard(c, Hungup(c))
  <2>1. sent' \in [Conns -> 0..MaxLines] /\ atEnd' = atEnd
    BY <1>8 DEF Keyboard, OwnInv, ProgramTypeOK
  <2>2. Line(c, sent[c] + 1) \in Lines
    BY <1>8 DEF Keyboard, Line, Lines, OwnInv, ProgramTypeOK
  <2> QED  BY <1>1, <1>2, <1>4, <1>8, <2>1, <2>2 DEF Keyboard, OwnInv, ProgramTypeOK
<1>9. CASE KeyboardAtEnd(c, Hungup(c))
  <2>1. atEnd' \in [Conns -> 0..MaxAtEnd] /\ sent' = sent
    <3>1. atEnd \in [Conns -> 0..MaxAtEnd]
      BY DEF OwnInv, ProgramTypeOK
    <3>2. /\ atEnd[c] < MaxAtEnd /\ sent' = sent
          /\ atEnd' = [atEnd EXCEPT ![c] = atEnd[c] + 1]
      BY <1>9 DEF KeyboardAtEnd
    <3>3. atEnd[c] + 1 \in 0..MaxAtEnd
      BY <3>1, <3>2
    <3> QED  BY <3>1, <3>2, <3>3
  <2>2. Line(c, sent[c]) \in Lines
    BY <1>9 DEF KeyboardAtEnd, Line, Lines, OwnInv, ProgramTypeOK
  <2> QED  BY <1>1, <1>2, <1>4, <1>9, <2>1, <2>2 DEF KeyboardAtEnd, OwnInv, ProgramTypeOK
<1>5. CASE Display(c)
  <2>1. /\ Tail(outq[c]) \in Seq(Seq(Lines))
        /\ Append(shown[c], Head(outq[c])) \in Seq(Seq(Lines))
    <3>1. outq[c] \in Seq(Seq(Lines)) /\ outq[c] # <<>> /\ shown[c] \in Seq(Seq(Lines))
      BY <1>5 DEF Display, OwnInv, ProgramTypeOK
    <3> QED  BY <3>1
  <2> QED  BY <1>1, <1>2, <1>5, <2>1 DEF Display, OwnInv, ProgramTypeOK
<1>6. CASE ServerDisconnected(c, Hungup(c))
  BY <1>1, <1>2, <1>6 DEF ServerDisconnected, OwnInv, ProgramTypeOK, socket_vars
<1>7. CASE Leave(c)
  <2>1. /\ peer' \in [Conns -> {"new", "open", "closed", "reset"}]
        /\ outq' \in [Conns -> Seq(Seq(Lines))] /\ listening' \subseteq Conns
    BY <1>7 DEF Leave, OwnInv, ProgramTypeOK
  <2> QED  BY <1>1, <1>2, <1>7, <2>1 DEF Leave, OwnInv, ProgramTypeOK
<1> QED  BY <1>3, <1>5, <1>6, <1>7, <1>8, <1>9 DEF Client, ClientNext

-----------------------------------------------------------------------------

LEMMA OwnNext == OwnInv /\ [Next]_vars => OwnInv'
<1> SUFFICES ASSUME OwnInv, [Next]_vars PROVE OwnInv'
  OBVIOUS
<1>1. CASE MainNext /\ UNCHANGED client_vars
  BY <1>1, MainAcceptStep, MainRegisterStep, MainCreateStep, MainCreateFailsStep
  DEF MainNext
<1>2. ASSUME NEW c \in Conns, HandlerNext(c), UNCHANGED client_vars PROVE OwnInv'
  BY <1>2, ReceiveStep, DisconnectedStep, BroadcastLockStep, BroadcastSendStep,
     BroadcastSigpipeStep, BroadcastUnlockStep, CloseSocketStep, RemoveClientStep
  DEF HandlerNext
<1>3. ASSUME NEW c \in Conns, Client(c) PROVE OwnInv'
  BY <1>3, ClientStep
<1>4. CASE UNCHANGED vars
  BY <1>4 DEF vars, socket_vars, server_vars, main_vars, handler_vars, client_vars,
              OwnInv, ProgramTypeOK, Ownership, OneNumberEach, InUseAccepted, HandlersHold,
              MainHolds, Holds, InLoop
<1> QED  BY <1>1, <1>2, <1>3, <1>4 DEF Next, Server, ServerNext

LEMMA OwnInvariant == Spec => []OwnInv
BY OwnInit, OwnNext, PTL DEF Spec

LEMMA LogTyped == Spec => [](log \in Seq(Seq(Lines)))
<1> DEFINE I == OwnInv /\ log \in Seq(Seq(Lines))
<1>1. Init => I
  BY OwnInit DEF Init
<1>2. I /\ [Next]_vars => I'
  <2> SUFFICES ASSUME I, [Next]_vars PROVE I'
    OBVIOUS
  <2>1. ASSUME NEW c \in Conns, Logs(c) PROVE log' \in Seq(Seq(Lines))
    <3>1. buffer[c] \in Seq(Lines)
      BY DEF OwnInv, ProgramTypeOK
    <3> QED  BY <2>1, <3>1 DEF Logs
  <2>2. log' = log \/ \E c \in Conns : Logs(c)
    BY DEF Next, Server, Log, Client, vars
  <2> QED  BY <2>1, <2>2, OwnNext
<1>3. Spec => []I
  BY <1>1, <1>2, PTL DEF Spec
<1>4. I => log \in Seq(Seq(Lines))
  OBVIOUS
<1> QED  BY <1>3, <1>4, PTL

\* Every variable of the server, the clients and the sockets keeps its type.
THEOREM TypeCorrect == Spec => []TypeOK
<1>1. OwnInv /\ log \in Seq(Seq(Lines)) => TypeOK
  BY DEF OwnInv, TypeOK
<1> QED  BY <1>1, OwnInvariant, LogTyped, PTL

(***************************************************************************)
(* However often numbers are reused and thread creation fails, a handler   *)
(* that has not closed its socket works on the connection it was made for. *)
(***************************************************************************)
THEOREM HandlersOwnTheirSocket == Spec => []OwnDescriptor
<1>1. OwnInv => OwnDescriptor
  BY DEF OwnInv, Ownership, HandlersHold, OwnDescriptor
<1> QED  BY <1>1, OwnInvariant, PTL

-----------------------------------------------------------------------------
(* The entries of the array.                                               *)

Positions(s, x) == {k \in DOMAIN s : s[k] = x}

LEMMA PositionsFinite ==
  ASSUME NEW S, NEW s \in Seq(S), NEW x
  PROVE  IsFiniteSet(Positions(s, x)) /\ Cardinality(Positions(s, x)) \in Nat
<1>1. DOMAIN s = 1..Len(s) /\ Len(s) \in Nat
  OBVIOUS
<1>2. IsFiniteSet(1..Len(s))
  BY <1>1, FS_Interval
<1>3. Positions(s, x) \in SUBSET (1..Len(s))
  BY <1>1 DEF Positions
<1> QED  BY <1>2, <1>3, FS_Subset, FS_CardinalityType

LEMMA PositionsAppend ==
  ASSUME NEW S, NEW s \in Seq(S), NEW x \in S, NEW y
  PROVE  Cardinality(Positions(Append(s, x), y)) = Cardinality(Positions(s, y)) + IF y = x THEN 1 ELSE 0
<1>1. /\ DOMAIN Append(s, x) = DOMAIN s \cup {Len(s) + 1} /\ Len(s) + 1 \notin DOMAIN s
      /\ Append(s, x)[Len(s) + 1] = x /\ \A k \in DOMAIN s : Append(s, x)[k] = s[k]
  OBVIOUS
<1>2. PICK n : n = Len(s) + 1
  OBVIOUS
<1>3. n \notin Positions(s, y)
  BY <1>1, <1>2 DEF Positions
<1>4. CASE y = x
  <2>1. Positions(Append(s, x), y) = Positions(s, y) \cup {n}
    BY <1>1, <1>2, <1>4 DEF Positions
  <2> QED  BY <1>3, <1>4, <2>1, PositionsFinite, FS_AddElement
<1>5. CASE y # x
  <2>1. Positions(Append(s, x), y) = Positions(s, y)
    BY <1>1, <1>2, <1>5 DEF Positions
  <2>2. Cardinality(Positions(s, y)) \in Nat
    BY PositionsFinite
  <2> QED  BY <1>5, <2>1, <2>2
<1> QED  BY <1>4, <1>5

LEMMA Joined ==
  ASSUME NEW S, NEW a \in Seq(S), NEW b \in Seq(S)
  PROVE  /\ a \o b \in Seq(S) /\ Len(a \o b) = Len(a) + Len(b)
         /\ \A i \in 1..Len(a) : i \in DOMAIN (a \o b) /\ (a \o b)[i] = a[i]
         /\ \A j \in 1..Len(b) : Len(a) + j \in DOMAIN (a \o b) /\ (a \o b)[Len(a) + j] = b[j]
  OBVIOUS

LEMMA Behind ==
  ASSUME NEW n \in Nat, NEW k \in 1..n, NEW i \in 1..n, i > k
  PROVE  i - k \in 1..(n - k) /\ k - 1 + (i - k) = i - 1 /\ k + (i - k) = i
OBVIOUS

LEMMA Removed ==
  ASSUME NEW S, NEW s \in Seq(S), NEW k \in DOMAIN s
  PROVE  /\ RemoveAt(s, k) \in Seq(S) /\ Len(RemoveAt(s, k)) = Len(s) - 1
         /\ \A i \in DOMAIN s : i < k => i \in DOMAIN RemoveAt(s, k) /\ RemoveAt(s, k)[i] = s[i]
         /\ \A i \in DOMAIN s : i > k => i - 1 \in DOMAIN RemoveAt(s, k) /\ RemoveAt(s, k)[i - 1] = s[i]
<1>1. k \in 1..Len(s) /\ Len(s) \in Nat /\ DOMAIN s = 1..Len(s)
  OBVIOUS
<1>2. SubSeq(s, 1, k - 1) \in Seq(S) /\ SubSeq(s, k + 1, Len(s)) \in Seq(S)
  BY <1>1
<1>3. /\ Len(SubSeq(s, 1, k - 1)) = k - 1
      /\ \A i \in 1..(k - 1) : SubSeq(s, 1, k - 1)[i] = s[i]
  BY <1>1
<1>4. /\ Len(SubSeq(s, k + 1, Len(s))) = Len(s) - k
      /\ \A j \in 1..(Len(s) - k) : SubSeq(s, k + 1, Len(s))[j] = s[k + j]
  BY <1>1
<1>5. PICK a \in Seq(S), b \in Seq(S) :
        /\ RemoveAt(s, k) = a \o b /\ Len(a) = k - 1 /\ Len(b) = Len(s) - k
        /\ \A i \in 1..(k - 1) : a[i] = s[i]
        /\ \A j \in 1..(Len(s) - k) : b[j] = s[k + j]
  BY <1>2, <1>3, <1>4 DEF RemoveAt
<1>6. PICK t : t = a \o b
  OBVIOUS
<1>7. /\ t \in Seq(S) /\ Len(t) = Len(a) + Len(b)
      /\ \A i \in 1..(k - 1) : i \in DOMAIN t /\ t[i] = a[i]
      /\ \A j \in 1..(Len(s) - k) : k - 1 + j \in DOMAIN t /\ t[k - 1 + j] = b[j]
  <2>1. /\ t \in Seq(S) /\ Len(t) = Len(a) + Len(b)
        /\ \A i \in 1..Len(a) : i \in DOMAIN t /\ t[i] = a[i]
        /\ \A j \in 1..Len(b) : Len(a) + j \in DOMAIN t /\ t[Len(a) + j] = b[j]
    BY <1>6, Joined
  <2>2. Len(a) = k - 1 /\ Len(b) = Len(s) - k
    BY <1>5
  <2> QED  BY <2>1, <2>2
<1>8. t \in Seq(S) /\ Len(t) = Len(s) - 1
  BY <1>1, <1>5, <1>7
<1>9. \A i \in 1..(k - 1) : i \in DOMAIN t /\ t[i] = s[i]
  BY <1>5, <1>7
<1>10. ASSUME NEW j \in 1..(Len(s) - k)
       PROVE  k - 1 + j \in DOMAIN t /\ t[k - 1 + j] = s[k + j]
  <2>1. b[j] = s[k + j]
    BY <1>5
  <2>2. k - 1 + j \in DOMAIN t /\ t[k - 1 + j] = b[j]
    BY <1>7
  <2> QED  BY <2>1, <2>2
<1>11. ASSUME NEW i \in DOMAIN s, i > k
       PROVE  i - 1 \in DOMAIN t /\ t[i - 1] = s[i]
  <2>1. i \in 1..Len(s)
    BY <1>1, <1>11
  <2>2. /\ i - k \in 1..(Len(s) - k)
        /\ k - 1 + (i - k) = i - 1 /\ k + (i - k) = i
    BY <1>1, <1>11, <2>1, Behind
  <2>3. PICK j : j = i - k
    OBVIOUS
  <2>4. k - 1 + j \in DOMAIN t /\ t[k - 1 + j] = s[k + j]
    BY <1>10, <2>2, <2>3
  <2> QED  BY <2>2, <2>3, <2>4
<1>12. \A i \in DOMAIN s : i < k => i \in 1..(k - 1)
  BY <1>1
<1>13. \A i \in DOMAIN s : i < k => i \in DOMAIN t /\ t[i] = s[i]
  BY <1>9, <1>12
<1>14. \A i \in DOMAIN s : i > k => i - 1 \in DOMAIN t /\ t[i - 1] = s[i]
  BY <1>11
<1>15. t = RemoveAt(s, k)
  BY <1>5, <1>6
<1> QED  BY <1>8, <1>13, <1>14, <1>15

\* Removing one position takes away at most one of the positions of each number.
LEMMA PositionsRemove ==
  ASSUME NEW S, NEW s \in Seq(S), NEW k \in DOMAIN s, NEW y
  PROVE  Cardinality(Positions(s, y)) <= Cardinality(Positions(RemoveAt(s, k), y)) + IF y = s[k] THEN 1 ELSE 0
<1>1. PICK t : t = RemoveAt(s, k)
  OBVIOUS
<1>2. /\ t \in Seq(S)
      /\ \A i \in DOMAIN s : i < k => i \in DOMAIN t /\ t[i] = s[i]
      /\ \A i \in DOMAIN s : i > k => i - 1 \in DOMAIN t /\ t[i - 1] = s[i]
  BY <1>1, Removed
<1> DEFINE P == Positions(s, y) \ {k}
           T == Positions(t, y)
           move == [i \in P |-> IF i < k THEN i ELSE i - 1]
<1>3. \A i \in P : i \in DOMAIN s /\ s[i] = y /\ (i < k \/ i > k)
  BY DEF Positions
<1>4. move \in [P -> T]
  BY <1>2, <1>3 DEF Positions
<1>5. ASSUME NEW i \in P, NEW j \in P, move[i] = move[j]
      PROVE  i = j
  BY <1>3, <1>5
<1>6. IsFiniteSet(T) /\ Cardinality(T) \in Nat
  BY <1>2, PositionsFinite
<1>7. IsFiniteSet(Positions(s, y)) /\ Cardinality(Positions(s, y)) \in Nat
  BY PositionsFinite
<1>8. Cardinality(P) = IF k \in Positions(s, y) THEN Cardinality(Positions(s, y)) - 1
                                                ELSE Cardinality(Positions(s, y))
  BY <1>7, FS_RemoveElement
<1>9. k \in Positions(s, y) <=> y = s[k]
  BY DEF Positions
<1> HIDE DEF P, T, move
<1>10. move \in Injection(P, T)
  BY <1>4, <1>5, Fun_IsInj
<1>11. Cardinality(P) <= Cardinality(T)
  BY <1>6, <1>10, FS_Injection
<1>12. T = Positions(RemoveAt(s, k), y)
  BY <1>1 DEF T
<1> QED  BY <1>6, <1>7, <1>8, <1>9, <1>11, <1>12

(***************************************************************************)
(* The numbers in the array are enough for the handlers that will remove   *)
(* one, and for the one that main is starting; a registered handler has a  *)
(* number, which may already be another's.                                 *)
(***************************************************************************)
Removers(f) == {c \in Registered : socket[c] = f}

InHand(f) == IF main_pc = "create" /\ client_socket = f THEN 1 ELSE 0

EntriesInv ==
  running =>
    /\ IsFiniteSet(Registered)
    /\ \A c \in Registered : socket[c] \in Fds
    /\ \A f \in Fds : Cardinality(Removers(f)) + InHand(f) <= Cardinality(Positions(client_sockets, f))
    /\ Len(client_sockets) = Cardinality(Registered) + failures + IF main_pc = "create" THEN 1 ELSE 0

LEMMA RemoversFinite ==
  ASSUME IsFiniteSet(Registered), NEW f
  PROVE  IsFiniteSet(Removers(f)) /\ Cardinality(Removers(f)) \in Nat /\ Cardinality(Registered) \in Nat
<1>1. Removers(f) \in SUBSET Registered
  BY DEF Removers
<1> QED  BY <1>1, FS_Subset, FS_CardinalityType

LEMMA EntriesInit == Init => EntriesInv
<1> SUFFICES ASSUME Init PROVE EntriesInv
  OBVIOUS
<1>1. client_sockets = <<>> /\ main_pc = "accept" /\ failures = 0 /\ pc = [c \in Conns |-> "none"]
  BY DEF Init, ServerInit
<1>2. Registered = {}
  BY <1>1 DEF Registered
<1>3. \A f : Removers(f) = {} /\ InHand(f) = 0
  BY <1>1, <1>2 DEF Removers, InHand
<1>4. client_sockets \in Seq(Fds) /\ Len(client_sockets) = 0
  BY <1>1
<1>5. \A f : Cardinality(Positions(client_sockets, f)) \in Nat
  BY <1>4, PositionsFinite
<1>6. IsFiniteSet(Registered) /\ Cardinality(Registered) = 0 /\ \A f : Cardinality(Removers(f)) = 0
  BY <1>2, <1>3, FS_EmptySet
<1>7. \A f : Cardinality(Removers(f)) + InHand(f) <= Cardinality(Positions(client_sockets, f))
  BY <1>3, <1>5, <1>6
<1>8. Len(client_sockets) = Cardinality(Registered) + failures + IF main_pc = "create" THEN 1 ELSE 0
  BY <1>1, <1>4, <1>6
<1> QED  BY <1>2, <1>6, <1>7, <1>8 DEF EntriesInv

\* Steps that register nobody and take nobody out.
LEMMA EntriesSame ==
  ASSUME EntriesInv, running' => running, Registered' = Registered,
         UNCHANGED <<socket, client_sockets, failures>>,
         \/ UNCHANGED <<main_pc, client_socket>>
         \/ main_pc # "create" /\ main_pc' # "create"
  PROVE  EntriesInv'
<1>1. \A f : Removers(f)' = Removers(f) /\ InHand(f)' = InHand(f)
  BY DEF Removers, InHand
<1> QED  BY <1>1 DEF EntriesInv

LEMMA HandlerEntries ==
  ASSUME EntriesInv, OwnInv, NEW c \in Conns, NEW label \in Labels \ {"none", "done"},
         pc[c] \notin {"none", "done"}, pc' = [pc EXCEPT ![c] = label],
         UNCHANGED <<running, socket, client_sockets, main_vars>>
  PROVE  EntriesInv'
<1>1. Registered' = Registered
  BY DEF Registered, OwnInv, ProgramTypeOK
<1> QED  BY <1>1, EntriesSame DEF main_vars

LEMMA RegisterEntries == ASSUME EntriesInv, OwnInv, MainRegister PROVE EntriesInv'
<1>1. /\ running /\ main_pc = "register" /\ main_pc' = "create"
      /\ client_sockets' = Append(client_sockets, client_socket)
      /\ UNCHANGED <<pc, socket, failures, client_socket>>
  BY DEF MainRegister, handler_vars
<1>2. client_socket \in Fds /\ client_sockets \in Seq(Fds) /\ failures \in Nat
  BY <1>1, ChatServerAssumption DEF OwnInv, Ownership, MainHolds, ProgramTypeOK
<1>3. /\ IsFiniteSet(Registered) /\ \A c \in Registered : socket[c] \in Fds
      /\ \A f \in Fds : Cardinality(Removers(f)) + InHand(f) <= Cardinality(Positions(client_sockets, f))
      /\ Len(client_sockets) = Cardinality(Registered) + failures + 0
  BY <1>1 DEF EntriesInv
<1>4. Registered' = Registered /\ \A f : Removers(f)' = Removers(f)
  BY <1>1 DEF Registered, Removers
<1>5. \A f : InHand(f) = 0 /\ InHand(f)' = IF f = client_socket THEN 1 ELSE 0
  BY <1>1 DEF InHand
<1>6. \A f : Cardinality(Positions(client_sockets', f))
             = Cardinality(Positions(client_sockets, f)) + IF f = client_socket THEN 1 ELSE 0
  BY <1>1, <1>2, PositionsAppend
<1>7. Len(client_sockets') = Len(client_sockets) + 1
  BY <1>1, <1>2
<1>8. \A f : Cardinality(Removers(f)) \in Nat /\ Cardinality(Positions(client_sockets, f)) \in Nat
      /\ Cardinality(Registered) \in Nat
  BY <1>2, <1>3, RemoversFinite, PositionsFinite
<1>9. \A f \in Fds : Cardinality(Removers(f)') + InHand(f)' <= Cardinality(Positions(client_sockets', f))
  BY <1>3, <1>4, <1>5, <1>6, <1>8
<1>10. Len(client_sockets') = Cardinality(Registered) + failures + 1
  BY <1>2, <1>3, <1>7, <1>8
<1> QED  BY <1>1, <1>3, <1>4, <1>9, <1>10 DEF EntriesInv

LEMMA CreateEntries == ASSUME EntriesInv, OwnInv, MainCreate PROVE EntriesInv'
<1> DEFINE c == descriptor[client_socket]
<1>1. /\ running /\ main_pc = "create" /\ main_pc' = "accept"
      /\ pc' = [pc EXCEPT ![c] = "recv"] /\ socket' = [socket EXCEPT ![c] = client_socket]
      /\ UNCHANGED <<client_sockets, client_socket, failures>>
  BY DEF MainCreate, Goto
<1>2. c \in Conns /\ client_socket \in Fds /\ pc[c] = "none" /\ failures \in Nat
  BY <1>1, ChatServerAssumption DEF OwnInv, Ownership, MainHolds, ProgramTypeOK
<1>3. /\ IsFiniteSet(Registered) /\ \A d \in Registered : socket[d] \in Fds
      /\ \A f \in Fds : Cardinality(Removers(f)) + InHand(f) <= Cardinality(Positions(client_sockets, f))
      /\ Len(client_sockets) = Cardinality(Registered) + failures + 1
  BY <1>1 DEF EntriesInv
<1>4. c \notin Registered /\ Registered' = Registered \cup {c}
  BY <1>1, <1>2 DEF Registered, OwnInv, ProgramTypeOK
<1>5. socket'[c] = client_socket /\ \A d \in Conns \ {c} : socket'[d] = socket[d]
  BY <1>1, <1>2 DEF OwnInv, ProgramTypeOK
<1>6. Registered \subseteq Conns
  BY DEF Registered
<1> HIDE DEF c
<1>7. \A f : Removers(f)' = IF f = client_socket THEN Removers(f) \cup {c} ELSE Removers(f)
  BY <1>4, <1>5, <1>6 DEF Removers
<1>8. \A f : InHand(f)' = 0 /\ InHand(f) = IF f = client_socket THEN 1 ELSE 0
  BY <1>1 DEF InHand
<1>9. \A f : c \notin Removers(f)
  BY <1>4 DEF Removers
<1>10. /\ IsFiniteSet(Registered') /\ Cardinality(Registered') = Cardinality(Registered) + 1
  BY <1>3, <1>4, FS_AddElement
<1>11. \A f : Cardinality(Removers(f)') = Cardinality(Removers(f)) + IF f = client_socket THEN 1 ELSE 0
  <2> TAKE f
  <2>1. IsFiniteSet(Removers(f)) /\ Cardinality(Removers(f)) \in Nat
    BY <1>3, RemoversFinite
  <2> QED  BY <1>7, <1>9, <2>1, FS_AddElement
<1>12. \A f : Cardinality(Removers(f)) \in Nat /\ Cardinality(Registered) \in Nat
  BY <1>3, RemoversFinite
<1>13. \A f \in Fds : Cardinality(Removers(f)') + InHand(f)' <= Cardinality(Positions(client_sockets, f))
  BY <1>3, <1>8, <1>11, <1>12
<1>14. Len(client_sockets) = Cardinality(Registered') + failures
  BY <1>2, <1>3, <1>10, <1>12
<1>15. \A d \in Registered' : socket'[d] \in Fds
  BY <1>2, <1>3, <1>4, <1>5, <1>6
<1> QED  BY <1>1, <1>10, <1>13, <1>14, <1>15 DEF EntriesInv

LEMMA CreateFailsEntries == ASSUME EntriesInv, OwnInv, MainCreateFails PROVE EntriesInv'
<1>1. /\ running /\ main_pc = "create" /\ main_pc' = "accept" /\ failures' = failures + 1
      /\ UNCHANGED <<client_sockets, client_socket, pc, socket>>
  BY DEF MainCreateFails, handler_vars
<1>2. Registered' = Registered /\ \A f : Removers(f)' = Removers(f)
  BY <1>1 DEF Registered, Removers
<1>3. \A f : InHand(f)' = 0 /\ InHand(f) \in {0, 1}
  BY <1>1 DEF InHand
<1>4. /\ IsFiniteSet(Registered) /\ \A d \in Registered : socket[d] \in Fds
      /\ \A f \in Fds : Cardinality(Removers(f)) + InHand(f) <= Cardinality(Positions(client_sockets, f))
      /\ Len(client_sockets) = Cardinality(Registered) + failures + 1
  BY <1>1 DEF EntriesInv
<1>5. \A f : /\ Cardinality(Removers(f)) \in Nat /\ Cardinality(Registered) \in Nat
             /\ Cardinality(Positions(client_sockets, f)) \in Nat
  BY <1>4, RemoversFinite, PositionsFinite DEF OwnInv, ProgramTypeOK
<1>6. \A f \in Fds : Cardinality(Removers(f)) + 0 <= Cardinality(Positions(client_sockets, f))
  BY <1>3, <1>4, <1>5
<1>7. Len(client_sockets) = Cardinality(Registered) + failures' + 0
  <2>1. failures \in Nat
    BY ChatServerAssumption DEF OwnInv, ProgramTypeOK
  <2>2. Cardinality(Registered) \in Nat
    BY <1>4, FS_CardinalityType
  <2>3. failures' = failures + 1 /\ Len(client_sockets) = Cardinality(Registered) + failures + 1
    BY <1>1, <1>4
  <2> QED  BY <2>1, <2>2, <2>3
<1> QED  BY <1>1, <1>2, <1>3, <1>4, <1>6, <1>7 DEF EntriesInv

\* The entry a handler takes out is its own, or another one of the same number.
LEMMA RemoveEntries ==
  ASSUME EntriesInv, OwnInv, NEW c \in Conns, RemoveClient(c) PROVE EntriesInv'
<1>1. /\ running /\ pc[c] = "remove" /\ pc' = [pc EXCEPT ![c] = "done"]
      /\ Unregister(socket[c]) /\ UNCHANGED <<running, socket, main_pc, client_socket, failures>>
  BY DEF RemoveClient, Goto, main_vars
<1>2. client_sockets \in Seq(Fds) /\ failures \in Nat /\ pc \in [Conns -> Labels]
  BY ChatServerAssumption DEF OwnInv, ProgramTypeOK
<1>3. /\ IsFiniteSet(Registered) /\ \A d \in Registered : socket[d] \in Fds
      /\ \A f \in Fds : Cardinality(Removers(f)) + InHand(f) <= Cardinality(Positions(client_sockets, f))
      /\ Len(client_sockets) = Cardinality(Registered) + failures + IF main_pc = "create" THEN 1 ELSE 0
  BY <1>1 DEF EntriesInv
<1>4. c \in Registered /\ Registered' = Registered \ {c}
  BY <1>1, <1>2 DEF Registered
<1>5. PICK f \in Fds : f = socket[c]
  BY <1>3, <1>4
<1>6. c \in Removers(f) /\ \A g : Removers(g)' = IF g = f THEN Removers(g) \ {c} ELSE Removers(g)
  BY <1>1, <1>4, <1>5 DEF Removers
<1>7. \A g : InHand(g)' = InHand(g) /\ InHand(g) \in {0, 1}
  BY <1>1 DEF InHand
<1>8. \A g : IsFiniteSet(Removers(g)) /\ Cardinality(Removers(g)) \in Nat /\ Cardinality(Registered) \in Nat
  BY <1>3, RemoversFinite
<1>9. \A g : Cardinality(Removers(g)') = Cardinality(Removers(g)) - IF g = f THEN 1 ELSE 0
  <2> TAKE g
  <2>1. CASE g = f
    BY <1>6, <1>8, <2>1, FS_RemoveElement
  <2>2. CASE g # f
    BY <1>6, <1>8, <2>2
  <2> QED  BY <2>1, <2>2
<1>10. IsFiniteSet(Registered') /\ Cardinality(Registered') = Cardinality(Registered) - 1
  BY <1>3, <1>4, FS_RemoveElement
<1>11. Cardinality(Removers(f)) # 0
  BY <1>6, <1>8, FS_EmptySet
<1>12. Positions(client_sockets, f) # {}
  <2>1. Cardinality(Positions(client_sockets, f)) # 0
    <3>1. /\ Cardinality(Removers(f)) + InHand(f) <= Cardinality(Positions(client_sockets, f))
          /\ Cardinality(Removers(f)) \in Nat /\ InHand(f) \in {0, 1}
      BY <1>3, <1>7, <1>8
    <3> QED  BY <1>11, <3>1
  <2> QED  BY <2>1, FS_EmptySet
<1>13. PICK k \in DOMAIN client_sockets : client_sockets[k] = f /\ client_sockets' = RemoveAt(client_sockets, k)
  <2>1. Contains(client_sockets, f)
    BY <1>12 DEF Positions, Contains
  <2> QED  BY <1>1, <1>5, <2>1 DEF Unregister
<1>14. \A g : Cardinality(Positions(client_sockets, g)) <= Cardinality(Positions(client_sockets', g)) + IF g = f THEN 1 ELSE 0
  BY <1>2, <1>13, PositionsRemove
<1>15. client_sockets' \in Seq(Fds) /\ Len(client_sockets') = Len(client_sockets) - 1
  BY <1>2, <1>13, Removed
<1>16. \A g : Cardinality(Positions(client_sockets, g)) \in Nat /\ Cardinality(Positions(client_sockets', g)) \in Nat
  BY <1>2, <1>15, PositionsFinite
<1>17. \A g \in Fds : Cardinality(Removers(g)') + InHand(g) <= Cardinality(Positions(client_sockets', g))
  BY <1>3, <1>7, <1>8, <1>9, <1>14, <1>16
<1>18. Len(client_sockets') = Cardinality(Registered') + failures + IF main_pc = "create" THEN 1 ELSE 0
  BY <1>2, <1>3, <1>8, <1>10, <1>15
<1>19. \A d \in Registered' : socket'[d] \in Fds
  BY <1>1, <1>3, <1>4
<1> QED  BY <1>1, <1>7, <1>10, <1>17, <1>18, <1>19 DEF EntriesInv

LEMMA EntriesNext == ASSUME EntriesInv, OwnInv, [Next]_vars PROVE EntriesInv'
<1>1. ASSUME NEW c \in Conns, HandlerNext(c)
      PROVE  EntriesInv'
  <2>1. CASE Receive(c)
    BY <2>1, HandlerEntries DEF Receive, Goto, Labels
  <2>2. CASE Disconnected(c)
    BY <2>2, HandlerEntries DEF Disconnected, Goto, Labels
  <2>3. CASE BroadcastLock(c)
    BY <2>3, HandlerEntries DEF BroadcastLock, Goto, Labels
  <2>4. CASE BroadcastSend(c)
    <3>1. Registered' = Registered /\ UNCHANGED <<running, socket, client_sockets, main_vars>>
      BY <2>4 DEF BroadcastSend, Registered
    <3> QED  BY <3>1, EntriesSame DEF main_vars
  <2>5. CASE BroadcastUnlock(c)
    BY <2>5, HandlerEntries DEF BroadcastUnlock, Goto, Labels
  <2>6. CASE BroadcastSigpipe(c)
    BY <2>6 DEF BroadcastSigpipe, EntriesInv
  <2>7. CASE CloseSocket(c)
    BY <2>7, HandlerEntries DEF CloseSocket, Goto, Labels
  <2>8. CASE RemoveClient(c)
    BY <2>8, RemoveEntries
  <2> QED  BY <1>1, <2>1, <2>2, <2>3, <2>4, <2>5, <2>6, <2>7, <2>8 DEF HandlerNext
<1>2. CASE MainAccept
  <2>1. /\ main_pc = "accept" /\ main_pc' = "register" /\ Registered' = Registered
        /\ UNCHANGED <<running, socket, client_sockets, failures>>
    BY <1>2 DEF MainAccept, handler_vars, Registered
  <2> QED  BY <2>1, EntriesSame
<1>3. CASE UNCHANGED server_vars
  <2>1. Registered' = Registered /\ UNCHANGED <<running, socket, client_sockets, main_vars>>
    BY <1>3 DEF server_vars, handler_vars, Registered
  <2> QED  BY <2>1, EntriesSame DEF main_vars
<1>4. CASE \E c \in Conns : Client(c)
  BY <1>3, <1>4 DEF Client
<1>5. CASE UNCHANGED vars
  BY <1>3, <1>5 DEF vars
<1> QED  BY <1>1, <1>2, <1>4, <1>5, RegisterEntries, CreateEntries, CreateFailsEntries
         DEF Next, Server, ServerNext, MainNext

LEMMA EntriesInvariant == Spec => []EntriesInv
BY EntriesInit, EntriesNext, OwnInvariant, PTL DEF Spec

(***************************************************************************)
(* No handler takes the entry of another out of the array, although the    *)
(* numbers it removes by are reused (chat_server.c:61-74), and the array   *)
(* grows by the threads that could not be started only: for any number of  *)
(* connections and descriptors, and any order of close, accept and removal.*)
(***************************************************************************)
THEOREM EntriesAreKept == Spec => []EntriesMatchHandlers
<1>1. OwnInv /\ EntriesInv => EntriesMatchHandlers
  <2> SUFFICES ASSUME OwnInv, EntriesInv, running
               PROVE  /\ \A f \in Fds : Cardinality({c \in Registered : socket[c] = f}) <= Cardinality(Entries(f))
                      /\ Len(client_sockets) = Cardinality(Registered) + failures
                                               + IF main_pc = "create" THEN 1 ELSE 0
    BY DEF EntriesMatchHandlers
  <2>1. \A f : Removers(f) = {c \in Registered : socket[c] = f} /\ Entries(f) = Positions(client_sockets, f)
    BY DEF Removers, Entries, Positions
  <2>2. \A f : /\ Cardinality(Removers(f)) \in Nat /\ InHand(f) \in {0, 1}
               /\ Cardinality(Positions(client_sockets, f)) \in Nat
    BY RemoversFinite, PositionsFinite DEF InHand, EntriesInv, OwnInv, ProgramTypeOK
  <2>3. \A f \in Fds : Cardinality(Removers(f)) + InHand(f) <= Cardinality(Positions(client_sockets, f))
    BY DEF EntriesInv
  <2>4. \A f \in Fds : Cardinality(Removers(f)) <= Cardinality(Positions(client_sockets, f))
    BY <2>2, <2>3
  <2> QED  BY <2>1, <2>4 DEF EntriesInv
<1> QED  BY <1>1, OwnInvariant, EntriesInvariant, PTL

=============================================================================
