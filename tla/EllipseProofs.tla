---------------------------- MODULE EllipseProofs ----------------------------
(***************************************************************************)
(* Proofs about the ellipse server and its clients, for any numbers of     *)
(* clients and of descriptors.                                             *)
(***************************************************************************)
EXTENDS EllipseSystem, TLAPS

(***************************************************************************)
(* A number refers to a connection that was accepted when, or after, the   *)
(* number was taken from client_socket: a number is given only to a new    *)
(* connection, and client_socket is the newest one, or closed, when main   *)
(* creates the thread.                                                     *)
(***************************************************************************)
Types ==
  /\ descriptor \in [Fds -> Conns \cup {NoConn}]
  /\ accepted \subseteq Conns /\ \A c \in accepted : peer[c] # "new"
  /\ peer = [c \in Conns |-> peer[c]]
  /\ pc = [t \in Conns |-> pc[t]] /\ sock = [t \in Conns |-> sock[t]]
  /\ earlier = [t \in Conns |-> earlier[t]] /\ newest \in Conns \cup {NoConn}

MainHoldsNewest ==
  mainpc = "create" => /\ newest \in accepted
                       /\ Connection(client_socket) \in {newest, NoConn}

Serving(t) == pc[t] \notin {"none", "start", "end"}

LateButNotEarly ==
  \A t \in Conns :
    /\ earlier[t] \subseteq accepted
    /\ pc[t] = "start" => Connection(client_socket) \notin earlier[t]
    /\ Serving(t) => Connection(sock[t]) \notin earlier[t]

EarlierInv == Types /\ MainHoldsNewest /\ LateButNotEarly

LEMMA NoConnNotEarlier ==
  ASSUME EarlierInv
  PROVE  NoConn \notin accepted /\ \A t \in Conns : NoConn \notin earlier[t]
  BY SocketAssumption DEF EarlierInv, Types, LateButNotEarly

LEMMA EarlierInit == Init => EarlierInv
  BY DEF Init, ServerInit, SocketInit, EarlierInv, Types, MainHoldsNewest, LateButNotEarly,
         Serving

LEMMA EarlierAccept ==
  ASSUME EarlierInv, AcceptClient
  PROVE  EarlierInv'
<1>1. PICK f \in Fds, c \in Conns : Accept(f, c) /\ SetClientSocket(f) /\ newest' = c
  BY DEF AcceptClient
<1>2. /\ c \notin accepted /\ peer[c] # "new" /\ accepted' = accepted \cup {c}
      /\ descriptor' = [descriptor EXCEPT ![f] = c]
      /\ client_socket' = f /\ UNCHANGED <<peer, pc, sock, earlier>>
  BY <1>1 DEF Accept, SetClientSocket, AcceptClient, thread_vars
<1>3. \A g \in Fds : descriptor'[g] = IF g = f THEN c ELSE descriptor[g]
  BY <1>2 DEF EarlierInv, Types
<1>4. Types' /\ MainHoldsNewest'
  BY <1>1, <1>2, <1>3 DEF EarlierInv, Types, MainHoldsNewest, Connection
<1>5. ASSUME NEW t \in Conns
      PROVE  /\ earlier'[t] \subseteq accepted'
             /\ pc'[t] = "start" => Connection(client_socket)' \notin earlier'[t]
             /\ Serving(t)' => Connection(sock[t])' \notin earlier'[t]
  <2>1. earlier'[t] = earlier[t] /\ earlier[t] \subseteq accepted /\ c \notin earlier[t]
    BY <1>2 DEF EarlierInv, LateButNotEarly
  <2>2. Connection(client_socket)' = c
    BY <1>2, <1>3 DEF Connection
  <2>3. Serving(t)' = Serving(t) /\ Connection(sock[t])' \in {c, Connection(sock[t])}
    BY <1>2, <1>3 DEF Serving, Connection
  <2> QED  BY <1>2, <2>1, <2>2, <2>3 DEF EarlierInv, LateButNotEarly
<1> QED  BY <1>4, <1>5 DEF EarlierInv, LateButNotEarly

LEMMA EarlierAcceptFails ==
  ASSUME EarlierInv, AcceptFails
  PROVE  EarlierInv'
<1>1. /\ client_socket' = -1 /\ mainpc' = "accept"
      /\ UNCHANGED <<descriptor, accepted, peer, newest, pc, sock, earlier>>
  BY DEF AcceptFails, SetClientSocket, socket_vars, thread_vars
<1>2. Connection(client_socket)' = NoConn
  BY <1>1, SocketAssumption DEF Connection
<1> QED  BY <1>1, <1>2, NoConnNotEarlier
         DEF EarlierInv, Types, MainHoldsNewest, LateButNotEarly, Serving, Connection

LEMMA EarlierCreate ==
  ASSUME EarlierInv, CreateThread
  PROVE  EarlierInv'
<1>1. /\ mainpc = "create" /\ mainpc' = "accept" /\ newest' = NoConn
      /\ UNCHANGED <<descriptor, accepted, peer, client_socket, sock>>
  BY DEF CreateThread, socket_vars
<1>2. newest \in accepted /\ newest \in Conns
  BY <1>1 DEF EarlierInv, MainHoldsNewest, Types
<1>3. CASE UNCHANGED <<pc, earlier>>
  BY <1>1, <1>3 DEF EarlierInv, Types, MainHoldsNewest, LateButNotEarly, Serving, Connection
<1>4. CASE /\ pc' = [pc EXCEPT ![newest] = "start"]
           /\ earlier' = [earlier EXCEPT ![newest] = accepted \ {newest}]
  <2>1. Types' /\ MainHoldsNewest'
    BY <1>1, <1>4 DEF EarlierInv, Types, MainHoldsNewest
  <2>2. pc'[newest] = "start" /\ earlier'[newest] = accepted \ {newest}
    BY <1>2, <1>4 DEF EarlierInv, Types
  <2>3. \A t \in Conns \ {newest} : pc'[t] = pc[t] /\ earlier'[t] = earlier[t]
    BY <1>4 DEF EarlierInv, Types
  <2>4. Connection(client_socket)' \in {newest, NoConn}
        /\ Connection(client_socket)' = Connection(client_socket)
    BY <1>1 DEF EarlierInv, MainHoldsNewest, Connection
  <2>5. \A t \in Conns : Connection(sock[t])' = Connection(sock[t])
    BY <1>1 DEF Connection
  <2> QED  BY <1>1, <2>1, <2>2, <2>3, <2>4, <2>5, NoConnNotEarlier
           DEF EarlierInv, LateButNotEarly, Serving
<1> QED  BY <1>3, <1>4 DEF CreateThread

\* What a step of thread t may do to what the invariant speaks of.
LEMMA EarlierThread ==
  ASSUME EarlierInv, NEW t \in Conns, ThreadStep(t)
  PROVE  EarlierInv'
<1>1. UNCHANGED <<mainpc, client_socket, newest, accepted>>
  BY DEF ThreadStep, ReadArgument, CallRecv, Receive, Lock, Push, SendResponse, CloseSocket,
         socket_vars, RecvData, RecvEnd, Send, Close
<1>2. /\ peer' = [c \in Conns |-> peer'[c]]
      /\ \A c \in Conns : peer[c] # "new" => peer'[c] # "new"
  <2>1. UNCHANGED peer \/ \E c \in Conns : peer[c] = "closed"
                             /\ \E end \in {"closed", "reset"} : peer' = [peer EXCEPT ![c] = end]
    BY DEF ThreadStep, ReadArgument, CallRecv, Receive, Lock, Push, SendResponse, CloseSocket,
           socket_vars, RecvData, RecvEnd, Send, Close
  <2> QED  BY <2>1 DEF EarlierInv, Types
<1>3. \/ UNCHANGED descriptor
      \/ \E f \in Fds : descriptor' = [descriptor EXCEPT ![f] = NoConn]
  BY DEF ThreadStep, ReadArgument, CallRecv, Receive, Lock, Push, SendResponse, CloseSocket,
         socket_vars, RecvData, RecvEnd, Send, Close
<1>4. descriptor' \in [Fds -> Conns \cup {NoConn}]
      /\ \A f \in Fds : descriptor'[f] \in {descriptor[f], NoConn}
  BY <1>3 DEF EarlierInv, Types
<1>5. \A f : Connection(f)' \in {Connection(f), NoConn}
  BY <1>4 DEF Connection
<1>6. PICK there \in Labels \ {"none", "start"} : pc[t] \notin {"none", "end"} /\ pc' = [pc EXCEPT ![t] = there]
  BY DEF ThreadStep, ReadArgument, CallRecv, Receive, Lock, Push, SendResponse, CloseSocket,
         Step, Labels
<1>7. pc'[t] = there /\ pc' = [u \in Conns |-> pc'[u]] /\ \A u \in Conns \ {t} : pc'[u] = pc[u]
  BY <1>6 DEF EarlierInv, Types
<1>8. \/ UNCHANGED sock /\ Serving(t)
      \/ sock' = [sock EXCEPT ![t] = client_socket] /\ pc[t] = "start"
      \/ sock' = [sock EXCEPT ![t] = -1] /\ there = "end"
  BY <1>7 DEF ThreadStep, ReadArgument, CallRecv, Receive, Lock, Push, SendResponse, CloseSocket,
         Step, Serving
<1>9. /\ sock' = [u \in Conns |-> sock'[u]]
      /\ \A u \in Conns \ {t} : sock'[u] = sock[u]
      /\ there = "end" \/ sock'[t] = (IF pc[t] = "start" THEN client_socket ELSE sock[t])
  BY <1>8 DEF EarlierInv, Types, Serving
<1>10. earlier' = IF there = "end" THEN [earlier EXCEPT ![t] = {}] ELSE earlier
  BY <1>7 DEF ThreadStep
<1>11. /\ earlier' = [u \in Conns |-> earlier'[u]]
       /\ \A u \in Conns : earlier'[u] \subseteq earlier[u]
  BY <1>10 DEF EarlierInv, Types
<1>12. Types' /\ MainHoldsNewest'
  BY <1>1, <1>2, <1>4, <1>5, <1>7, <1>9, <1>11 DEF EarlierInv, Types, MainHoldsNewest
<1>13. ASSUME NEW u \in Conns
       PROVE  /\ earlier'[u] \subseteq accepted'
              /\ pc'[u] = "start" => Connection(client_socket)' \notin earlier'[u]
              /\ Serving(u)' => Connection(sock[u])' \notin earlier'[u]
  <2>1. /\ earlier[u] \subseteq accepted /\ NoConn \notin earlier[u]
        /\ pc[u] = "start" => Connection(client_socket) \notin earlier[u]
        /\ Serving(u) => Connection(sock[u]) \notin earlier[u]
    BY NoConnNotEarlier DEF EarlierInv, LateButNotEarly
  <2>2. earlier'[u] \subseteq accepted'
    BY <1>1, <1>11, <2>1
  <2>3. pc'[u] = "start" => pc[u] = "start"
    BY <1>6, <1>7
  <2>4. Connection(client_socket)' \in {Connection(client_socket), NoConn}
    BY <1>1, <1>5
  <2>5. Serving(u)' => Connection(sock[u])' \in
                         {NoConn, Connection(IF pc[u] = "start" THEN client_socket ELSE sock[u])}
    BY <1>5, <1>7, <1>9 DEF Serving
  <2>6. Serving(u)' => Serving(u) \/ pc[u] = "start"
    BY <1>6, <1>7 DEF Serving
  <2> QED  BY <1>11, <2>1, <2>2, <2>3, <2>4, <2>5, <2>6
<1> QED  BY <1>12, <1>13 DEF EarlierInv, LateButNotEarly

LEMMA EarlierSigpipe ==
  ASSUME EarlierInv, NEW t \in Conns, Sigpipe(t)
  PROVE  EarlierInv'
<1>1. /\ mainpc' = "exit" /\ descriptor' = [f \in Fds |-> NoConn]
      /\ accepted' = {d \in Conns : peer[d] # "new"}
      /\ UNCHANGED <<peer, pc, sock, earlier, newest>>
  BY DEF Sigpipe, SendSigpipe, thread_vars, history_vars
<1>2. \A f : Connection(f)' = NoConn
  BY <1>1 DEF Connection
<1>3. accepted \subseteq accepted'
  BY <1>1 DEF EarlierInv, Types
<1>4. Types' /\ MainHoldsNewest'
  BY <1>1 DEF EarlierInv, Types, MainHoldsNewest
<1> QED  BY <1>1, <1>2, <1>3, <1>4, NoConnNotEarlier DEF EarlierInv, LateButNotEarly

\* Clients and their launcher change neither numbers nor threads.
LEMMA EarlierClients ==
  ASSUME EarlierInv, LauncherStep \/ \E c \in Conns : Client(c)
  PROVE  EarlierInv'
<1>1. UNCHANGED <<server_vars, descriptor, accepted>>
  BY DEF LauncherStep, Fork, WaitPid, Client, ClientStep, Connect, SendNumber, CloseClient,
         socket_vars
<1>2. UNCHANGED <<mainpc, client_socket, newest, pc, sock, earlier>>
  BY <1>1 DEF server_vars, thread_vars, history_vars
<1>3. UNCHANGED peer \/ \E c \in Conns : \E end \in {"open", "closed", "reset"} :
                           peer' = [peer EXCEPT ![c] = end]
  BY DEF LauncherStep, Fork, WaitPid, Client, ClientStep, Connect, SendNumber, CloseClient,
         socket_vars
<1>4. Types'
  BY <1>1, <1>2, <1>3 DEF EarlierInv, Types
<1> QED  BY <1>1, <1>2, <1>4 DEF EarlierInv, MainHoldsNewest, LateButNotEarly, Serving, Connection

LEMMA EarlierNext ==
  ASSUME EarlierInv, [Next]_vars
  PROVE  EarlierInv'
<1>1. CASE LauncherStep \/ \E c \in Conns : Client(c)
  BY <1>1, EarlierClients
<1>2. CASE Server
  BY <1>2, EarlierAccept, EarlierAcceptFails, EarlierCreate, EarlierThread, EarlierSigpipe
  DEF Server, ServerStep, MainStep
<1>3. CASE UNCHANGED vars
  BY <1>3 DEF vars, socket_vars, server_vars, thread_vars, history_vars, EarlierInv, Types,
              MainHoldsNewest, LateButNotEarly, Serving, Connection
<1> QED  BY <1>1, <1>2, <1>3 DEF Next

(***************************************************************************)
(* However late a thread reads client_socket, it never serves a client     *)
(* that was accepted before its own.                                       *)
(***************************************************************************)
THEOREM ServesNoEarlierClient == Spec => []NeverAnEarlierClient
<1>1. EarlierInv => NeverAnEarlierClient
  BY DEF EarlierInv, LateButNotEarly, Serving, NeverAnEarlierClient
<1> QED  BY EarlierInit, EarlierNext, <1>1, PTL DEF Spec

-----------------------------------------------------------------------------
(* The type invariant.  push_back reads the length under the mutex: its      *)
(* holder, and no other thread, is inside push_back.                         *)

\* A function stays one of its type when a value of the type is put into it.
LEMMA Updated ==
  ASSUME NEW S, NEW T, NEW f \in [S -> T], NEW c, NEW v \in T
  PROVE  [f EXCEPT ![c] = v] \in [S -> T]
  OBVIOUS

PushAlone ==
  \A t \in Conns : pc[t] = "push" => ellipses_mutex = t /\ size[t] = Len(ellipses)

TypeInv == TypeOK /\ PushAlone

LEMMA TypeInit == Init => TypeInv
<1> SUFFICES ASSUME Init PROVE TypeInv
  OBVIOUS
<1>1. /\ descriptor \in [Fds -> Conns \cup {NoConn}] /\ accepted \subseteq Conns
      /\ peer \in [Conns -> {"new", "open", "closed", "reset"}]
      /\ inq \in [Conns -> Seq(Conns)] /\ outq \in [Conns -> Seq(Conns)]
  BY DEF Init, ServerInit, SocketInit
<1>2. /\ mainpc \in {"accept", "create", "exit"} /\ client_socket \in Fds \cup {-1}
      /\ newest \in Conns \cup {NoConn} /\ ellipses_mutex \in Conns \cup {NoConn}
  BY DEF Init, ServerInit
<1>6. late \in BOOLEAN
  BY DEF Init, ServerInit
<1>7. ellipses \in Seq(Conns \cup {NoConn})
  BY DEF Init, ServerInit
<1>3. /\ pc \in [Conns -> Labels] /\ sock \in [Conns -> Fds \cup {-1}]
      /\ from \in [Conns -> Conns \cup {NoConn}] /\ ellipse \in [Conns -> Conns \cup {NoConn}]
      /\ size \in [Conns -> Nat] /\ earlier \in [Conns -> SUBSET Conns]
  BY DEF Init, ServerInit, Labels
<1>4. /\ launcher \in {"fork", "wait", "done", "failed"} /\ next \in 1..NUM_CLIENTS
      /\ child \in [Conns -> {"none", "connect", "send", "close", "exited"}]
  BY LauncherAssumption DEF Init, LauncherInit
<1>5. PushAlone
  BY DEF Init, ServerInit, PushAlone
<1> QED  BY <1>1, <1>2, <1>3, <1>4, <1>5, <1>6, <1>7 DEF TypeInv, TypeOK

LEMMA TypeLauncher ==
  ASSUME TypeInv, LauncherStep
  PROVE  TypeInv'
<1>1. UNCHANGED <<socket_vars, server_vars>>
  BY DEF LauncherStep, Fork, WaitPid
<1>2. launcher' \in {"fork", "wait", "done", "failed"} /\ next' \in 1..NUM_CLIENTS
  <2>1. next \in 1..NUM_CLIENTS /\ NUM_CLIENTS \in Nat \ {0} /\ launcher \in {"fork", "wait", "done", "failed"}
    BY LauncherAssumption DEF TypeInv, TypeOK
  <2>2. (next' = next + 1 /\ next < NUM_CLIENTS) \/ next' = 1 \/ next' = next
    BY DEF LauncherStep, Fork, WaitPid, Advance
  <2>3. launcher' \in {"fork", "wait", "done", "failed"}
    BY DEF LauncherStep, Fork, WaitPid, Advance
  <2> QED  BY <2>1, <2>2, <2>3
<1>3. child' \in [Conns -> {"none", "connect", "send", "close", "exited"}]
  <2>1. UNCHANGED child \/ child' = [child EXCEPT ![next] = "connect"]
    BY DEF LauncherStep, Fork, WaitPid
  <2> QED  BY <2>1 DEF TypeInv, TypeOK
<1> QED  BY <1>1, <1>2, <1>3 DEF TypeInv, TypeOK, PushAlone, socket_vars, server_vars, thread_vars, history_vars

LEMMA TypeClients ==
  ASSUME TypeInv, NEW c \in Conns, Client(c)
  PROVE  TypeInv'
<1>1. UNCHANGED <<descriptor, accepted, server_vars, launcher, next>>
  BY DEF Client, ClientStep, Connect, SendNumber, CloseClient
<1>2. /\ child' \in [Conns -> {"none", "connect", "send", "close", "exited"}]
      /\ peer' \in [Conns -> {"new", "open", "closed", "reset"}]
  <2>1. \E there \in {"send", "close", "exited"} : child' = [child EXCEPT ![c] = there]
    BY DEF Client, ClientStep, Connect, SendNumber, CloseClient
  <2>2. UNCHANGED peer \/ \E end \in {"open", "closed", "reset"} : peer' = [peer EXCEPT ![c] = end]
    BY DEF Client, ClientStep, Connect, SendNumber, CloseClient
  <2> QED  BY <2>1, <2>2 DEF TypeInv, TypeOK
<1>3. inq' \in [Conns -> Seq(Conns)] /\ outq' \in [Conns -> Seq(Conns)]
  <2>1. UNCHANGED inq \/ inq' = [inq EXCEPT ![c] = Append(@, c)]
    BY DEF Client, ClientStep, Connect, SendNumber, CloseClient
  <2>2. UNCHANGED outq \/ outq' = [outq EXCEPT ![c] = <<>>]
    BY DEF Client, ClientStep, Connect, SendNumber, CloseClient
  <2>3. inq \in [Conns -> Seq(Conns)] /\ outq \in [Conns -> Seq(Conns)]
        /\ Append(inq[c], c) \in Seq(Conns) /\ <<>> \in Seq(Conns)
    BY DEF TypeInv, TypeOK
  <2>4. inq' \in [Conns -> Seq(Conns)]
    BY <2>1, <2>3
  <2>5. outq' \in [Conns -> Seq(Conns)]
    BY <2>2, <2>3, Updated
  <2> QED  BY <2>4, <2>5
<1> QED  BY <1>1, <1>2, <1>3 DEF TypeInv, TypeOK, PushAlone, server_vars, thread_vars, history_vars

LEMMA TypeMain ==
  ASSUME TypeInv, MainStep, UNCHANGED launcher_vars
  PROVE  TypeInv'
<1>1. CASE AcceptClient
  BY <1>1 DEF AcceptClient, Accept, SetClientSocket, TypeInv, TypeOK, PushAlone, thread_vars, launcher_vars
<1>2. CASE AcceptFails
  BY <1>2 DEF AcceptFails, SetClientSocket, TypeInv, TypeOK, PushAlone, thread_vars, launcher_vars, socket_vars
<1>3. CASE CreateThread
  <2>1. UNCHANGED <<socket_vars, client_socket, sock, from, ellipse, size, ellipses, ellipses_mutex, late, launcher_vars>>
        /\ mainpc' = "accept" /\ newest' = NoConn
    BY <1>3 DEF CreateThread
  <2>2. pc' \in [Conns -> Labels] /\ \A t \in Conns : pc'[t] = "push" => pc[t] = "push"
    <3>1. UNCHANGED pc \/ pc' = [pc EXCEPT ![newest] = "start"]
      BY <1>3 DEF CreateThread
    <3>2. pc \in [Conns -> Labels] /\ "start" \in Labels
      BY DEF TypeInv, TypeOK, Labels
    <3>3. pc' \in [Conns -> Labels]
      BY <3>1, <3>2, Updated
    <3>4. \A t \in Conns : pc'[t] \in {pc[t], "start"}
      BY <3>1, <3>2
    <3> QED  BY <3>3, <3>4
  <2>4. earlier' \in [Conns -> SUBSET Conns]
    <3>1. UNCHANGED earlier \/ earlier' = [earlier EXCEPT ![newest] = accepted \ {newest}]
      BY <1>3 DEF CreateThread
    <3>2. earlier \in [Conns -> SUBSET Conns] /\ accepted \ {newest} \in SUBSET Conns
      BY DEF TypeInv, TypeOK
    <3> QED  BY <3>1, <3>2, Updated
  <2>3. PushAlone'
    BY <2>1, <2>2 DEF TypeInv, PushAlone
  <2> QED  BY <2>1, <2>2, <2>3, <2>4 DEF TypeInv, TypeOK, launcher_vars, socket_vars
<1> QED  BY <1>1, <1>2, <1>3 DEF MainStep

\* What a step of thread t never touches, and where it leads.
LEMMA ThreadFrame ==
  ASSUME TypeOK, NEW t \in Conns, ThreadStep(t)
  PROVE  /\ mainpc # "exit" /\ UNCHANGED <<mainpc, client_socket, newest, late, accepted>>
         /\ pc' \in [Conns -> Labels] /\ earlier' \in [Conns -> SUBSET Conns]
         /\ \A u \in Conns \ {t} : pc'[u] = pc[u]
         /\ pc'[t] \notin {"none", "start"} /\ pc[t] \notin {"none", "end"}
<1>1. /\ mainpc # "exit" /\ UNCHANGED <<mainpc, client_socket, newest, late, accepted>>
  BY DEF ThreadStep, ReadArgument, CallRecv, Receive, Lock, Push, SendResponse, CloseSocket,
         socket_vars, RecvData, RecvEnd, Send, Close
<1>2. PICK there \in Labels \ {"none", "start"} : pc[t] \notin {"none", "end"} /\ pc' = [pc EXCEPT ![t] = there]
  BY DEF ThreadStep, ReadArgument, CallRecv, Receive, Lock, Push, SendResponse, CloseSocket,
         Step, Labels
<1>3. earlier' \in [Conns -> SUBSET Conns]
  BY DEF ThreadStep, TypeOK
<1> QED  BY <1>1, <1>2, <1>3 DEF TypeOK
\* The socket calls keep the types of the sockets.
SocketTypes ==
  /\ descriptor \in [Fds -> Conns \cup {NoConn}] /\ accepted \subseteq Conns
  /\ peer \in [Conns -> {"new", "open", "closed", "reset"}]
  /\ inq \in [Conns -> Seq(Conns)] /\ outq \in [Conns -> Seq(Conns)]

LEMMA RecvDataTypes ==
  ASSUME SocketTypes, NEW c \in Conns, RecvData(c, 1)
  PROVE  SocketTypes' /\ inq[c] # <<>> /\ inq[c][1] \in Conns /\ inq'[c] = Tail(inq[c])
         /\ \A d \in Conns \ {c} : inq'[d] = inq[d]
<1>1. inq[c] \in Seq(Conns) /\ 1 <= Len(inq[c])
      /\ inq' = [inq EXCEPT ![c] = SubSeq(inq[c], 2, Len(inq[c]))]
  BY DEF RecvData, SocketTypes
<1>2. SubSeq(inq[c], 2, Len(inq[c])) = Tail(inq[c]) /\ Tail(inq[c]) \in Seq(Conns)
      /\ inq[c][1] \in Conns /\ inq[c] # <<>>
  BY <1>1
<1>3. inq' = [inq EXCEPT ![c] = Tail(inq[c])]
  BY <1>1, <1>2
<1> QED  BY <1>2, <1>3 DEF RecvData, SocketTypes

LEMMA SendTypes ==
  ASSUME SocketTypes, NEW t \in Conns, NEW c \in Conns \cup {NoConn}, Send(c, t)
  PROVE  SocketTypes'
<1>1. UNCHANGED <<descriptor, accepted, inq>>
  BY DEF Send
<1>2. UNCHANGED outq \/ (c \in Conns /\ outq' = [outq EXCEPT ![c] = Append(@, t)])
  BY DEF Send
<1>3. c \in Conns => Append(outq[c], t) \in Seq(Conns)
  BY DEF SocketTypes
<1>4. outq' \in [Conns -> Seq(Conns)]
  BY <1>2, <1>3 DEF SocketTypes
<1>5. UNCHANGED peer \/ \E end \in {"closed", "reset"} : peer' = [peer EXCEPT ![c] = end]
  BY DEF Send
<1>6. peer' \in [Conns -> {"new", "open", "closed", "reset"}]
  BY <1>5 DEF SocketTypes
<1> QED  BY <1>1, <1>4, <1>6 DEF SocketTypes

LEMMA ConnectionType ==
  ASSUME TypeOK, NEW f
  PROVE  Connection(f) \in Conns \cup {NoConn}
  BY DEF TypeOK, Connection

\* Only the holder of the mutex pushes, and what it has read of the list is
\* all of it.
LEMMA PushAppends ==
  ASSUME TypeInv, NEW t \in Conns, Push(t)
  PROVE  ellipses' = Append(ellipses, ellipse[t]) /\ ellipses' \in Seq(Conns \cup {NoConn})
         /\ \A u \in Conns \ {t} : pc[u] # "push"
<1>1. pc[t] = "push" /\ ellipses_mutex = t /\ size[t] = Len(ellipses)
  BY DEF Push, Step, TypeInv, PushAlone
<1>2. SubSeq(ellipses, 1, Len(ellipses)) = ellipses
  BY DEF TypeInv, TypeOK
<1>3. ellipses' = Append(ellipses, ellipse[t])
  BY <1>1, <1>2 DEF Push
<1> QED  BY <1>1, <1>3 DEF TypeInv, TypeOK, PushAlone

LEMMA TypeThread ==
  ASSUME TypeInv, NEW t \in Conns, ThreadStep(t), UNCHANGED launcher_vars
  PROVE  TypeInv'
<1>1. SocketTypes
  BY DEF TypeInv, TypeOK, SocketTypes
<1>2. TypeOK
  BY DEF TypeInv
<1>3. CASE ReadArgument(t)
  <2>1. UNCHANGED <<socket_vars, from, ellipse, size, ellipses, ellipses_mutex>> /\ sock' \in [Conns -> Fds \cup {-1}]
        /\ pc[t] = "start" /\ pc' = [pc EXCEPT ![t] = "recv"]
    BY <1>2, <1>3 DEF ReadArgument, Step, TypeOK
  <2>2. PushAlone'
    BY <1>2, <2>1 DEF PushAlone, TypeInv, TypeOK
  <2> QED  BY <1>2, <2>1, <2>2, ThreadFrame DEF TypeInv, TypeOK, launcher_vars, socket_vars
<1>4. CASE CallRecv(t)
  <2>1. UNCHANGED <<socket_vars, sock, ellipse, size, ellipses, ellipses_mutex>> /\ from' \in [Conns -> Conns \cup {NoConn}]
        /\ pc' = [pc EXCEPT ![t] = "receiving"]
    BY <1>2, <1>4, ConnectionType DEF CallRecv, Step, TypeOK
  <2>2. PushAlone'
    BY <1>2, <2>1 DEF PushAlone, TypeInv, TypeOK
  <2> QED  BY <1>2, <2>1, <2>2, ThreadFrame DEF TypeInv, TypeOK, launcher_vars, socket_vars
<1>5. CASE Receive(t)
  <2>1. UNCHANGED <<sock, size, ellipses, ellipses_mutex>> /\ from' \in [Conns -> Conns \cup {NoConn}]
    BY <1>2, <1>5 DEF Receive, TypeOK
  <2>2. \A u \in Conns : pc'[u] = "push" => pc[u] = "push"
    BY <1>2, <1>5 DEF Receive, Step, TypeOK
  <2>3. SocketTypes' /\ ellipse' \in [Conns -> Conns \cup {NoConn}]
    <3>1. CASE from[t] \in Conns /\ RecvData(from[t], 1) /\ ellipse' = [ellipse EXCEPT ![t] = inq[from[t]][1]]
      BY <1>1, <1>2, <3>1, RecvDataTypes DEF TypeOK
    <3>2. CASE RecvEnd(from[t]) /\ UNCHANGED ellipse
      BY <1>1, <1>2, <3>2 DEF RecvEnd, SocketTypes, socket_vars, TypeOK
    <3> QED  BY <1>2, <1>5, <3>1, <3>2 DEF Receive, TypeOK
  <2>4. PushAlone'
    BY <2>1, <2>2 DEF PushAlone, TypeInv
  <2> QED  BY <1>2, <2>1, <2>3, <2>4, ThreadFrame DEF TypeInv, TypeOK, SocketTypes, launcher_vars
<1>6. CASE Lock(t)
  <2>1. UNCHANGED <<socket_vars, sock, from, ellipse, ellipses>> /\ ellipses_mutex' = t /\ ellipses_mutex = NoConn
        /\ size' = [size EXCEPT ![t] = Len(ellipses)]
    BY <1>6 DEF Lock
  <2>2. size' \in [Conns -> Nat] /\ size'[t] = Len(ellipses)
    BY <1>2, <2>1 DEF TypeOK
  <2>3. \A u \in Conns \ {t} : pc'[u] # "push"
    BY <1>2, <2>1, ThreadFrame, SocketAssumption DEF PushAlone, TypeInv
  <2>4. PushAlone'
    BY <2>1, <2>2, <2>3 DEF PushAlone
  <2> QED  BY <1>2, <2>1, <2>2, <2>4, ThreadFrame DEF TypeInv, TypeOK, launcher_vars, socket_vars
<1>7. CASE Push(t)
  <2>1. UNCHANGED <<socket_vars, sock, from, ellipse>> /\ ellipses_mutex' = NoConn /\ size' \in [Conns -> Nat]
        /\ pc' = [pc EXCEPT ![t] = "send"]
    BY <1>2, <1>7 DEF Push, Step, TypeOK
  <2>2. PushAlone'
    BY <1>2, <1>7, <2>1, PushAppends DEF PushAlone, TypeOK
  <2> QED  BY <1>2, <1>7, <2>1, <2>2, PushAppends, ThreadFrame DEF TypeInv, TypeOK, launcher_vars, socket_vars
<1>8. CASE SendResponse(t)
  <2>1. UNCHANGED <<sock, from, ellipse, size, ellipses, ellipses_mutex>>
        /\ pc' = [pc EXCEPT ![t] = "close"]
    BY <1>8 DEF SendResponse, Step
  <2>2. SocketTypes'
    BY <1>1, <1>2, <1>8, ConnectionType, SendTypes DEF SendResponse
  <2>3. PushAlone'
    BY <1>2, <2>1 DEF PushAlone, TypeInv, TypeOK
  <2> QED  BY <1>2, <2>1, <2>2, <2>3, ThreadFrame DEF TypeInv, TypeOK, SocketTypes, launcher_vars
<1>9. CASE CloseSocket(t)
  <2>1. UNCHANGED <<accepted, peer, inq, outq, from, ellipse, size, ellipses, ellipses_mutex>>
        /\ pc' = [pc EXCEPT ![t] = "end"] /\ sock' \in [Conns -> Fds \cup {-1}]
    BY <1>2, <1>9 DEF CloseSocket, Close, Step, TypeOK
  <2>2. descriptor' \in [Fds -> Conns \cup {NoConn}]
    BY <1>2, <1>9 DEF CloseSocket, Close, TypeOK
  <2>3. PushAlone'
    BY <1>2, <2>1 DEF PushAlone, TypeInv, TypeOK
  <2> QED  BY <1>2, <2>1, <2>2, <2>3, ThreadFrame DEF TypeInv, TypeOK, launcher_vars
<1> QED  BY <1>3, <1>4, <1>5, <1>6, <1>7, <1>8, <1>9 DEF ThreadStep

LEMMA TypeSigpipe ==
  ASSUME TypeInv, NEW t \in Conns, Sigpipe(t), UNCHANGED launcher_vars
  PROVE  TypeInv'
<1>1. UNCHANGED <<client_socket, newest, thread_vars, history_vars, peer, inq, outq>> /\ mainpc' = "exit"
      /\ descriptor' = [f \in Fds |-> NoConn] /\ accepted' = {d \in Conns : peer[d] # "new"}
  BY DEF Sigpipe, SendSigpipe
<1>2. descriptor' \in [Fds -> Conns \cup {NoConn}] /\ accepted' \subseteq Conns
  BY <1>1
<1> QED  BY <1>1, <1>2 DEF TypeInv, TypeOK, PushAlone, launcher_vars, thread_vars, history_vars

LEMMA TypeStutter == TypeInv /\ UNCHANGED vars => TypeInv'
  BY DEF vars, socket_vars, server_vars, thread_vars, history_vars, launcher_vars, TypeInv, TypeOK, PushAlone

(***************************************************************************)
(* Every variable of the server, of its clients and of the launcher keeps  *)
(* to its type, and a thread inside push_back is the one that has locked   *)
(* ellipses_mutex and has read the length the list still has.              *)
(***************************************************************************)
THEOREM EllipseTypeInv == Spec => []TypeInv
<1>1. TypeInv /\ [Next]_vars => TypeInv'
  BY TypeLauncher, TypeClients, TypeMain, TypeThread, TypeSigpipe, TypeStutter
  DEF Next, Server, ServerStep
<1> QED  BY TypeInit, <1>1, PTL DEF Spec

\* The type invariant of the ellipse server and its clients.
THEOREM EllipseTypeOK == Spec => []TypeOK
  BY EllipseTypeInv, PTL DEF TypeInv

-----------------------------------------------------------------------------
(* A connection is accepted once, so its thread is created once.             *)

Fresh ==
  /\ \A t \in Conns : pc[t] # "none" => t \in accepted
  /\ mainpc = "create" => newest \in accepted /\ pc[newest] = "none"

LEMMA FreshThread ==
  ASSUME TypeInv, Fresh, NEW t \in Conns, ThreadStep(t)
  PROVE  Fresh'
<1>1. TypeOK
  BY DEF TypeInv
<1>2. /\ UNCHANGED <<mainpc, newest, accepted>> /\ \A u \in Conns \ {t} : pc'[u] = pc[u]
      /\ pc[t] # "none"
  BY <1>1, ThreadFrame
<1>3. accepted \subseteq Conns
  BY <1>1 DEF TypeOK
<1> QED  BY <1>2, <1>3 DEF Fresh

LEMMA FreshNext ==
  ASSUME TypeInv, EarlierInv, Fresh, [Next]_vars
  PROVE  Fresh'
<1>1. CASE LauncherStep \/ (\E c \in Conns : Client(c)) \/ UNCHANGED vars
  <2>1. UNCHANGED <<accepted, pc, mainpc, newest>>
    BY <1>1 DEF LauncherStep, Fork, WaitPid, Client, ClientStep, Connect, SendNumber, CloseClient,
         socket_vars, server_vars, thread_vars, vars
  <2> QED  BY <2>1 DEF Fresh
<1>2. CASE AcceptClient
  <2>1. PICK c \in Conns : c \notin accepted /\ accepted' = accepted \cup {c} /\ newest' = c /\ UNCHANGED pc
    BY <1>2 DEF AcceptClient, Accept, thread_vars
  <2> QED  BY <2>1 DEF Fresh
<1>3. CASE AcceptFails
  BY <1>3 DEF AcceptFails, socket_vars, thread_vars, Fresh
<1>4. CASE CreateThread
  <2>1. mainpc = "create" /\ mainpc' = "accept" /\ UNCHANGED accepted
        /\ (UNCHANGED pc \/ pc' = [pc EXCEPT ![newest] = "start"])
    BY <1>4 DEF CreateThread, socket_vars
  <2> QED  BY <2>1 DEF Fresh, TypeInv, TypeOK
<1>5. CASE \E t \in Conns : Sigpipe(t)
  <2>1. mainpc' = "exit" /\ accepted' = {d \in Conns : peer[d] # "new"} /\ UNCHANGED pc
    BY <1>5 DEF Sigpipe, SendSigpipe, thread_vars
  <2> QED  BY <2>1 DEF Fresh, EarlierInv, Types
<1> QED  BY <1>1, <1>2, <1>3, <1>4, <1>5, FreshThread DEF Next, Server, ServerStep, MainStep

LEMMA ThreadsAreFresh == Spec => [](EarlierInv /\ Fresh)
<1>1. Init => Fresh
  BY DEF Init, ServerInit, SocketInit, Fresh
<1> QED  BY <1>1, EarlierInit, EarlierNext, FreshNext, EllipseTypeInv, PTL DEF Spec

-----------------------------------------------------------------------------
(* A client sends its number once, so no two threads receive the same one,   *)
(* and a number is in the list when its thread has pushed it, not before.    *)

\* The number of c is still to be sent or to be received.
Unread(c) == child[c] \in {"none", "connect", "send"} \/ inq[c] # <<>>

ForksOnce ==
  launcher = "fork" => \A c \in next..NUM_CLIENTS : child[c] = "none"

SendsOnce ==
  \A c \in Conns :
    /\ inq[c] \in {<<>>, <<c>>}
    /\ child[c] \in {"none", "connect", "send"} => inq[c] = <<>>

Pushed(t) == pc[t] \notin {"lock", "push"}

ReceivedOnce ==
  \A t \in Conns :
    ellipse[t] # NoConn =>
      /\ pc[t] \in {"lock", "push", "send", "close", "end"}
      /\ ~Unread(ellipse[t])
      /\ \A u \in Conns \ {t} : ellipse[u] # ellipse[t]

Listed ==
  \A k \in DOMAIN ellipses :
    ellipses[k] # NoConn => \E t \in Conns : ellipse[t] = ellipses[k] /\ Pushed(t)

KeptInv == ForksOnce /\ SendsOnce /\ ReceivedOnce /\ Listed /\ EveryEllipseKept

LEMMA KeptInit == Init => KeptInv
<1> SUFFICES ASSUME Init PROVE KeptInv
  OBVIOUS
<1>1. ForksOnce
  BY LauncherAssumption DEF Init, LauncherInit, ForksOnce
<1>2. SendsOnce
  BY DEF Init, ServerInit, SocketInit, SendsOnce
<1>3. ReceivedOnce /\ EveryEllipseKept
  BY DEF Init, ServerInit, ReceivedOnce, EveryEllipseKept
<1>4. Listed
  BY DEF Init, ServerInit, Listed
<1> QED  BY <1>1, <1>2, <1>3, <1>4 DEF KeptInv

\* Steps that neither receive nor push.
LEMMA KeptElsewhere ==
  ASSUME KeptInv, UNCHANGED <<ellipse, ellipses>>,
         ForksOnce', SendsOnce',
         \A c \in Conns : Unread(c)' => Unread(c),
         \A t \in Conns : ellipse[t] # NoConn => pc'[t] \in {"lock", "push", "send", "close", "end"},
         \A t \in Conns : ellipse[t] # NoConn => Pushed(t)' = Pushed(t),
         TypeOK
  PROVE  KeptInv'
<1>1. ReceivedOnce'
  BY DEF KeptInv, ReceivedOnce, TypeOK
<1>2. Listed'
  BY DEF KeptInv, Listed
<1>3. EveryEllipseKept'
  BY DEF KeptInv, EveryEllipseKept, Pushed
<1> QED  BY <1>1, <1>2, <1>3 DEF KeptInv

LEMMA KeptLauncher ==
  ASSUME TypeInv, KeptInv, LauncherStep
  PROVE  KeptInv'
<1>1. UNCHANGED <<socket_vars, server_vars>>
  BY DEF LauncherStep, Fork, WaitPid
<1>2. UNCHANGED <<inq, pc, ellipse, ellipses>>
  BY <1>1 DEF socket_vars, server_vars, thread_vars
<1>3. next \in 1..NUM_CLIENTS /\ NUM_CLIENTS \in Nat /\ Conns = 1..NUM_CLIENTS
      /\ child = [c \in Conns |-> child[c]]
  BY LauncherAssumption DEF TypeInv, TypeOK
<1>4. CASE Fork /\ child' = [child EXCEPT ![next] = "connect"] /\ Advance("fork", "wait")
  <2>1. child[next] = "none" /\ \A c \in Conns : child'[c] = IF c = next THEN "connect" ELSE child[c]
    BY <1>3, <1>4 DEF Fork, KeptInv, ForksOnce
  <2>2. launcher' = "fork" => next' = next + 1
    BY <1>4 DEF Advance
  <2>3. ForksOnce'
    <3>1. launcher = "fork" /\ \A c \in next..NUM_CLIENTS : child[c] = "none"
      BY <1>4 DEF Fork, KeptInv, ForksOnce
    <3>2. ASSUME launcher' = "fork", NEW c \in next'..NUM_CLIENTS
          PROVE  child'[c] = "none"
      <4>1. next' = next + 1
        BY <2>2, <3>2
      <4>2. c \in next..NUM_CLIENTS /\ c # next /\ c \in Conns
        BY <1>3, <3>2, <4>1
      <4> QED  BY <2>1, <3>1, <4>2
    <3> QED  BY <3>2 DEF ForksOnce
  <2>4. \A c \in Conns : Unread(c)' => Unread(c)
    BY <1>2, <2>1 DEF Unread
  <2>5. SendsOnce'
    BY <1>2, <2>1 DEF SendsOnce, KeptInv
  <2> QED  BY <1>2, <2>3, <2>4, <2>5, KeptElsewhere DEF KeptInv, ReceivedOnce, TypeInv, Pushed
<1>5. CASE UNCHANGED child /\ launcher' # "fork"
  BY <1>2, <1>5, KeptElsewhere DEF KeptInv, ForksOnce, SendsOnce, ReceivedOnce, TypeInv, Pushed, Unread
<1> QED  BY <1>4, <1>5 DEF LauncherStep, Fork, WaitPid, Advance

LEMMA KeptClients ==
  ASSUME TypeInv, KeptInv, NEW c \in Conns, Client(c)
  PROVE  KeptInv'
<1>1. UNCHANGED <<server_vars, launcher, next>>
  BY DEF Client, ClientStep, Connect, SendNumber, CloseClient
<1>2. UNCHANGED <<pc, ellipse, ellipses, launcher, next>>
  BY <1>1 DEF server_vars, thread_vars
<1>3. PICK there \in {"send", "close", "exited"} : child' = [child EXCEPT ![c] = there]
  BY DEF Client, ClientStep, Connect, SendNumber, CloseClient
<1>4. \A d \in Conns : child'[d] = IF d = c THEN there ELSE child[d]
  BY <1>3 DEF TypeInv, TypeOK
<1>5. child[c] # "none" /\ (child[c] = "connect" \/ there # "send")
  <2>1. child'[c] = there
    BY <1>4
  <2>2. CASE \E down \in BOOLEAN : Connect(c, down)
    BY <2>1, <2>2 DEF Connect
  <2>3. CASE SendNumber(c)
    BY <2>1, <2>3, <1>3 DEF SendNumber, TypeInv, TypeOK
  <2>4. CASE CloseClient(c)
    BY <2>1, <2>4, <1>3 DEF CloseClient, TypeInv, TypeOK
  <2>5. Connect(c, mainpc = "exit") \/ SendNumber(c) \/ CloseClient(c)
    BY DEF Client, ClientStep
  <2> QED  BY <2>2, <2>3, <2>4, <2>5 DEF Connect
<1>6. ForksOnce'
  <2>1. next \in 1..NUM_CLIENTS /\ NUM_CLIENTS \in Nat /\ Conns = 1..NUM_CLIENTS
    BY LauncherAssumption DEF TypeInv, TypeOK
  <2>2. ASSUME launcher = "fork", NEW d \in next..NUM_CLIENTS
        PROVE  child'[d] = "none"
    <3>1. child[d] = "none" /\ d \in Conns
      BY <2>1, <2>2 DEF KeptInv, ForksOnce
    <3> QED  BY <1>4, <1>5, <3>1
  <2> QED  BY <1>2, <2>2 DEF ForksOnce
<1>7. \/ UNCHANGED inq
      \/ child[c] = "send" /\ there = "close" /\ inq' = [inq EXCEPT ![c] = Append(@, c)]
  <2>1. UNCHANGED inq \/ (child[c] = "send" /\ child' = [child EXCEPT ![c] = "close"] /\ inq' = [inq EXCEPT ![c] = Append(@, c)])
    BY DEF Client, ClientStep, Connect, SendNumber, CloseClient
  <2>2. child' = [child EXCEPT ![c] = "close"] => child'[c] = "close"
    BY DEF TypeInv, TypeOK
  <2> QED  BY <1>4, <2>1, <2>2
<1>8. inq \in [Conns -> Seq(Conns)] /\ Append(<<>>, c) = <<c>>
  BY DEF TypeInv, TypeOK
<1>9. \A d \in Conns : inq'[d] = inq[d] \/ (d = c /\ child[c] = "send" /\ there = "close" /\ inq'[c] = <<c>>)
  <2>1. child[c] = "send" => inq[c] = <<>>
    BY DEF KeptInv, SendsOnce
  <2> QED  BY <1>7, <1>8, <2>1
<1>10. SendsOnce'
  BY <1>4, <1>5, <1>9 DEF KeptInv, SendsOnce
<1>11. \A d \in Conns : Unread(d)' => Unread(d)
  BY <1>4, <1>5, <1>9 DEF Unread
<1> QED  BY <1>2, <1>6, <1>10, <1>11, KeptElsewhere DEF KeptInv, ReceivedOnce, TypeInv, Pushed

LEMMA KeptThread ==
  ASSUME TypeInv, KeptInv, NEW t \in Conns, ThreadStep(t), UNCHANGED launcher_vars
  PROVE  KeptInv'
<1>1. UNCHANGED <<launcher, next, child>> /\ ForksOnce'
  BY DEF launcher_vars, KeptInv, ForksOnce
<1>2. TypeOK /\ SocketTypes
  BY DEF TypeInv, TypeOK, SocketTypes
<1>3. \A u \in Conns \ {t} : pc'[u] = pc[u] /\ Pushed(u)' = Pushed(u)
  BY <1>2, ThreadFrame DEF Pushed
<1>4. CASE UNCHANGED <<inq, ellipse, ellipses>> /\ (ellipse[t] # NoConn => Pushed(t)' = Pushed(t) /\ pc'[t] \in {"lock", "push", "send", "close", "end"})
  <2>1. SendsOnce' /\ \A c \in Conns : Unread(c)' => Unread(c)
    BY <1>1, <1>4 DEF KeptInv, SendsOnce, Unread
  <2> QED  BY <1>1, <1>2, <1>3, <1>4, <2>1, KeptElsewhere DEF KeptInv, ReceivedOnce
<1>5. CASE ReadArgument(t) \/ CallRecv(t) \/ SendResponse(t) \/ CloseSocket(t) \/ Lock(t)
  <2>1. UNCHANGED <<inq, ellipse, ellipses>>
    BY <1>5 DEF ReadArgument, CallRecv, SendResponse, CloseSocket, Lock, Send, Close, socket_vars
  <2>2. PICK there \in Labels : pc' = [pc EXCEPT ![t] = there]
          /\ (pc[t] \in {"start", "recv"} \/ (pc[t] = "lock" /\ there = "push") \/ (pc[t] \in {"send", "close"} /\ there \in {"close", "end"}))
    BY <1>5 DEF ReadArgument, CallRecv, SendResponse, CloseSocket, Lock, Step, Labels
  <2>3. pc'[t] = there
    BY <1>2, <2>2 DEF TypeOK
  <2> QED  BY <1>4, <2>1, <2>2, <2>3 DEF KeptInv, ReceivedOnce, Pushed
<1>6. CASE Receive(t) /\ UNCHANGED ellipse
  <2>1. pc[t] = "receiving" /\ ellipse[t] = NoConn
    BY <1>6 DEF Receive, Step, KeptInv, ReceivedOnce
  <2>2. UNCHANGED <<inq, ellipses>> \/ (from[t] \in Conns /\ RecvData(from[t], 1) /\ ellipse' = [ellipse EXCEPT ![t] = inq[from[t]][1]])
    BY <1>2, <1>6 DEF Receive, RecvEnd, socket_vars, TypeOK
  <2>3. CASE from[t] \in Conns /\ RecvData(from[t], 1) /\ ellipse' = [ellipse EXCEPT ![t] = inq[from[t]][1]]
    <3>1. inq[from[t]][1] \in Conns
      BY <1>2, <2>3, RecvDataTypes
    <3> QED  BY <1>2, <1>6, <2>1, <2>3, <3>1, SocketAssumption DEF TypeOK
  <2> QED  BY <1>4, <1>6, <2>1, <2>2, <2>3
<1>7. CASE Receive(t) /\ from[t] \in Conns /\ RecvData(from[t], 1) /\ ellipse' = [ellipse EXCEPT ![t] = inq[from[t]][1]]
                      /\ pc' = [pc EXCEPT ![t] = "lock"]
  <2> DEFINE c == from[t]
  <2>1. /\ inq[c] # <<>> /\ inq'[c] = Tail(inq[c]) /\ inq[c][1] \in Conns
        /\ \A d \in Conns \ {c} : inq'[d] = inq[d]
    BY <1>2, <1>7, RecvDataTypes
  <2>2. inq[c] = <<c>>
    BY <1>7, <2>1 DEF KeptInv, SendsOnce
  <2>3. inq[c][1] = c /\ inq'[c] = <<>>
    BY <2>1, <2>2
  <2>4. c \in Conns
    BY <1>7
  <2>5. pc[t] = "receiving" /\ pc'[t] = "lock" /\ UNCHANGED ellipses
    BY <1>2, <1>7 DEF Receive, Step, TypeOK
  <2>6. ellipse[t] = NoConn
    BY <2>5 DEF KeptInv, ReceivedOnce
  <2>7. \A u \in Conns : ellipse'[u] = IF u = t THEN c ELSE ellipse[u]
    BY <1>2, <1>7, <2>3 DEF TypeOK
  <2>8. child[c] \notin {"none", "connect", "send"} /\ Unread(c)
    BY <2>1, <2>4 DEF KeptInv, SendsOnce, Unread
  <2> HIDE DEF c
  <2>9. \A u \in Conns : ellipse[u] # c
    BY <2>4, <2>8, SocketAssumption DEF KeptInv, ReceivedOnce
  <2>10. SendsOnce'
    BY <1>1, <2>1, <2>3, <2>4 DEF KeptInv, SendsOnce
  <2>11. ~(child'[c] \in {"none", "connect", "send"} \/ inq'[c] # <<>>) /\ \A d \in Conns : Unread(d)' => Unread(d)
    BY <1>1, <2>1, <2>3, <2>4, <2>8 DEF Unread
  <2>15. \A u \in Conns : ellipse[u] # NoConn => ellipse[u] \in Conns
    BY <1>2 DEF TypeOK
  <2>16. ASSUME NEW u \in Conns, ellipse'[u] # NoConn
         PROVE  /\ pc'[u] \in {"lock", "push", "send", "close", "end"}
                /\ ~Unread(ellipse[u])'
                /\ \A v \in Conns \ {u} : ellipse'[v] # ellipse'[u]
    <3>1. CASE u = t
      BY <2>4, <2>5, <2>7, <2>9, <2>11, <3>1 DEF Unread
    <3>2. CASE u # t
      BY <1>3, <2>7, <2>9, <2>11, <2>15, <2>16, <3>2 DEF KeptInv, ReceivedOnce, Unread
    <3> QED  BY <3>1, <3>2
  <2>12. ReceivedOnce'
    BY <2>16 DEF ReceivedOnce
  <2>13. Listed'
    BY <1>3, <2>5, <2>6, <2>7 DEF KeptInv, Listed
  <2>14. EveryEllipseKept'
    BY <1>3, <2>5, <2>7 DEF KeptInv, EveryEllipseKept
  <2> QED  BY <1>1, <2>10, <2>12, <2>13, <2>14 DEF KeptInv
<1>8. CASE Push(t)
  <2>1. /\ UNCHANGED <<inq, ellipse>> /\ pc[t] = "push" /\ pc'[t] = "send"
        /\ ellipses' = Append(ellipses, ellipse[t]) /\ ellipses \in Seq(Conns \cup {NoConn})
    BY <1>2, <1>8, PushAppends DEF Push, Step, socket_vars, TypeOK
  <2>2. /\ \A k \in DOMAIN ellipses : ellipses'[k] = ellipses[k]
        /\ Len(ellipses) + 1 \notin DOMAIN ellipses
        /\ ellipses'[Len(ellipses) + 1] = ellipse[t]
        /\ DOMAIN ellipses' = DOMAIN ellipses \cup {Len(ellipses) + 1}
    <3>1. Len(ellipses) \in Nat /\ DOMAIN ellipses = 1..Len(ellipses)
      BY <2>1
    <3>2. Len(ellipses') = Len(ellipses) + 1 /\ DOMAIN ellipses' = 1..Len(ellipses') /\ ellipse[t] \in Conns \cup {NoConn}
          /\ ellipses'[Len(ellipses) + 1] = ellipse[t] /\ \A k \in 1..Len(ellipses) : ellipses'[k] = ellipses[k]
      BY <1>2, <2>1 DEF TypeOK
    <3> QED  BY <3>1, <3>2
  <2>3. PICK n : n = Len(ellipses) + 1
    OBVIOUS
  <2>4. SendsOnce' /\ \A c : Unread(c)' = Unread(c)
    BY <1>1, <2>1 DEF KeptInv, SendsOnce, Unread
  <2>5. ReceivedOnce'
    BY <1>3, <2>1, <2>4 DEF KeptInv, ReceivedOnce
  <2>6. Listed'
    BY <1>3, <2>1, <2>2, <2>3 DEF KeptInv, Listed, Pushed
  <2>7. ASSUME ellipse[t] # NoConn, NEW k \in DOMAIN ellipses
        PROVE  ellipses[k] # ellipse[t]
    BY <2>1, <2>7 DEF KeptInv, Listed, ReceivedOnce, Pushed
  <2>8. ASSUME NEW u \in Conns, ellipse'[u] # NoConn, pc'[u] \notin {"lock", "push"}
        PROVE  \E k \in DOMAIN ellipses' :
                 ellipses'[k] = ellipse'[u] /\ \A l \in DOMAIN ellipses' \ {k} : ellipses'[l] # ellipses'[k]
    <3>1. CASE u = t
      BY <2>1, <2>2, <2>3, <2>7, <2>8, <3>1
    <3>2. CASE u # t
      <4>1. ellipse[u] # NoConn /\ pc[u] \notin {"lock", "push"} /\ ellipse[t] # ellipse[u]
        BY <1>3, <2>1, <2>8, <3>2 DEF KeptInv, ReceivedOnce
      <4>2. PICK k \in DOMAIN ellipses : ellipses[k] = ellipse[u] /\ \A l \in DOMAIN ellipses \ {k} : ellipses[l] # ellipses[k]
        BY <4>1 DEF KeptInv, EveryEllipseKept
      <4> QED  BY <2>1, <2>2, <2>3, <4>1, <4>2
    <3> QED  BY <3>1, <3>2
  <2>9. EveryEllipseKept'
    BY <2>8 DEF EveryEllipseKept
  <2> QED  BY <1>1, <2>4, <2>5, <2>6, <2>9 DEF KeptInv
<1>9. Receive(t) => \/ Receive(t) /\ UNCHANGED ellipse
                    \/ Receive(t) /\ from[t] \in Conns /\ RecvData(from[t], 1) /\ ellipse' = [ellipse EXCEPT ![t] = inq[from[t]][1]]
                      /\ pc' = [pc EXCEPT ![t] = "lock"]
  BY <1>2 DEF Receive, Step, TypeOK
<1> QED  BY <1>5, <1>6, <1>7, <1>8, <1>9 DEF ThreadStep

LEMMA KeptMain ==
  ASSUME TypeInv, KeptInv, Fresh, MainStep, UNCHANGED launcher_vars
  PROVE  KeptInv'
<1>1. UNCHANGED <<inq, ellipse, ellipses, launcher, next, child>>
  BY DEF socket_vars, thread_vars, launcher_vars, MainStep, AcceptClient, AcceptFails,
         CreateThread, Accept
<1>2. UNCHANGED pc \/ (mainpc = "create" /\ pc' = [pc EXCEPT ![newest] = "start"])
  BY DEF thread_vars, MainStep, AcceptClient, AcceptFails, CreateThread
<1>3. \A t \in Conns : pc[t] # "none" => pc'[t] = pc[t]
  BY <1>2 DEF Fresh, TypeInv, TypeOK
<1>4. ForksOnce' /\ SendsOnce' /\ \A c \in Conns : Unread(c)' = Unread(c)
  BY <1>1 DEF KeptInv, ForksOnce, SendsOnce, Unread
<1>5. \A t \in Conns : ellipse[t] # NoConn => pc'[t] = pc[t] /\ pc[t] \in {"lock", "push", "send", "close", "end"}
  BY <1>3 DEF KeptInv, ReceivedOnce
<1> QED  BY <1>1, <1>4, <1>5, KeptElsewhere DEF TypeInv, Pushed

LEMMA KeptSigpipe ==
  ASSUME TypeInv, KeptInv, UNCHANGED vars \/ ((\E t \in Conns : Sigpipe(t)) /\ UNCHANGED launcher_vars)
  PROVE  KeptInv'
<1>1. UNCHANGED <<inq, pc, ellipse, ellipses, launcher, next, child>>
  BY DEF vars, socket_vars, server_vars, thread_vars, launcher_vars, Sigpipe, SendSigpipe
<1> QED  BY <1>1 DEF KeptInv, ForksOnce, SendsOnce, ReceivedOnce, Unread, Listed, Pushed, EveryEllipseKept

(***************************************************************************)
(* What a thread has received stays in the list, once, however the threads *)
(* push at the same time.                                                  *)
(***************************************************************************)
THEOREM EllipsesAreKept == Spec => []EveryEllipseKept
<1>1. TypeInv /\ Fresh /\ KeptInv /\ [Next]_vars => KeptInv'
  BY KeptLauncher, KeptClients, KeptMain, KeptThread, KeptSigpipe
  DEF Next, Server, ServerStep
<1>2. KeptInv => EveryEllipseKept
  BY DEF KeptInv
<1> QED  BY KeptInit, EllipseTypeInv, ThreadsAreFresh, <1>1, <1>2, PTL DEF Spec

-----------------------------------------------------------------------------
(* As long as no thread was late, each has the number of its own connection, *)
(* and no other thread has: what it closes and answers is its own.           *)

\* A connection has one number at most.
OneNumber ==
  \A f \in Fds :
    descriptor[f] # NoConn =>
      descriptor[f] \in accepted /\ \A g \in Fds \ {f} : descriptor[g] # descriptor[f]

NotAnswered(t) == outq[t] = <<>> /\ peer[t] # "reset"

Own(t) ==
  /\ pc[t] = "start" => mainpc = "accept" /\ Connection(client_socket) = t
  /\ Serving(t) => Connection(sock[t]) = t
  /\ pc[t] = "end" => Hungup(t)
  /\ pc[t] \notin {"close", "end"} => NotAnswered(t)
  /\ outq[t] \in {<<>>, <<t>>}

Punctual ==
  ~late =>
    /\ mainpc # "exit"
    /\ mainpc = "create" => Connection(client_socket) = newest
    /\ \A t \in Conns : Own(t)

OwnInv == OneNumber /\ Punctual

LEMMA OwnInit == Init => OwnInv
<1> SUFFICES ASSUME Init PROVE OwnInv
  OBVIOUS
<1>1. OneNumber
  BY DEF Init, ServerInit, SocketInit, OneNumber
<1>2. mainpc = "accept" /\ \A t \in Conns : pc[t] = "none" /\ outq[t] = <<>> /\ peer[t] = "new"
  BY DEF Init, ServerInit, SocketInit
<1>3. Punctual
  BY <1>2 DEF Punctual, Own, NotAnswered, Serving
<1> QED  BY <1>1, <1>3 DEF OwnInv

LEMMA OwnClients ==
  ASSUME TypeInv, OwnInv, LauncherStep \/ (\E c \in Conns : Client(c)) \/ UNCHANGED vars
  PROVE  OwnInv'
<1>1. UNCHANGED <<descriptor, accepted, server_vars>>
  BY DEF LauncherStep, Fork, WaitPid, Client, ClientStep, Connect, SendNumber, CloseClient, socket_vars, vars
<1>2. UNCHANGED <<descriptor, accepted, mainpc, client_socket, newest, pc, sock, late>>
  BY <1>1 DEF server_vars, thread_vars, history_vars
<1>3. OneNumber'
  BY <1>2 DEF OwnInv, OneNumber
<1>4. \/ UNCHANGED <<peer, outq>>
      \/ UNCHANGED outq /\ \E c \in Conns : peer' = [peer EXCEPT ![c] = "open"]
      \/ \E c \in Conns : /\ outq' = [outq EXCEPT ![c] = <<>>]
                          /\ peer' = [peer EXCEPT ![c] = IF outq[c] = <<>> THEN "closed" ELSE "reset"]
  BY DEF LauncherStep, Fork, WaitPid, Client, ClientStep, Connect, SendNumber, CloseClient, socket_vars, vars
<1>5. /\ peer \in [Conns -> {"new", "open", "closed", "reset"}]
      /\ outq \in [Conns -> Seq(Conns)]
  BY DEF TypeInv, TypeOK
<1>6. \A t \in Conns : outq'[t] \in {outq[t], <<>>} /\ (NotAnswered(t) => NotAnswered(t)')
  BY <1>4, <1>5 DEF NotAnswered
<1>7. \A f : Connection(f)' = Connection(f)
  BY <1>2 DEF Connection
<1>8. ASSUME NEW t \in Conns, Own(t)
      PROVE  Own(t)'
  BY <1>2, <1>6, <1>7, <1>8 DEF Own, Serving, Hungup
<1>9. Punctual'
  BY <1>2, <1>7, <1>8 DEF OwnInv, Punctual
<1> QED  BY <1>3, <1>9 DEF OwnInv

LEMMA OwnAccept ==
  ASSUME TypeInv, Fresh, OwnInv, AcceptClient
  PROVE  OwnInv'
<1>1. PICK f \in Fds, c \in Conns : Accept(f, c) /\ SetClientSocket(f) /\ newest' = c
  BY DEF AcceptClient
<1>2. /\ c \notin accepted /\ accepted' = accepted \cup {c}
      /\ descriptor[f] = NoConn /\ descriptor' = [descriptor EXCEPT ![f] = c]
      /\ client_socket' = f /\ late' = (late \/ \E t \in Conns : pc[t] = "start")
      /\ mainpc' = "create" /\ UNCHANGED <<peer, outq, pc, sock>>
  BY <1>1 DEF Accept, SetClientSocket, AcceptClient, thread_vars
<1>3. \A g \in Fds : descriptor'[g] = IF g = f THEN c ELSE descriptor[g]
  BY <1>2 DEF TypeInv, TypeOK
<1>4. OneNumber'
  BY <1>2, <1>3 DEF OwnInv, OneNumber
<1>5. Connection(client_socket)' = c
  BY <1>2, <1>3 DEF Connection
<1>6. ASSUME ~late', NEW t \in Conns
      PROVE  Own(t)'
  <2>1. Own(t) /\ pc[t] # "start" /\ (pc[t] # "none" => t # c)
    BY <1>2, <1>6 DEF OwnInv, Punctual, Fresh
  <2>2. Serving(t) => Connection(sock[t])' = t
    BY <1>3, <1>2, <2>1, SocketAssumption DEF Connection, Own
  <2>3. pc[t] = "end" => Hungup(t)'
    BY <1>3, <1>2, <2>1 DEF Hungup, Own
  <2>4. Serving(t)' = Serving(t) /\ NotAnswered(t)' = NotAnswered(t)
    BY <1>2 DEF Serving, NotAnswered
  <2> QED  BY <1>2, <2>1, <2>2, <2>3, <2>4 DEF Own
<1>7. Punctual'
  BY <1>1, <1>2, <1>5, <1>6 DEF Punctual
<1> QED  BY <1>4, <1>7 DEF OwnInv

LEMMA OwnAcceptFails ==
  ASSUME OwnInv, AcceptFails
  PROVE  OwnInv'
<1>1. /\ late' = (late \/ \E t \in Conns : pc[t] = "start") /\ mainpc' = "accept"
      /\ UNCHANGED <<descriptor, accepted, peer, outq, pc, sock>>
  BY DEF AcceptFails, SetClientSocket, socket_vars, thread_vars
<1>2. ASSUME ~late', NEW t \in Conns
      PROVE  Own(t)'
  <2>1. Own(t) /\ pc[t] # "start"
    BY <1>1, <1>2 DEF OwnInv, Punctual
  <2> QED  BY <1>1, <2>1 DEF Own, Serving, Connection, Hungup, NotAnswered
<1>3. OneNumber'
  BY <1>1 DEF OwnInv, OneNumber
<1> QED  BY <1>1, <1>2, <1>3 DEF OwnInv, Punctual

LEMMA OwnCreate ==
  ASSUME TypeInv, Fresh, OwnInv, CreateThread
  PROVE  OwnInv'
<1>1. /\ mainpc = "create" /\ mainpc' = "accept"
      /\ UNCHANGED <<descriptor, accepted, peer, outq, client_socket, sock, late>>
  BY DEF CreateThread, socket_vars
<1>2. UNCHANGED pc \/ pc' = [pc EXCEPT ![newest] = "start"]
  BY DEF CreateThread
<1>3. newest \in Conns /\ pc[newest] = "none" /\ pc \in [Conns -> Labels]
  BY <1>1 DEF Fresh, TypeInv, TypeOK
<1>4. \A t \in Conns : pc'[t] = pc[t] \/ (t = newest /\ pc'[t] = "start")
  BY <1>2, <1>3
<1>5. OneNumber'
  BY <1>1 DEF OwnInv, OneNumber
<1>6. ASSUME ~late', NEW t \in Conns
      PROVE  Own(t)'
  <2>1. Own(t) /\ Connection(client_socket) = newest /\ pc[t] # "start"
    BY <1>1, <1>6 DEF OwnInv, Punctual, Own
  <2>2. Connection(client_socket)' = Connection(client_socket) /\ Connection(sock[t])' = Connection(sock[t])
        /\ NotAnswered(t)' = NotAnswered(t) /\ Hungup(t)' = Hungup(t)
    BY <1>1 DEF Connection, NotAnswered, Hungup
  <2> QED  BY <1>1, <1>3, <1>4, <2>1, <2>2 DEF Own, Serving
<1> QED  BY <1>1, <1>5, <1>6 DEF OwnInv, Punctual

LEMMA OwnSigpipe ==
  ASSUME OwnInv, NEW t \in Conns, Sigpipe(t)
  PROVE  OwnInv'
<1>1. late' = late /\ pc[t] = "send" /\ peer[Connection(sock[t])] = "reset"
      /\ descriptor' = [f \in Fds |-> NoConn]
  BY DEF Sigpipe, SendSigpipe, history_vars
<1>2. late
  BY <1>1 DEF OwnInv, Punctual, Own, Serving, NotAnswered
<1> QED  BY <1>1, <1>2 DEF OwnInv, OneNumber, Punctual

\* A thread that closes nothing but its own number.
LEMMA OwnThread ==
  ASSUME TypeInv, Fresh, OwnInv, NEW t \in Conns, ThreadStep(t)
  PROVE  OwnInv'
<1>1. TypeOK
  BY DEF TypeInv
<1>2. /\ UNCHANGED <<mainpc, client_socket, newest, late, accepted>>
      /\ pc' \in [Conns -> Labels] /\ pc[t] \notin {"none", "end"} /\ pc'[t] \notin {"none", "start"}
      /\ \A u \in Conns \ {t} : pc'[u] = pc[u]
  BY <1>1, ThreadFrame
<1>3. CASE CloseSocket(t)
  <2>1. /\ pc[t] = "close" /\ pc'[t] = "end" /\ UNCHANGED <<peer, outq>>
        /\ sock' = [sock EXCEPT ![t] = -1]
        /\ descriptor' = IF sock[t] \in Fds THEN [descriptor EXCEPT ![sock[t]] = NoConn] ELSE descriptor
    BY <1>1, <1>3 DEF CloseSocket, Close, Step, TypeOK
  <2>2. \A g \in Fds : descriptor'[g] = IF g = sock[t] THEN NoConn ELSE descriptor[g]
    BY <1>1, <2>1 DEF TypeOK
  <2>3. \A u \in Conns \ {t} : sock'[u] = sock[u]
    BY <1>1, <2>1 DEF TypeOK
  <2>4. OneNumber'
    BY <1>2, <2>2 DEF OwnInv, OneNumber
  <2>5. ASSUME ~late
        PROVE  /\ Connection(sock[t]) = t /\ t \in accepted /\ sock[t] \in Fds /\ descriptor[sock[t]] = t
               /\ \A f : Connection(f) # t => Connection(f)' = Connection(f)
    BY <1>2, <2>1, <2>2, <2>5, SocketAssumption DEF OwnInv, Punctual, Own, Serving, Connection, Fresh
  <2>6. ASSUME ~late, NEW u \in Conns \ {t}
        PROVE  Own(u)'
    <3>1. Own(u)
      BY <2>6 DEF OwnInv, Punctual
    <3>2. pc[u] = "start" => Connection(client_socket)' = u
      BY <1>2, <2>5, <2>6, <3>1 DEF Own
    <3>3. Serving(u) => Connection(sock[u])' = u
      BY <2>3, <2>5, <2>6, <3>1 DEF Own
    <3>4. Hungup(u) => Hungup(u)'
      BY <1>2, <2>2, SocketAssumption DEF Hungup
    <3>5. Serving(u)' = Serving(u) /\ NotAnswered(u)' = NotAnswered(u)
      BY <1>2, <2>1 DEF Serving, NotAnswered
    <3> QED  BY <1>2, <2>1, <3>1, <3>2, <3>3, <3>4, <3>5 DEF Own
  <2>7. ASSUME ~late
        PROVE  Own(t)'
    <3>1. Hungup(t)'
      <4>1. NoConn # t
        BY SocketAssumption
      <4>2. \A g \in Fds \ {sock[t]} : descriptor[g] # t
        BY <2>5, <2>7, <4>1 DEF OwnInv, OneNumber
      <4>3. t \in accepted'
        BY <1>2, <2>5, <2>7
      <4>4. \A g \in Fds : descriptor'[g] # t
        BY <2>2, <4>1, <4>2
      <4> QED  BY <4>3, <4>4 DEF Hungup
    <3>2. outq[t] \in {<<>>, <<t>>}
      BY <2>7 DEF OwnInv, Punctual, Own
    <3> QED  BY <2>1, <3>1, <3>2 DEF Own, Serving
  <2>8. ~late => (mainpc = "create" => Connection(client_socket)' = newest)
    BY <1>2, <2>5, <2>1 DEF OwnInv, Punctual, Fresh
  <2> QED  BY <1>2, <2>4, <2>6, <2>7, <2>8 DEF OwnInv, Punctual
<1>4. CASE ~CloseSocket(t)
  <2>1. UNCHANGED descriptor /\ pc[t] # "close"
    BY <1>4 DEF ThreadStep, ReadArgument, CallRecv, Receive, Lock, Push, SendResponse, Step,
         socket_vars, RecvData, RecvEnd, Send
  <2>2. OneNumber' /\ \A f : Connection(f)' = Connection(f)
    BY <1>2, <2>1 DEF OwnInv, OneNumber, Connection
  <2>3. pc'[t] # "end" /\ pc[t] # "close" /\ (pc'[t] = "close" => pc[t] \in {"receiving", "send"})
    BY <1>1, <1>4 DEF ThreadStep, ReadArgument, CallRecv, Receive, Lock, Push, SendResponse, Step, TypeOK
  <2>4. \/ UNCHANGED sock /\ Serving(t)
        \/ sock' = [sock EXCEPT ![t] = client_socket] /\ pc[t] = "start"
    BY <1>4 DEF ThreadStep, ReadArgument, CallRecv, Receive, Lock, Push, SendResponse, Step, Serving
  <2>5. /\ \A u \in Conns \ {t} : sock'[u] = sock[u]
        /\ sock'[t] = IF pc[t] = "start" THEN client_socket ELSE sock[t]
    BY <1>1, <2>4 DEF TypeOK, Serving
  <2>6. \/ UNCHANGED <<peer, outq>>
        \/ pc[t] = "send" /\ pc'[t] = "close" /\ Send(Connection(sock[t]), t)
    BY <1>1, <1>4 DEF ThreadStep, ReadArgument, CallRecv, Receive, Lock, Push, SendResponse, Step,
         socket_vars, RecvData, RecvEnd, TypeOK
  <2>7. ASSUME ~late
        PROVE  /\ \A u \in Conns \ {t} : outq'[u] = outq[u] /\ peer'[u] = peer[u]
               /\ outq'[t] \in {<<>>, <<t>>}
               /\ pc'[t] # "close" => NotAnswered(t)'
    <3>1. Own(t)
      BY <2>7 DEF OwnInv, Punctual
    <3>2. CASE UNCHANGED <<peer, outq>>
      BY <2>1, <2>3, <3>1, <3>2, <1>2 DEF Own, NotAnswered
    <3>3. CASE pc[t] = "send" /\ pc'[t] = "close" /\ Send(Connection(sock[t]), t)
      <4>1. Connection(sock[t]) = t /\ outq[t] = <<>>
        BY <3>1, <3>3 DEF Own, Serving, NotAnswered
      <4>2. Send(t, t)
        BY <3>3, <4>1
      <4>3. UNCHANGED outq \/ outq' = [outq EXCEPT ![t] = Append(@, t)]
        BY <4>2 DEF Send
      <4>4. UNCHANGED peer \/ \E end \in {"closed", "reset"} : peer' = [peer EXCEPT ![t] = end]
        BY <4>2 DEF Send
      <4>5. Append(outq[t], t) = <<t>>
        BY <4>1
      <4>6. /\ peer \in [Conns -> {"new", "open", "closed", "reset"}]
            /\ outq \in [Conns -> Seq(Conns)]
        BY <1>1 DEF TypeOK
      <4>7. \A u \in Conns \ {t} : outq'[u] = outq[u] /\ peer'[u] = peer[u]
        BY <4>3, <4>4, <4>6
      <4>8. outq'[t] \in {<<>>, <<t>>}
        BY <4>1, <4>3, <4>5, <4>6
      <4> QED  BY <3>3, <4>7, <4>8
    <3> QED  BY <2>6, <3>2, <3>3
  <2>8. ASSUME ~late, NEW u \in Conns
        PROVE  Own(u)'
    <3>1. Own(u)
      BY <2>8 DEF OwnInv, Punctual
    <3>2. Hungup(u)' = Hungup(u)
      BY <1>2, <2>1 DEF Hungup
    <3>3. CASE u = t
      <4>1. Connection(sock[t])' = t
        BY <1>2, <2>2, <2>4, <2>5, <3>1, <3>3 DEF Own
      <4> QED  BY <1>2, <2>3, <2>7, <2>8, <3>3, <4>1 DEF Own
    <3>4. CASE u # t
      <4>1. pc'[u] = pc[u] /\ sock'[u] = sock[u] /\ outq'[u] = outq[u] /\ peer'[u] = peer[u]
        BY <1>2, <2>5, <2>7, <2>8, <3>4
      <4>2. Connection(sock[u])' = Connection(sock[u]) /\ Connection(client_socket)' = Connection(client_socket)
        BY <1>2, <2>2, <4>1
      <4> QED  BY <1>2, <3>1, <3>2, <4>1, <4>2 DEF Own, Serving, NotAnswered
    <3> QED  BY <3>3, <3>4
  <2>9. Punctual'
    BY <1>2, <2>2, <2>8 DEF OwnInv, Punctual
  <2> QED  BY <2>2, <2>9 DEF OwnInv
<1> QED  BY <1>3, <1>4

(***************************************************************************)
(* As long as every thread has read client_socket before main set it again,*)
(* each thread serves and closes its own connection, is the only one to    *)
(* answer on it, and no answer ends the process.                           *)
(***************************************************************************)
THEOREM EllipseOwnUnlessLate == Spec => []OwnUnlessLate
<1>1. TypeInv /\ Fresh /\ OwnInv /\ [Next]_vars => OwnInv'
  BY OwnClients, OwnAccept, OwnAcceptFails, OwnCreate, OwnThread, OwnSigpipe
  DEF Next, Server, ServerStep, MainStep
<1>2. OwnInv => OwnUnlessLate
  BY DEF OwnInv, Punctual, Own, Serving, OwnUnlessLate
<1> QED  BY OwnInit, EllipseTypeInv, ThreadsAreFresh, <1>1, <1>2, PTL DEF Spec

=============================================================================
