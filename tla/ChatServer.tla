----------------------------- MODULE ChatServer -----------------------------
(***************************************************************************)
(* Ex.3/section_a/chat_server.c: main accepts connections and starts one   *)
(* detached handle_client thread for each; the threads share the array     *)
(* client_sockets under clients_mutex.                                     *)
(*                                                                         *)
(* A handler thread is named by the connection it was created for, a name  *)
(* the code does not have: the code knows descriptor numbers only.         *)
(* num_clients is Len(client_sockets).  A critical section that cannot     *)
(* block is one action, guarded by the mutex being free; the broadcast     *)
(* loop, which calls send, is one action per iteration.                    *)
(***************************************************************************)
EXTENDS Sockets, SequencesExt

CONSTANTS ThreadFailures  \* bound: calls of pthread_create that fail

ASSUME ChatServerAssumption == ThreadFailures \in Nat

VARIABLES running,         \* the server process has not been ended
          client_sockets,  \* the registered descriptor numbers
          clients_mutex,   \* the thread in the broadcast loop, or NoConn
          main_pc, client_socket,  \* the accept loop and its local
          pc,              \* where each handler thread is
          socket,          \* client->socket
          buffer,          \* what recv returned
          next,            \* index of the broadcast loop
          failures         \* failed calls of pthread_create so far

main_vars == <<main_pc, client_socket, failures>>
handler_vars == <<pc, socket, buffer, next>>
server_vars == <<running, client_sockets, clients_mutex, main_vars, handler_vars>>

ServerInit ==
  /\ running = TRUE
  /\ client_sockets = <<>>
  /\ clients_mutex = NoConn
  /\ main_pc = "accept" /\ client_socket = 0
  /\ pc = [c \in Conns |-> "none"]
  /\ socket = [c \in Conns |-> 0]
  /\ buffer = [c \in Conns |-> <<>>]
  /\ next = [c \in Conns |-> 0]
  /\ failures = 0

Goto(c, label) == pc' = [pc EXCEPT ![c] = label]

\* The first entry equal to f goes and the rest moves up, if there is one.
Unregister(f) ==
  \/ \E k \in DOMAIN client_sockets :
       /\ client_sockets[k] = f /\ \A i \in 1..(k - 1) : client_sockets[i] # f
       /\ client_sockets' = RemoveAt(client_sockets, k)
  \/ ~Contains(client_sockets, f) /\ UNCHANGED client_sockets

-----------------------------------------------------------------------------
(***************************************************************************)
(* Deviations: versions of actions below with one mistake each.  No        *)
(* specification uses them; each breaks one of the properties.             *)
(***************************************************************************)

\* handle_client sees only an error of recv as the end, not its 0.
DisconnectedOnErrorOnly(c) ==
  /\ running /\ pc[c] = "recv"
  /\ LET d == descriptor[socket[c]] IN
       RecvEnd(d) /\ (d = NoConn \/ peer[d] = "reset")
  /\ Goto(c, "close")
  /\ UNCHANGED <<running, client_sockets, clients_mutex, main_vars, socket,
                 buffer, next>>

\* The broadcast loop runs without the mutex.
BroadcastWithoutLock(c) ==
  /\ running /\ pc[c] = "lock"
  /\ clients_mutex' = c
  /\ next' = [next EXCEPT ![c] = 1]
  /\ Goto(c, "send")
  /\ UNCHANGED <<running, client_sockets, main_vars, socket, buffer, socket_vars>>

\* The loop does not skip the sender.
BroadcastSendToAll(c) ==
  /\ running /\ pc[c] = "send" /\ next[c] <= Len(client_sockets)
  /\ Send(descriptor[client_sockets[next[c]]], buffer[c])
  /\ next' = [next EXCEPT ![c] = @ + 1]
  /\ UNCHANGED <<running, client_sockets, clients_mutex, main_vars, pc, socket,
                 buffer>>

\* The socket is closed a second time when its entry has been removed.
RemoveClientAndClose(c) ==
  /\ running /\ pc[c] = "remove" /\ clients_mutex = NoConn
  /\ Unregister(socket[c])
  /\ Close(socket[c])
  /\ Goto(c, "done")
  /\ UNCHANGED <<running, clients_mutex, main_vars, socket, buffer, next>>

\* The removal loop has no break: every entry with the number goes.
RemoveEveryEntry(c) ==
  /\ running /\ pc[c] = "remove" /\ clients_mutex = NoConn
  /\ client_sockets' = SelectSeq(client_sockets, LAMBDA f : f # socket[c])
  /\ Goto(c, "done")
  /\ UNCHANGED <<running, clients_mutex, main_vars, socket, buffer, next, socket_vars>>

\* The entry is zeroed, the rest does not move up.
RemoveByZeroing(c) ==
  /\ running /\ pc[c] = "remove" /\ clients_mutex = NoConn
  /\ client_sockets' = [k \in DOMAIN client_sockets |->
                         IF client_sockets[k] = socket[c] THEN 0 ELSE client_sockets[k]]
  /\ Goto(c, "done")
  /\ UNCHANGED <<running, clients_mutex, main_vars, socket, buffer, next, socket_vars>>

\* The entry is removed without the mutex.
RemoveWithoutLock(c) ==
  /\ running /\ pc[c] = "remove"
  /\ Unregister(socket[c])
  /\ Goto(c, "done")
  /\ UNCHANGED <<running, clients_mutex, main_vars, socket, buffer, next, socket_vars>>

\* The thread returns as soon as it has removed the entry, with the mutex.
RemoveWithoutUnlock(c) ==
  /\ running /\ pc[c] = "remove" /\ clients_mutex = NoConn
  /\ clients_mutex' = c
  /\ Unregister(socket[c])
  /\ Goto(c, "done")
  /\ UNCHANGED <<running, main_vars, socket, buffer, next, socket_vars>>

-----------------------------------------------------------------------------
(* The accept loop of main. *)

\* accept; when no number is free it fails and is called again.
MainAccept ==
  /\ running /\ main_pc = "accept"
  /\ \E f \in Fds, c \in Conns : Accept(f, c) /\ client_socket' = f
  /\ main_pc' = "register"
  /\ UNCHANGED <<running, client_sockets, clients_mutex, failures, handler_vars>>

\* client_sockets[num_clients] = client_socket; num_clients++
MainRegister ==
  /\ running /\ main_pc = "register" /\ clients_mutex = NoConn
  /\ client_sockets' = Append(client_sockets, client_socket)
  /\ main_pc' = "create"
  /\ UNCHANGED <<running, clients_mutex, client_socket, failures, handler_vars,
                 socket_vars>>

\* pthread_create starts handle_client for the accepted connection.
MainCreate ==
  /\ running /\ main_pc = "create"
  /\ LET c == descriptor[client_socket] IN
       /\ Goto(c, "recv")
       /\ socket' = [socket EXCEPT ![c] = client_socket]
  /\ main_pc' = "accept"
  /\ UNCHANGED <<running, client_sockets, clients_mutex, client_socket, failures,
                 buffer, next, socket_vars>>

\* pthread_create fails: the socket is closed, its array entry stays.
MainCreateFails ==
  /\ running /\ main_pc = "create" /\ failures < ThreadFailures
  /\ Close(client_socket)
  /\ failures' = failures + 1
  /\ main_pc' = "accept"
  /\ UNCHANGED <<running, client_sockets, clients_mutex, client_socket, handler_vars>>

-----------------------------------------------------------------------------
(* handle_client and send_message_to_clients. *)

Receive(c) ==
  /\ running /\ pc[c] = "recv"
  /\ LET d == descriptor[socket[c]] IN
       /\ d # NoConn
       /\ \E n \in 1..Len(inq[d]) :
            /\ RecvData(d, n)
            /\ buffer' = [buffer EXCEPT ![c] = SubSeq(inq[d], 1, n)]
  /\ Goto(c, "lock")
  /\ UNCHANGED <<running, client_sockets, clients_mutex, main_vars, socket, next>>

Disconnected(c) ==
  /\ running /\ pc[c] = "recv"
  /\ RecvEnd(descriptor[socket[c]])
  /\ Goto(c, "close")
  /\ UNCHANGED <<running, client_sockets, clients_mutex, main_vars, socket,
                 buffer, next>>

BroadcastLock(c) ==
  /\ running /\ pc[c] = "lock" /\ clients_mutex = NoConn
  /\ clients_mutex' = c
  /\ next' = [next EXCEPT ![c] = 1]
  /\ Goto(c, "send")
  /\ UNCHANGED <<running, client_sockets, main_vars, socket, buffer, socket_vars>>

\* One iteration; the sender's own number is skipped.
BroadcastSend(c) ==
  /\ running /\ pc[c] = "send" /\ next[c] <= Len(client_sockets)
  /\ LET f == client_sockets[next[c]] IN
       IF f = socket[c] THEN UNCHANGED socket_vars
                        ELSE Send(descriptor[f], buffer[c])
  /\ next' = [next EXCEPT ![c] = @ + 1]
  /\ UNCHANGED <<running, client_sockets, clients_mutex, main_vars, pc, socket,
                 buffer>>

\* The send of an iteration raises SIGPIPE.
BroadcastSigpipe(c) ==
  /\ running /\ pc[c] = "send" /\ next[c] <= Len(client_sockets)
  /\ client_sockets[next[c]] # socket[c]
  /\ SendSigpipe(descriptor[client_sockets[next[c]]])
  /\ running' = FALSE
  /\ UNCHANGED <<client_sockets, clients_mutex, main_vars, handler_vars>>

BroadcastUnlock(c) ==
  /\ running /\ pc[c] = "send" /\ next[c] > Len(client_sockets)
  /\ clients_mutex' = NoConn
  /\ Goto(c, "recv")
  /\ UNCHANGED <<running, client_sockets, main_vars, socket, buffer, next, socket_vars>>

CloseSocket(c) ==
  /\ running /\ pc[c] = "close"
  /\ Close(socket[c])
  /\ Goto(c, "remove")
  /\ UNCHANGED <<running, client_sockets, clients_mutex, main_vars, socket,
                 buffer, next>>

RemoveClient(c) ==
  /\ running /\ pc[c] = "remove" /\ clients_mutex = NoConn
  /\ Unregister(socket[c])
  /\ Goto(c, "done")
  /\ UNCHANGED <<running, clients_mutex, main_vars, socket, buffer, next, socket_vars>>

MainNext == MainAccept \/ MainRegister \/ MainCreate \/ MainCreateFails

HandlerNext(c) ==
  \/ Receive(c) \/ Disconnected(c)
  \/ BroadcastLock(c) \/ BroadcastSend(c) \/ BroadcastUnlock(c)
  \/ BroadcastSigpipe(c)
  \/ CloseSocket(c) \/ RemoveClient(c)

ServerNext == MainNext \/ \E c \in Conns : HandlerNext(c)

=============================================================================
