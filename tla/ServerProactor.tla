--------------------------- MODULE ServerProactor ---------------------------
(***************************************************************************)
(* Ex.3/section_c/server_proactor.c: handle_connection, the handler the    *)
(* server gives to the proactor for every socket, with the list of clients *)
(* and the broadcast.  It closes the socket itself before it returns, and  *)
(* it inserts the client without the mutex that broadcast and removal take.*)
(*                                                                         *)
(* recv and send look the descriptor number up when they are called and    *)
(* stay with that connection while they block, whatever becomes of the     *)
(* number: a call and its return are two actions.  num_clients is counted  *)
(* but never read, and left out.                                           *)
(***************************************************************************)
EXTENDS Proactor, Sequences

VARIABLES clients,        \* the list of connected clients
          clients_mutex,  \* the thread in the broadcast loop, or NoConn
          buffer,         \* what recv returned
          client,         \* locals new_client and current, a cell
          file            \* the connection a blocking call is on, or NoConn

handler_vars == <<clients, clients_mutex, buffer, client, file>>

HandlerInit ==
  /\ clients = EmptyList
  /\ clients_mutex = NoConn
  /\ buffer = [c \in Conns |-> <<>>]
  /\ client = [c \in Conns |-> NULL]
  /\ file = [c \in Conns |-> NoConn]

\* What a call with the number f works on; a bad number is EBADF.
FileOf(f) == IF f \in Fds THEN descriptor[f] ELSE NoConn

\* What handle_connection leaves alone: the variables of the library but pc.
library_vars == <<running, socket_handlers, mutex, main_vars, arg, socket>>

At(c, label) == running /\ pc[c] = label

-----------------------------------------------------------------------------
(* handle_connection: the client is put into the list. *)

\* malloc, new_client->socket = socket, new_client->next = clients
NewClient(c) ==
  /\ At(c, "new")
  /\ \E a \in Cells \ clients.allocated :
       /\ clients' = PointToFirst(NewCell(clients, a, socket[c]), a)
       /\ client' = [client EXCEPT ![c] = a]
  /\ Goto(c, "insert")
  /\ UNCHANGED <<library_vars, clients_mutex, buffer, file, socket_vars>>

\* clients = new_client
InsertClient(c) ==
  /\ At(c, "insert")
  /\ clients' = [clients EXCEPT !.first = client[c]]
  /\ Goto(c, "recv")
  /\ UNCHANGED <<library_vars, clients_mutex, buffer, client, file, socket_vars>>

-----------------------------------------------------------------------------
(* The receive loop. *)

RecvCall(c) ==
  /\ At(c, "recv")
  /\ file' = [file EXCEPT ![c] = FileOf(socket[c])]
  /\ Goto(c, "receiving")
  /\ UNCHANGED <<library_vars, clients, clients_mutex, buffer, client, socket_vars>>

Receive(c) ==
  /\ At(c, "receiving") /\ file[c] # NoConn
  /\ \E n \in 1..Len(inq[file[c]]) :
       /\ RecvData(file[c], n)
       /\ buffer' = [buffer EXCEPT ![c] = SubSeq(inq[file[c]], 1, n)]
  /\ file' = [file EXCEPT ![c] = NoConn]
  /\ Goto(c, "lock")
  /\ UNCHANGED <<library_vars, clients, clients_mutex, client>>

Disconnected(c) ==
  /\ At(c, "receiving")
  /\ RecvEnd(file[c])
  /\ file' = [file EXCEPT ![c] = NoConn]
  /\ Goto(c, "remove")
  /\ UNCHANGED <<library_vars, clients, clients_mutex, buffer, client>>

-----------------------------------------------------------------------------
(* send_message_to_clients. *)

BroadcastLock(c) ==
  /\ At(c, "lock") /\ clients_mutex = NoConn
  /\ clients_mutex' = c
  /\ client' = [client EXCEPT ![c] = clients.first]
  /\ Goto(c, "broadcast")
  /\ UNCHANGED <<library_vars, clients, buffer, file, socket_vars>>

NextClient(c) == client' = [client EXCEPT ![c] = clients.next[@]]

\* A cell with the sender's number is passed over.
BroadcastSkip(c) ==
  /\ At(c, "broadcast") /\ client[c] # NULL
  /\ clients.socket[client[c]] = socket[c]
  /\ NextClient(c)
  /\ UNCHANGED <<library_vars, pc, clients, clients_mutex, buffer, file, socket_vars>>

\* Deviation: the sender is not left out.
SendCallToAll(c) ==
  /\ At(c, "broadcast") /\ client[c] # NULL
  /\ file' = [file EXCEPT ![c] = FileOf(clients.socket[client[c]])]
  /\ Goto(c, "sending")
  /\ UNCHANGED <<library_vars, clients, clients_mutex, buffer, client, socket_vars>>

SendCall(c) ==
  /\ At(c, "broadcast") /\ client[c] # NULL
  /\ clients.socket[client[c]] # socket[c]
  /\ file' = [file EXCEPT ![c] = FileOf(clients.socket[client[c]])]
  /\ Goto(c, "sending")
  /\ UNCHANGED <<library_vars, clients, clients_mutex, buffer, client, socket_vars>>

SendReturn(c) ==
  /\ At(c, "sending")
  /\ Send(file[c], buffer[c])
  /\ file' = [file EXCEPT ![c] = NoConn]
  /\ NextClient(c)
  /\ Goto(c, "broadcast")
  /\ UNCHANGED <<library_vars, clients, clients_mutex, buffer>>

\* send raises SIGPIPE.
Sigpipe(c) ==
  /\ At(c, "sending")
  /\ SendSigpipe(file[c])
  /\ running' = FALSE
  /\ file' = [d \in Conns |-> NoConn]
  /\ UNCHANGED <<socket_handlers, mutex, main_vars, worker_vars, clients,
                 clients_mutex, buffer, client>>

BroadcastUnlock(c) ==
  /\ At(c, "broadcast") /\ client[c] = NULL
  /\ clients_mutex' = NoConn
  /\ Goto(c, "recv")
  /\ UNCHANGED <<library_vars, clients, buffer, client, file, socket_vars>>

-----------------------------------------------------------------------------
(* handle_connection: the client is removed, the socket closed. *)

\* A search in a circle keeps clients_mutex for ever.
RemoveClient(c) ==
  /\ At(c, "remove") /\ clients_mutex = NoConn
  /\ clients' = Unlink(clients, socket[c])
  /\ LET endless == Endless(clients, socket[c]) IN
       /\ clients_mutex' = IF endless THEN c ELSE NoConn
       /\ Goto(c, IF endless THEN "spin" ELSE "hang up")
  /\ UNCHANGED <<library_vars, buffer, client, file, socket_vars>>

\* close(socket), and handle_connection returns to worker_thread.
HangUp(c) ==
  /\ At(c, "hang up")
  /\ Close(socket[c])
  /\ Goto(c, "cleanup")
  /\ UNCHANGED <<library_vars, handler_vars>>

-----------------------------------------------------------------------------
(***************************************************************************)
(* A loop goes on from a cell that has been freed: the pointer in it may   *)
(* have been written over, and then the process is likely to end there.    *)
(* (The pointer of a node of proactor.c lies behind what free overwrites.) *)
(***************************************************************************)
Freed == Cells \ clients.allocated

SearchPassesFreed(c) ==
  \E n \in DOMAIN Path(clients) : /\ Path(clients)[n] \in Freed
                                 /\ \A k \in Matches(clients, socket[c]) : n < k

FollowFreed(c) ==
  /\ \/ At(c, "broadcast") /\ client[c] \in Freed
     \/ At(c, "remove") /\ clients_mutex = NoConn /\ SearchPassesFreed(c)
  /\ running' = FALSE
  /\ UNCHANGED <<socket_handlers, mutex, main_vars, worker_vars, handler_vars,
                 socket_vars>>

HandlerNext(c) ==
  \/ NewClient(c) \/ InsertClient(c)
  \/ RecvCall(c) \/ Receive(c) \/ Disconnected(c)
  \/ BroadcastLock(c) \/ BroadcastSkip(c) \/ SendCall(c) \/ SendReturn(c)
  \/ Sigpipe(c) \/ BroadcastUnlock(c)
  \/ RemoveClient(c) \/ HangUp(c) \/ FollowFreed(c)

=============================================================================
