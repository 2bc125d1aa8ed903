------------------------------ MODULE Proactor ------------------------------
(***************************************************************************)
(* Ex.3/section_b/proactor.c, and the loop in main of server_proactor.c    *)
(* that calls it: each accepted socket gets a node in a list and a detached*)
(* thread, which looks the handler up by the socket's number, runs it,     *)
(* removes the node and closes the socket.                                 *)
(*                                                                         *)
(* A thread is named by the connection it was created for.  A critical     *)
(* section is one action, guarded by the mutex being free; a search that   *)
(* never ends keeps the mutex.  All nodes have the same handler; the module*)
(* that has it says at which label of pc it begins and ends at "cleanup".  *)
(***************************************************************************)
EXTENDS Sockets, SocketList

CONSTANTS ThreadFailures  \* bound: calls of pthread_create that fail

ASSUME ProactorAssumption == ThreadFailures \in Nat /\ 0 \notin Fds

VARIABLES running,          \* the process has not been ended
          socket_handlers,  \* the list of nodes
          mutex,            \* the thread that keeps the mutex, or NoConn
          main_pc,          \* where main is
          client_socket,    \* its local
          connection,       \* what client_socket referred to when accepted
          new_socket_handler, \* local of proactor_add_socket
          pc,               \* where each thread is
          arg,              \* the node whose socket field the thread reads
          socket,           \* local of worker_thread
          failures          \* failed calls of pthread_create so far

main_vars == <<main_pc, client_socket, connection, new_socket_handler, failures>>
worker_vars == <<pc, arg, socket>>
proactor_vars == <<running, socket_handlers, mutex, main_vars, worker_vars>>

ProactorInit ==
  /\ running = TRUE
  /\ socket_handlers = EmptyList
  /\ mutex = NoConn
  /\ main_pc = "accept" /\ client_socket = 0 /\ connection = NoConn
  /\ new_socket_handler = NULL
  /\ pc = [c \in Conns |-> "none"]
  /\ arg = [c \in Conns |-> NULL]
  /\ socket = [c \in Conns |-> 0]
  /\ failures = 0

Goto(c, label) == pc' = [pc EXCEPT ![c] = label]

-----------------------------------------------------------------------------
(* main and proactor_add_socket. *)

MainAccept ==
  /\ running /\ main_pc = "accept"
  /\ \E f \in Fds, c \in Conns :
       Accept(f, c) /\ client_socket' = f /\ connection' = c
  /\ main_pc' = "add"
  /\ UNCHANGED <<running, socket_handlers, mutex, new_socket_handler, failures,
                 worker_vars>>

\* A new node is made without the mutex.
NewNode ==
  /\ running /\ main_pc = "add"
  /\ \E a \in Cells \ socket_handlers.allocated :
       /\ socket_handlers' = NewCell(socket_handlers, a, client_socket)
       /\ new_socket_handler' = a
  /\ main_pc' = "link"
  /\ UNCHANGED <<running, mutex, client_socket, connection, failures, worker_vars,
                 socket_vars>>

\* It is put in front of the others under the mutex.
AddNode ==
  /\ running /\ main_pc = "link" /\ mutex = NoConn
  /\ socket_handlers' = [PointToFirst(socket_handlers, new_socket_handler)
                           EXCEPT !.first = new_socket_handler]
  /\ main_pc' = "create"
  /\ UNCHANGED <<running, mutex, client_socket, connection, new_socket_handler, failures,
                 worker_vars, socket_vars>>

\* pthread_create starts worker_thread with the address of the node's socket.
CreateThread ==
  /\ running /\ main_pc = "create"
  /\ Goto(connection, "start")
  /\ arg' = [arg EXCEPT ![connection] = new_socket_handler]
  /\ main_pc' = "accept"
  /\ UNCHANGED <<running, socket_handlers, mutex, client_socket, connection,
                 new_socket_handler, failures, socket, socket_vars>>

\* pthread_create fails: the node is freed, it stays in the list.
CreateThreadFails ==
  /\ running /\ main_pc = "create" /\ failures < ThreadFailures /\ mutex = NoConn
  /\ socket_handlers' = Free(socket_handlers, new_socket_handler)
  /\ Close(client_socket)
  /\ failures' = failures + 1
  /\ main_pc' = "accept"
  /\ UNCHANGED <<running, mutex, client_socket, connection, new_socket_handler,
                 worker_vars>>

MainNext == MainAccept \/ NewNode \/ AddNode \/ CreateThread \/ CreateThreadFails

-----------------------------------------------------------------------------
(* worker_thread. *)

\* int socket = *(int*)arg, from the node without the mutex.
ReadSocket(c) ==
  /\ running /\ pc[c] = "start"
  /\ socket' = [socket EXCEPT ![c] = socket_handlers.socket[arg[c]]]
  /\ Goto(c, "lookup")
  /\ UNCHANGED <<running, socket_handlers, mutex, main_vars, arg, socket_vars>>

\* After its search the thread is at label; a search in a circle has no end
\* and keeps the mutex.
Searched(c, label) ==
  LET endless == Endless(socket_handlers, socket[c]) IN
  /\ mutex' = IF endless THEN c ELSE NoConn
  /\ Goto(c, IF endless THEN "spin" ELSE label)

\* Without a node of this number there is no handler.
Lookup(c, handler) ==
  /\ running /\ pc[c] = "lookup" /\ mutex = NoConn
  /\ Searched(c, IF Found(socket_handlers, socket[c]) THEN handler ELSE "cleanup")
  /\ UNCHANGED <<running, socket_handlers, main_vars, arg, socket, socket_vars>>

\* Deviation: the socket is closed while its node is removed, and once more.
RemoveNodeAndClose(c) ==
  /\ running /\ pc[c] = "cleanup" /\ mutex = NoConn
  /\ socket_handlers' = Unlink(socket_handlers, socket[c])
  /\ Close(socket[c])
  /\ Searched(c, "close")
  /\ UNCHANGED <<running, main_vars, arg, socket>>

\* Deviation: the mutex is kept when a node was found.
RemoveNodeWithoutUnlock(c) ==
  /\ running /\ pc[c] = "cleanup" /\ mutex = NoConn
  /\ socket_handlers' = Unlink(socket_handlers, socket[c])
  /\ mutex' = IF Found(socket_handlers, socket[c]) THEN c ELSE NoConn
  /\ Goto(c, "close")
  /\ UNCHANGED <<running, main_vars, arg, socket, socket_vars>>

RemoveNode(c) ==
  /\ running /\ pc[c] = "cleanup" /\ mutex = NoConn
  /\ socket_handlers' = Unlink(socket_handlers, socket[c])
  /\ Searched(c, "close")
  /\ UNCHANGED <<running, main_vars, arg, socket, socket_vars>>

CloseSocket(c) ==
  /\ running /\ pc[c] = "close"
  /\ Close(socket[c])
  /\ Goto(c, "done")
  /\ UNCHANGED <<running, socket_handlers, mutex, main_vars, arg, socket>>

WorkerNext(c, handler) ==
  ReadSocket(c) \/ Lookup(c, handler) \/ RemoveNode(c) \/ CloseSocket(c)

=============================================================================
