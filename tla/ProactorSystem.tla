--------------------------- MODULE ProactorSystem ---------------------------
(***************************************************************************)
(* server_proactor.c over proactor.c, together with the chat_client.c      *)
(* programs connected to it.                                               *)
(***************************************************************************)
EXTENDS ServerProactor, ChatRoom

vars == <<socket_vars, proactor_vars, handler_vars, client_vars>>

Init == SocketInit /\ ProactorInit /\ HandlerInit /\ ClientInit

\* A connection without a number is still open while a call is on it.
InCall(c) == \E d \in Conns : file[d] = c

Client(c) == /\ peer[c] = "new" => running
             /\ ClientNext(c, Hungup(c) /\ ~InCall(c))
             /\ UNCHANGED <<proactor_vars, handler_vars>>

Main == MainNext /\ UNCHANGED <<handler_vars, client_vars>>

Thread(c) == \/ WorkerNext(c, "new") /\ UNCHANGED <<handler_vars, client_vars>>
             \/ HandlerNext(c) /\ UNCHANGED client_vars

Next == Main \/ \E c \in Conns : Thread(c) \/ Client(c)

Spec == Init /\ [][Next]_vars

-----------------------------------------------------------------------------
(* Properties. *)

Labels == {"none", "start", "lookup", "new", "insert", "recv", "receiving",
           "lock", "broadcast", "sending", "remove", "hang up", "cleanup",
           "close", "done", "spin"}

Lists == [first : Cells \cup {NULL}, socket : [Cells -> Fds \cup {0}],
          next : [Cells -> Cells \cup {NULL}], allocated : SUBSET Cells]

\* The type invariant.
TypeOK ==
  /\ descriptor \in [Fds -> Conns \cup {NoConn}]
  /\ accepted \subseteq Conns
  /\ peer \in [Conns -> {"new", "open", "closed", "reset"}]
  /\ inq \in [Conns -> Seq(Lines)]
  /\ outq \in [Conns -> Seq(Seq(Lines))]
  /\ running \in BOOLEAN
  /\ socket_handlers \in Lists /\ clients \in Lists
  /\ mutex \in Conns \cup {NoConn} /\ clients_mutex \in Conns \cup {NoConn}
  /\ main_pc \in {"accept", "add", "link", "create"}
  /\ client_socket \in Fds \cup {0} /\ connection \in Conns \cup {NoConn}
  /\ new_socket_handler \in Cells \cup {NULL}
  /\ pc \in [Conns -> Labels]
  /\ arg \in [Conns -> Cells \cup {NULL}]
  /\ socket \in [Conns -> Fds \cup {0}]
  /\ failures \in 0..ThreadFailures
  /\ buffer \in [Conns -> Seq(Lines)]
  /\ client \in [Conns -> Cells \cup {NULL}]
  /\ file \in [Conns -> Conns \cup {NoConn}]
  /\ sent \in [Conns -> 0..MaxLines] /\ atEnd \in [Conns -> 0..MaxAtEnd]
  /\ shown \in [Conns -> Seq(Seq(Lines))]
  /\ listening \subseteq Conns


(***************************************************************************)
(* The nodes of socket_handlers are only touched under the mutex, so as    *)
(* long as pthread_create has not failed the links never lead to a freed   *)
(* cell or in a circle, although the handlers close sockets too early and  *)
(* threads remove each other's nodes (proactor.c:47-65, 89-92).            *)
(***************************************************************************)
HandlersIntact == failures = 0 => Intact(socket_handlers)

(***************************************************************************)
(* "Cleanup and close the socket" (server_proactor.c:97): a thread closes  *)
(* the socket of its own connection, not that of another.                  *)
(***************************************************************************)
ClosesNoOther ==
  [][\A c \in Conns : (CloseSocket(c) \/ HangUp(c))
       => FileOf(socket[c]) \in {c, NoConn}]_vars

=============================================================================
