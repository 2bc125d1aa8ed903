----------------------------- MODULE ChatSystem -----------------------------
(***************************************************************************)
(* chat_server.c of Ex.3/section_a together with the chat_client.c programs*)
(* connected to it.                                                        *)
(***************************************************************************)
EXTENDS ChatServer, ChatRoom

VARIABLE log  \* history: the messages, in the order in which handlers got the mutex

vars == <<socket_vars, server_vars, client_vars, log>>

Init == SocketInit /\ ServerInit /\ ClientInit /\ log = <<>>

\* connect needs a server that listens; a running client needs nothing.
Client(c) == /\ peer[c] = "new" => running
             /\ ClientNext(c, Hungup(c))
             /\ UNCHANGED <<server_vars, log>>

\* A handler that goes from lock to send has the mutex for its message.
Logs(c) == pc[c] = "lock" /\ pc'[c] = "send" /\ log' = Append(log, buffer[c])

Log == \/ \E c \in Conns : Logs(c)
       \/ (\A c \in Conns : pc[c] = "lock" => pc'[c] # "send") /\ UNCHANGED log

Server == ServerNext /\ UNCHANGED client_vars /\ Log

Next == Server \/ \E c \in Conns : Client(c)

Spec == Init /\ [][Next]_vars

(***************************************************************************)
(* Every thread of the server that can take a step takes one, and so does  *)
(* the thread of a client that displays messages: each sits in a loop      *)
(* around one blocking call.  Nothing makes a user type, connect or leave, *)
(* and nothing is assumed about who gets the mutex.                        *)
(***************************************************************************)
Fairness ==
  /\ WF_vars(MainNext /\ UNCHANGED <<client_vars, log>>)
  /\ \A c \in Conns : WF_vars(HandlerNext(c) /\ UNCHANGED client_vars /\ Log)
  /\ \A c \in Conns : WF_vars(Display(c) /\ UNCHANGED <<server_vars, log>>)

FairSpec == Spec /\ Fairness

-----------------------------------------------------------------------------
(* Properties. *)

Labels == {"none", "recv", "lock", "send", "close", "remove", "done"}

ProgramTypeOK ==
  /\ descriptor \in [Fds -> Conns \cup {NoConn}]
  /\ accepted \subseteq Conns
  /\ peer \in [Conns -> {"new", "open", "closed", "reset"}]
  /\ inq \in [Conns -> Seq(Lines)]
  /\ outq \in [Conns -> Seq(Seq(Lines))]
  /\ running \in BOOLEAN
  /\ client_sockets \in Seq(Fds)
  /\ clients_mutex \in Conns \cup {NoConn}
  /\ main_pc \in {"accept", "register", "create"}
  /\ client_socket \in Fds \cup {0}
  /\ pc \in [Conns -> Labels]
  /\ socket \in [Conns -> Fds \cup {0}]
  /\ buffer \in [Conns -> Seq(Lines)]
  /\ next \in [Conns -> Nat]
  /\ failures \in 0..ThreadFailures
  /\ sent \in [Conns -> 0..MaxLines] /\ atEnd \in [Conns -> 0..MaxAtEnd]
  /\ shown \in [Conns -> Seq(Seq(Lines))]
  /\ listening \subseteq Conns

\* The type invariant: every variable of the three modules has its type.
TypeOK == ProgramTypeOK /\ log \in Seq(Seq(Lines))

\* The handler of c is in its receive loop.
InLoop(c) == pc[c] \in {"recv", "lock", "send"}

\* Until it has called close, a handler's number refers to its connection.
Holds(c) == InLoop(c) \/ pc[c] = "close"

(***************************************************************************)
(* A descriptor number is given out again as soon as it is closed, while   *)
(* the array and the threads go on using the number.  A handler that has   *)
(* not closed its socket nevertheless always reads from, writes as and     *)
(* closes its own connection (chat_server.c:48-61).                        *)
(***************************************************************************)
OwnDescriptor ==
  running => \A c \in Conns : Holds(c) => descriptor[socket[c]] = c

Entries(f) == {k \in DOMAIN client_sockets : client_sockets[k] = f}

\* Registered by main and not yet removed from the array by the handler.
Registered == {c \in Conns : pc[c] \notin {"none", "done"}}

(***************************************************************************)
(* The threads remove by number, and a number is given out again between   *)
(* close and removal (chat_server.c:61-74).  Nevertheless no handler takes *)
(* the entry of another: each number is in the array at least as often as  *)
(* there are handlers that will remove it, and the array holds nothing else*)
(* but the entry main is starting a thread for and one entry for each      *)
(* thread that could not be started (chat_server.c:136-140).               *)
(***************************************************************************)
EntriesMatchHandlers ==
  running =>
    /\ \A f \in Fds :
         Cardinality({c \in Registered : socket[c] = f}) <= Cardinality(Entries(f))
    /\ Len(client_sockets) = Cardinality(Registered) + failures
                             + IF main_pc = "create" THEN 1 ELSE 0

(***************************************************************************)
(* send_message_to_clients reaches everyone (chat_server.c:24): when the   *)
(* loop ends, each other connection with a handler in its loop and a client*)
(* that is there has the message.                                          *)
(***************************************************************************)
BroadcastReachesAll ==
  running =>
    \A c, d \in Conns :
      (/\ pc[c] = "send" /\ next[c] > Len(client_sockets)
       /\ d # c /\ InLoop(d) /\ peer[d] = "open")
      => Contains(Delivered(d), buffer[c])

(***************************************************************************)
(* The mutex is held over the whole loop (chat_server.c:30-38), so all     *)
(* clients see the messages in one order, that in which the handlers got   *)
(* the mutex: what a client was sent is found in the log from left to      *)
(* right, whoever sent it, and however often he did.                       *)
(***************************************************************************)
OrderedBy(s, l) ==
  \E at \in [DOMAIN s -> DOMAIN l] :
    /\ \A k \in DOMAIN s : l[at[k]] = s[k]
    /\ \A j, k \in DOMAIN s : j <= k => at[j] <= at[k]

TotalOrder == \A c \in Conns : OrderedBy(Delivered(c), log)

(***************************************************************************)
(* The server goes on serving whatever its clients do: main is an endless  *)
(* loop (chat_server.c:115, "Accept and handle incoming client             *)
(* connections").                                                          *)
(***************************************************************************)
SurvivesDepartures == running

(***************************************************************************)
(* A line that waits to be received while the handlers of c and d are both *)
(* in recv is shown to d, unless d leaves or the server is ended: no thread waits for *)
(* ever, on the mutex or in send, while the clients read.                  *)
(***************************************************************************)
EveryLineShown ==
  \A c \in Typists, n \in 1..MaxLines : \A d \in Conns \ {c} :
    (/\ pc[c] = "recv" /\ pc[d] = "recv"
     /\ Contains(inq[c], Line(c, n)))
      ~> \/ \E k \in DOMAIN shown[d] : Contains(shown[d][k], Line(c, n))
         \/ peer[d] # "open" \/ ~running

(***************************************************************************)
(* The handler of a client that has left ends and takes the client's entry *)
(* and descriptor with it (chat_server.c:60-79).                           *)
(***************************************************************************)
DepartedForgotten ==
  \A c \in Conns :
    (peer[c] # "open" /\ Holds(c))
      ~> ~running \/ (pc[c] = "done" /\ Hungup(c))

=============================================================================
