-------------------------- MODULE ProactorLibrary --------------------------
(***************************************************************************)
(* proactor.c used as its interface asks: a handler that reads and writes  *)
(* its socket and leaves it open when it returns, because worker_thread    *)
(* closes it.  What the handler reads and writes makes no difference here. *)
(***************************************************************************)
EXTENDS Proactor

CONSTANTS Endures  \* connections whose handler need not return

all_vars == <<socket_vars, proactor_vars>>

LibraryInit == SocketInit /\ ProactorInit

\* A client connects.
Arrive(c) ==
  /\ peer[c] = "new"
  /\ peer' = [peer EXCEPT ![c] = "open"]
  /\ UNCHANGED <<descriptor, accepted, inq, outq, proactor_vars>>

\* The handler returns.
HandlerReturns(c) ==
  /\ running /\ pc[c] = "handler"
  /\ Goto(c, "cleanup")
  /\ UNCHANGED <<running, socket_handlers, mutex, main_vars, arg, socket, socket_vars>>

LibraryThread(c) == WorkerNext(c, "handler")

LibraryNext == \/ MainNext
        \/ \E c \in Conns : Arrive(c) \/ LibraryThread(c) \/ HandlerReturns(c)

LibrarySpec == LibraryInit /\ [][LibraryNext]_all_vars

(***************************************************************************)
(* Threads that can run do run; handlers return, but for those of Endures. *)
(***************************************************************************)
Fairness ==
  /\ WF_all_vars(MainNext)
  /\ \A c \in Conns : WF_all_vars(LibraryThread(c))
  /\ \A c \in Conns \ Endures : WF_all_vars(HandlerReturns(c))

FairSpec == LibrarySpec /\ Fairness

-----------------------------------------------------------------------------
(* Properties. *)

LibraryLabels == {"none", "start", "lookup", "handler", "cleanup", "close", "done", "spin"}

\* The type invariant.
LibraryTypeOK ==
  /\ descriptor \in [Fds -> Conns \cup {NoConn}]
  /\ accepted \subseteq Conns
  /\ peer \in [Conns -> {"new", "open"}]
  /\ running = TRUE
  /\ socket_handlers \in [first : Cells \cup {NULL}, socket : [Cells -> Fds \cup {0}],
                          next : [Cells -> Cells \cup {NULL}],
                          allocated : SUBSET Cells]
  /\ mutex \in Conns \cup {NoConn}
  /\ main_pc \in {"accept", "add", "link", "create"}
  /\ client_socket \in Fds \cup {0} /\ connection \in Conns \cup {NoConn}
  /\ new_socket_handler \in Cells \cup {NULL}
  /\ pc \in [Conns -> LibraryLabels]
  /\ arg \in [Conns -> Cells \cup {NULL}]
  /\ socket \in [Conns -> Fds \cup {0}]
  /\ failures \in 0..ThreadFailures

\* The thread of c has a node: from pthread_create until it removes the node.
HasNode(c) == pc[c] \in {"start", "lookup", "handler", "cleanup"}

(***************************************************************************)
(* A node is found and removed by its number, while numbers and memory are *)
(* given out again and again.  Each thread that has not removed its node   *)
(* nevertheless has one of its own, in the list and with its number, and   *)
(* the others in the list are main's: no thread takes the node of another  *)
(* or reads from one that was freed (proactor.c:27, 49-64).  This ends when*)
(* pthread_create fails: a freed node stays in the list (proactor.c:98).   *)
(***************************************************************************)
OwnNode == failures = 0 =>
  /\ \A c \in Conns : HasNode(c) =>
       LET f == socket_handlers.socket[arg[c]] IN
       /\ arg[c] \in Reachable(socket_handlers)
       /\ descriptor[f] = c
       /\ pc[c] # "start" => socket[c] = f
  /\ Cardinality(Reachable(socket_handlers))
       = Cardinality({c \in Conns : HasNode(c)})
           + IF main_pc = "create" THEN 1 ELSE 0

(***************************************************************************)
(* A thread closes the connection it was created for and no other          *)
(* (proactor.c:67-68).                                                     *)
(***************************************************************************)
ClosesOwn ==
  [][\A c \in Conns : CloseSocket(c) => descriptor[socket[c]] = c]_all_vars

(***************************************************************************)
(* Each connection that waits is handled and closed once its handler       *)
(* returns, until pthread_create has failed: nobody keeps the mutex, no     *)
(* number and no node is lost, so none of the later connections starves    *)
(* (proactor.c:30-71, 83-104).                                             *)
(***************************************************************************)
EveryoneServed ==
  \A c \in Conns \ Endures : (peer[c] = "open") ~> (pc[c] = "done" \/ failures > 0)

=============================================================================
