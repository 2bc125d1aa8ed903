---------------------------- MODULE EllipseSystem ----------------------------
(* The ellipse server and the clients that the launcher starts.              *)
EXTENDS EllipseServer, Launcher

vars == <<socket_vars, server_vars, launcher_vars>>

Init == ServerInit /\ LauncherInit

LauncherStep == (Fork \/ WaitPid) /\ UNCHANGED server_vars

Client(c) == ClientStep(c, mainpc = "exit") /\ UNCHANGED server_vars

Server == ServerStep /\ UNCHANGED launcher_vars

Next == LauncherStep \/ Server \/ \E c \in Conns : Client(c)

Spec == Init /\ [][Next]_vars

(***************************************************************************)
(* Some process or thread that can go on does; nothing is assumed of which *)
(* one.  accept, which may fail for ever, does not count.                  *)
(***************************************************************************)
Progress ==
  \/ LauncherStep
  \/ \E c \in Conns : Client(c) \/ (ThreadStep(c) /\ UNCHANGED launcher_vars)
  \/ CreateThread /\ UNCHANGED launcher_vars

FairSpec == Spec /\ WF_vars(Progress)

-----------------------------------------------------------------------------
Labels == {"none", "start", "recv", "receiving", "lock", "push",
           "send", "close", "end"}

\* Every variable keeps to the values that its type in the C programs allows.
TypeOK ==
  /\ descriptor \in [Fds -> Conns \cup {NoConn}] /\ accepted \subseteq Conns
  /\ peer \in [Conns -> {"new", "open", "closed", "reset"}]
  /\ inq \in [Conns -> Seq(Conns)] /\ outq \in [Conns -> Seq(Conns)]
  /\ mainpc \in {"accept", "create", "exit"} /\ client_socket \in Fds \cup {-1}
  /\ pc \in [Conns -> Labels] /\ sock \in [Conns -> Fds \cup {-1}]
  /\ from \in [Conns -> Conns \cup {NoConn}] /\ ellipse \in [Conns -> Conns \cup {NoConn}]
  /\ size \in [Conns -> Nat] /\ ellipses \in Seq(Conns \cup {NoConn})
  /\ ellipses_mutex \in Conns \cup {NoConn}
  /\ newest \in Conns \cup {NoConn}
  /\ earlier \in [Conns -> SUBSET Conns] /\ late \in BOOLEAN
  /\ launcher \in {"fork", "wait", "done", "failed"} /\ next \in 1..NUM_CLIENTS
  /\ child \in [Conns -> {"none", "connect", "send", "close", "exited"}]

(***************************************************************************)
(* Threads that read client_socket late may serve the connection of a      *)
(* later client, or none, but never one that was accepted before their own *)
(* (client_request_multiple_threads:121).                                  *)
(***************************************************************************)
NeverAnEarlierClient ==
  \A t \in Conns : pc[t] \notin {"none", "start", "end"} => Connection(sock[t]) \notin earlier[t]

(***************************************************************************)
(* As long as every thread has read client_socket before main accepted the *)
(* next connection, each thread serves its own connection to the end, is   *)
(* the only one to answer on it, and no answer ends the process.           *)
(***************************************************************************)
OwnUnlessLate ==
  ~late =>
    /\ mainpc # "exit"
    /\ \A t \in Conns :
         /\ pc[t] \notin {"none", "start", "end"} => Connection(sock[t]) = t
         /\ pc[t] = "end" => Hungup(t)
         /\ outq[t] \in {<<>>, <<t>>}

(***************************************************************************)
(* What two threads push at the same time stays in the list: it holds what *)
(* each thread has received, once for each (lines 55 to 57).               *)
(***************************************************************************)
EveryEllipseKept ==
  \A t \in Conns :
    ellipse[t] # NoConn /\ pc[t] \notin {"lock", "push"} =>
      \E k \in DOMAIN ellipses :
        ellipses[k] = ellipse[t] /\ \A l \in DOMAIN ellipses \ {k} : ellipses[l] # ellipses[k]

-----------------------------------------------------------------------------
(***************************************************************************)
(* Every thread comes to its end, unless the process does: none waits for  *)
(* ever for its client, for the mutex, or for room to answer, also when it *)
(* was late and shares a connection with another one.                      *)
(***************************************************************************)
EveryThreadEnds == <>[](mainpc = "exit" \/ \A t \in Conns : pc[t] \in {"none", "end"})

(***************************************************************************)
(* The launcher returns whatever becomes of the connections, also of those *)
(* that no thread serves, and also when the server ends (luncher:77).      *)
(***************************************************************************)
LauncherReturns == <>(launcher \in {"done", "failed"})

=============================================================================
