------------------------------ MODULE Launcher ------------------------------
(***************************************************************************)
(* luncher: a process forks clients, each of which connects, sends one     *)
(* number, closes and exits, and waits for them in the order of the forks. *)
(* Client i is known by its connection.                                    *)
(***************************************************************************)
EXTENDS Sockets

CONSTANT NUM_CLIENTS

ASSUME LauncherAssumption == NUM_CLIENTS \in Nat \ {0} /\ Conns = 1..NUM_CLIENTS

VARIABLES launcher,  \* where the parent is: "fork", "wait", "done", "failed"
          next,      \* its loop variable i
          child      \* where each client is: "none", "connect", "send", "close", "exited"

launcher_vars == <<launcher, next, child>>

LauncherInit ==
  /\ launcher = "fork" /\ next = 1
  /\ child = [c \in Conns |-> "none"]

\* Deviation: i <= NUM_CLIENTS.
AdvanceTooFar(here, there) ==
  IF next <= NUM_CLIENTS THEN next' = next + 1 /\ launcher' = here
                         ELSE next' = 1 /\ launcher' = there

\* The loop variable after this round, and the place of main after the last one.
Advance(here, there) ==
  IF next < NUM_CLIENTS THEN next' = next + 1 /\ launcher' = here
                        ELSE next' = 1 /\ launcher' = there

Fork ==
  /\ launcher = "fork"
  /\ \/ child' = [child EXCEPT ![next] = "connect"] /\ Advance("fork", "wait")
     \/ launcher' = "failed" /\ UNCHANGED <<next, child>>
  /\ UNCHANGED socket_vars

WaitPid ==
  /\ launcher = "wait" /\ child[next] = "exited"
  /\ Advance("wait", "done")
  /\ UNCHANGED <<socket_vars, child>>

\* connect is refused when the server has exited: down.
Connect(c, down) ==
  /\ child[c] = "connect"
  /\ IF down THEN child' = [child EXCEPT ![c] = "exited"] /\ UNCHANGED peer
             ELSE child' = [child EXCEPT ![c] = "send"] /\ peer' = [peer EXCEPT ![c] = "open"]
  /\ UNCHANGED <<descriptor, accepted, inq, outq, launcher, next>>

\* send; what is sent to a server that has hung up is lost.
SendNumber(c) ==
  /\ child[c] = "send"
  /\ child' = [child EXCEPT ![c] = "close"]
  /\ inq' = IF Hungup(c) THEN inq ELSE [inq EXCEPT ![c] = Append(@, c)]
  /\ UNCHANGED <<descriptor, accepted, peer, outq, launcher, next>>

\* Deviation: the client waits for the answer before it closes.
CloseAfterAnswer(c) ==
  /\ child[c] = "close" /\ outq[c] # <<>>
  /\ child' = [child EXCEPT ![c] = "exited"]
  /\ peer' = [peer EXCEPT ![c] = "closed"] /\ outq' = [outq EXCEPT ![c] = <<>>]
  /\ UNCHANGED <<descriptor, accepted, inq, launcher, next>>

\* close and exit: an answer that was not read makes the close a reset.
CloseClient(c) ==
  /\ child[c] = "close"
  /\ child' = [child EXCEPT ![c] = "exited"]
  /\ peer' = [peer EXCEPT ![c] = IF outq[c] = <<>> THEN "closed" ELSE "reset"]
  /\ outq' = [outq EXCEPT ![c] = <<>>]
  /\ UNCHANGED <<descriptor, accepted, inq, launcher, next>>

ClientStep(c, down) == Connect(c, down) \/ SendNumber(c) \/ CloseClient(c)

=============================================================================
