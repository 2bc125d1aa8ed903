------------------------------ MODULE Sockets ------------------------------
(***************************************************************************)
(* The TCP sockets of one server process, as far as the chat servers, the  *)
(* proactor library and the ellipse server use them: accept, recv, send    *)
(* and close on descriptor numbers, and the two byte streams of each       *)
(* connection.  This is the kernel, not code of the repository: the        *)
(* operators state what these calls do, and the modules of the programs    *)
(* use them as their only way to the network.                              *)
(*                                                                         *)
(* What one call of send passes on is one element of a stream: the text    *)
(* itself is abstracted, its boundaries are kept, and recv may return      *)
(* several of the elements that wait, as a stream socket does.             *)
(***************************************************************************)
EXTENDS Naturals, Sequences

CONSTANTS Conns,   \* connections; a client that reconnects is another one
          Fds,     \* descriptor numbers left for accepted sockets
          NoConn,  \* what a free descriptor number refers to
          SndBuf   \* messages a connection holds towards the client

ASSUME SocketAssumption ==
  /\ Fds \subseteq Nat
  /\ NoConn \notin Conns
  /\ SndBuf \in Nat \ {0}

VARIABLES descriptor,  \* Fds -> connection the number refers to, or NoConn
          accepted,    \* connections that have left the accept queue
          peer,        \* the client's end: "new", "open", "closed", "reset"
          inq,         \* sent by the client, not yet received
          outq         \* sent by the server, not yet read by the client

socket_vars == <<descriptor, accepted, peer, inq, outq>>

SocketInit ==
  /\ descriptor = [f \in Fds |-> NoConn]
  /\ accepted = {}
  /\ peer = [c \in Conns |-> "new"]
  /\ inq = [c \in Conns |-> <<>>]
  /\ outq = [c \in Conns |-> <<>>]

\* The server's end of c is closed: no descriptor refers to it any more.
Hungup(c) == c \in accepted /\ \A f \in Fds : descriptor[f] # c

(***************************************************************************)
(* accept: the lowest free number is given to a connection of the backlog, *)
(* also to one whose client has left already.                              *)
(***************************************************************************)
Accept(f, c) ==
  /\ descriptor[f] = NoConn
  /\ \A g \in Fds : g < f => descriptor[g] # NoConn
  /\ peer[c] # "new" /\ c \notin accepted
  /\ descriptor' = [descriptor EXCEPT ![f] = c]
  /\ accepted' = accepted \cup {c}
  /\ UNCHANGED <<peer, inq, outq>>

\* close: the number is free at once; closing a free number is EBADF.
Close(f) ==
  /\ descriptor' = IF f \in Fds THEN [descriptor EXCEPT ![f] = NoConn]
                                ELSE descriptor
  /\ UNCHANGED <<accepted, peer, inq, outq>>

\* recv returns the first n elements that wait ...
RecvData(c, n) ==
  /\ n \in 1..Len(inq[c])
  /\ inq' = [inq EXCEPT ![c] = SubSeq(@, n + 1, Len(@))]
  /\ UNCHANGED <<descriptor, accepted, peer, outq>>

\* ... or 0 or -1, when nothing waits and nothing can come.
RecvEnd(c) ==
  /\ c # NoConn => inq[c] = <<>> /\ peer[c] \in {"closed", "reset"}
  /\ UNCHANGED socket_vars

(***************************************************************************)
(* send without flags.  It blocks while the client's end is open and the   *)
(* buffer is full.  To a client that has closed, the first segments are    *)
(* taken and answered with a reset; on a reset connection it is an error.  *)
(***************************************************************************)
Send(c, m) ==
  /\ \/ c = NoConn /\ UNCHANGED <<peer, outq>>
     \/ /\ c \in Conns /\ peer[c] = "open" /\ Len(outq[c]) < SndBuf
        /\ outq' = [outq EXCEPT ![c] = Append(@, m)]
        /\ UNCHANGED peer
     \/ /\ c \in Conns /\ peer[c] = "closed"
        /\ \E end \in {"closed", "reset"} : peer' = [peer EXCEPT ![c] = end]
        /\ UNCHANGED outq
     \/ c \in Conns /\ peer[c] = "reset" /\ UNCHANGED <<peer, outq>>
  /\ UNCHANGED <<descriptor, accepted, inq>>

(***************************************************************************)
(* The error of send on a reset connection is EPIPE once the reset itself  *)
(* has been reported, and with EPIPE comes SIGPIPE, which none of the      *)
(* programs handles: the process ends, its descriptors are closed and its  *)
(* accept queue is gone.                                                   *)
(***************************************************************************)
SendSigpipe(c) ==
  /\ c \in Conns /\ peer[c] = "reset"
  /\ descriptor' = [f \in Fds |-> NoConn]
  /\ accepted' = {d \in Conns : peer[d] # "new"}
  /\ UNCHANGED <<peer, inq, outq>>

=============================================================================
