------------------------------ MODULE ChatRoom ------------------------------
(***************************************************************************)
(* What the clients of a chat server see of each other, whichever of the   *)
(* two servers of Ex.3 they are connected to: section_a/chat_server.c or   *)
(* section_c/server_proactor.c.                                            *)
(***************************************************************************)
EXTENDS ChatClient, SequencesExt

Lines == Conns \X (1..MaxLines)

\* What was sent to the client of c, read or not.
Delivered(c) == shown[c] \o outq[c]

\* The numbers of the lines from c that were sent to the client of d.
LinesFrom(c, d) ==
  {n \in 1..MaxLines : \E k \in DOMAIN Delivered(d) :
                          Contains(Delivered(d)[k], Line(c, n))}

(***************************************************************************)
(* Nobody hears himself: the sender is skipped by number, and no number    *)
(* stands for the sender and for somebody else (chat_server.c:33).         *)
(***************************************************************************)
NoEcho == \A c \in Conns : LinesFrom(c, c) = {}

(***************************************************************************)
(* A client is sent each message at most once (chat_server.c:24, "send a   *)
(* message to all clients except the sender").                             *)
(***************************************************************************)
AtMostOnce ==
  \A c \in Conns :
    \A k, l \in DOMAIN Delivered(c) : Delivered(c)[k] = Delivered(c)[l] => k = l

=============================================================================
