----------------------------- MODULE ChatClient -----------------------------
(***************************************************************************)
(* Ex.3/section_a/chat_client.c: main connects, one thread shows what the  *)
(* server sends (handle_server), one sends what is typed (handle_keyboard).*)
(* A connection of Sockets is one run of the program.                      *)
(***************************************************************************)
EXTENDS Sockets

CONSTANTS MaxLines,  \* bound: lines a client sends
          MaxAtEnd,  \* bound: times a line is sent again at the end of input
          MaxShown,  \* bound: messages a client displays
          Typists,   \* clients whose user types
          Piped,     \* clients whose input ends
          Leavers    \* clients whose user may end the program

ASSUME ChatClientAssumption == MaxLines \in Nat /\ MaxAtEnd \in Nat /\ MaxShown \in Nat

VARIABLES sent,      \* lines the keyboard thread has read and passed to send
          atEnd,     \* times it has sent the last one again
          shown,     \* what the server thread has displayed, in order
          listening  \* clients whose server thread is in its loop

client_vars == <<sent, atEnd, shown, listening>>

ClientInit ==
  /\ sent = [c \in Conns |-> 0]
  /\ atEnd = [c \in Conns |-> 0]
  /\ shown = [c \in Conns |-> <<>>]
  /\ listening = {}

\* A line is known by its sender and its number; its text is abstracted.
Line(c, n) == <<c, n>>

\* main: socket, connect, two pthread_create.
Connect(c) ==
  /\ peer[c] = "new"
  /\ peer' = [peer EXCEPT ![c] = "open"]
  /\ listening' = listening \cup {c}
  /\ UNCHANGED <<descriptor, accepted, inq, outq, sent, atEnd, shown>>

(***************************************************************************)
(* send of the keyboard thread.  Once the server has hung up the line is   *)
(* lost, and a later send ends the client by SIGPIPE.                      *)
(***************************************************************************)
SendLine(c, line, hungup) ==
  /\ \/ /\ ~hungup
        /\ inq' = [inq EXCEPT ![c] = Append(@, line)]
        /\ UNCHANGED <<peer, listening>>
     \/ hungup /\ UNCHANGED <<inq, peer, listening>>
     \/ /\ hungup
        /\ peer' = [peer EXCEPT ![c] = "reset"]
        /\ listening' = listening \ {c}
        /\ UNCHANGED inq
  /\ UNCHANGED <<descriptor, accepted, outq, shown>>

\* handle_keyboard: fgets reads a line.
Keyboard(c, hungup) ==
  /\ c \in Typists /\ peer[c] = "open" /\ sent[c] < MaxLines /\ atEnd[c] = 0
  /\ sent' = [sent EXCEPT ![c] = @ + 1]
  /\ SendLine(c, Line(c, sent[c] + 1), hungup)
  /\ UNCHANGED atEnd

\* handle_keyboard: at the end of input fgets leaves the buffer as it was.
KeyboardAtEnd(c, hungup) ==
  /\ c \in Piped /\ peer[c] = "open" /\ sent[c] > 0 /\ atEnd[c] < MaxAtEnd
  /\ atEnd' = [atEnd EXCEPT ![c] = @ + 1]
  /\ SendLine(c, Line(c, sent[c]), hungup)
  /\ UNCHANGED sent

\* handle_server: recv returned a message, printf it.
Display(c) ==
  /\ c \in listening /\ outq[c] # <<>> /\ Len(shown[c]) < MaxShown
  /\ outq' = [outq EXCEPT ![c] = Tail(@)]
  /\ shown' = [shown EXCEPT ![c] = Append(@, Head(outq[c]))]
  /\ UNCHANGED <<descriptor, accepted, peer, inq, sent, atEnd, listening>>

\* handle_server: recv returned 0 or -1, the loop ends; the keyboard goes on.
ServerDisconnected(c, hungup) ==
  /\ c \in listening /\ outq[c] = <<>> /\ hungup
  /\ listening' = listening \ {c}
  /\ UNCHANGED <<socket_vars, sent, atEnd, shown>>

(***************************************************************************)
(* The user ends the program, or main does when pthread_create fails: the  *)
(* kernel closes the socket.  Data the client has not read makes the close *)
(* a reset.                                                                *)
(***************************************************************************)
Leave(c) ==
  /\ c \in Leavers /\ peer[c] = "open"
  /\ \E end \in IF outq[c] = <<>> THEN {"closed"} ELSE {"closed", "reset"} :
        peer' = [peer EXCEPT ![c] = end]
  /\ outq' = [outq EXCEPT ![c] = <<>>]
  /\ listening' = listening \ {c}
  /\ UNCHANGED <<descriptor, accepted, inq, sent, atEnd, shown>>

\* The server's end of c is closed or not: hungup.
ClientNext(c, hungup) ==
  \/ Connect(c) \/ Keyboard(c, hungup) \/ KeyboardAtEnd(c, hungup) \/ Display(c)
  \/ ServerDisconnected(c, hungup) \/ Leave(c)

=============================================================================
