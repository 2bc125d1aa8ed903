----------------------------- MODULE ForkServer -----------------------------
(***************************************************************************)
(* What the file servers of Ex.2/partA and Ex.2/partB have in common: main *)
(* accepts connections on port 8080 and forks a child for each, which      *)
(* serves one request and exits.  Either server may be started (program);  *)
(* FileServerA and FileServerB have their children and clients.            *)
(*                                                                         *)
(* A child is named by the client whose connection it inherits.  Contents  *)
(* are short: stdio keeps what is written until fclose, and a write or read*)
(* of the kernel is one step.  A file once created is never removed.  fork *)
(* and fopen may fail (for a file to be read, only if it does not exist);  *)
(* flock, malloc and the calls on an open file do not fail.                *)
(***************************************************************************)
EXTENDS Base64, SequencesExt

CONSTANTS Clients,      \* runs of a client program
          Paths,        \* files under the directories the programs use
          InitialFiles, \* their contents at the beginning
          Target,       \* <<method, path>> -> where the result is stored
          Requests,     \* program -> what a client may ask: [method, kind, names]
          Missing,      \* content of a file that does not exist
          NoClient,
          Garbage,      \* bytes that may be in memory malloc returns
          Failures      \* bound: calls of fork and fopen that fail

Methods == {"GET", "POST"}

ASSUME FileServerAssumption ==
  /\ DOMAIN Requests \subseteq {"partA", "partB"}
  /\ \A program \in DOMAIN Requests : \A q \in Requests[program] :
       /\ q.method \in Methods \cup {"other"} /\ q.kind \in {"file", "list", "image", "bare"}
       /\ q.names \in Seq(Paths) /\ q.names # <<>>
  /\ Target \in [Methods \X Paths -> Paths]
  /\ InitialFiles \in [Paths -> {Missing} \cup Seq(Byte)]
  /\ Missing \notin Seq(Byte) /\ NoClient \notin Clients
  /\ Garbage \subseteq Byte /\ Failures \in Nat

VARIABLES
  program,                    \* the server that was started
  file,                       \* Paths -> content
  lock,                       \* Paths -> the child that holds flock
  flushed,                    \* history: [child, item, path, text] written
  main_pc, client_socket,     \* the accept loop and its local
  failures,                   \* failed calls so far
  holders,                    \* the processes with the server's end open
  pc,                         \* where each child is
  item,                       \* index in the names of the request
  content, size,              \* file_content and file_size of a child
  output,                     \* what was passed to fwrite and not flushed
  request,                    \* what each client asked, and the data it sent
  client_pc, answers          \* the client: where it is, what it was sent

disk_vars == <<file, lock, flushed>>
main_vars == <<main_pc, client_socket>>
buffer_vars == <<content, size, output>>
client_vars == <<request, client_pc>>
vars == <<program, disk_vars, main_vars, failures, holders, pc, item, buffer_vars,
          client_vars, answers>>

NoRequest == [method |-> "other", kind |-> "file", names |-> <<>>, data |-> <<>>]

Init ==
  /\ program \in DOMAIN Requests
  /\ file = InitialFiles
  /\ lock = [p \in Paths |-> NoClient]
  /\ flushed = {}
  /\ main_pc = "accept" /\ client_socket = NoClient /\ failures = 0
  /\ holders = [c \in Clients |-> {}]
  /\ pc = [c \in Clients |-> "none"]
  /\ item = [c \in Clients |-> 0]
  /\ content = [c \in Clients |-> <<>>]
  /\ size = [c \in Clients |-> 0]
  /\ output = [c \in Clients |-> <<>>]
  /\ request = [c \in Clients |-> NoRequest]
  /\ client_pc = [c \in Clients |-> "new"]
  /\ answers = [c \in Clients |-> {}]

Go(c, from, to) == pc[c] = from /\ pc' = [pc EXCEPT ![c] = to]

Failing == failures < Failures /\ failures' = failures + 1

Answer(c, status) == answers' = [answers EXCEPT ![c] = @ \cup {<<item[c], status>>}]

\* The client sends request q with the given data.
Ask(c, q, data) ==
  /\ client_pc[c] = "new" /\ client_pc' = [client_pc EXCEPT ![c] = "waiting"]
  /\ request' = [request EXCEPT ![c] =
       [method |-> q.method, kind |-> q.kind, names |-> q.names, data |-> data]]

Path(c) == request[c].names[item[c]]

TargetOf(c) == Target[<<request[c].method, Path(c)>>]

\* fread of as many bytes as were measured, or of those there are.
Bytes(c) == SubSeq(file[Path(c)], 1, Min({size[c], Len(file[Path(c)])}))

\* What is behind a short fread in memory that malloc returned.
Rest(c, g) == [k \in 1..(size[c] - Len(Bytes(c))) |-> g]

-----------------------------------------------------------------------------
(* main. *)

MainAccept ==
  /\ main_pc = "accept" /\ main_pc' = "fork"
  /\ \E c \in Clients : /\ client_pc[c] # "new" /\ Go(c, "none", "accepted")
                        /\ client_socket' = c
                        /\ holders' = [holders EXCEPT ![c] = {"parent"}]
  /\ UNCHANGED failures

MainFork ==
  /\ main_pc = "fork" /\ main_pc' = "close"
  /\ \/ /\ holders' = [holders EXCEPT ![client_socket] = @ \cup {"child"}]
        /\ Go(client_socket, "accepted", "request")
        /\ UNCHANGED failures
     \/ Failing /\ UNCHANGED <<holders, pc>>
  /\ UNCHANGED client_socket

\* Deviation: the parent closes its copy only when there is no child.
MainCloseWithoutChild ==
  /\ main_pc = "close" /\ main_pc' = "accept"
  /\ holders' = [holders EXCEPT ![client_socket] = IF "child" \in @ THEN @ ELSE {}]
  /\ UNCHANGED <<client_socket, failures, pc>>

\* The parent closes its copy of the socket, with or without a child.
MainClose ==
  /\ main_pc = "close" /\ main_pc' = "accept"
  /\ holders' = [holders EXCEPT ![client_socket] = @ \ {"parent"}]
  /\ UNCHANGED <<client_socket, failures, pc>>

MainNext ==
  /\ MainAccept \/ MainFork \/ MainClose
  /\ UNCHANGED <<program, disk_vars, item, buffer_vars, client_vars, answers>>

-----------------------------------------------------------------------------
(* What every child does at its end. *)

\* Deviation: the file is not closed.
FlushNothing(c) ==
  /\ Go(c, "flush", "answer")
  /\ UNCHANGED <<disk_vars, failures, holders, item, buffer_vars, answers>>

\* Deviation: the file was opened for appending.
FlushAppending(c) ==
  /\ Go(c, "flush", "answer")
  /\ file' = [file EXCEPT ![TargetOf(c)] = @ \o output[c]]
  /\ flushed' = flushed \cup {[child |-> c, item |-> item[c],
                               path |-> TargetOf(c), text |-> output[c]]}
  /\ UNCHANGED <<lock, failures, holders, item, buffer_vars, answers>>

\* fclose writes the buffer to the file it was opened for.
Flush(c) ==
  /\ Go(c, "flush", "answer")
  /\ file' = [file EXCEPT ![TargetOf(c)] = Overlay(@, output[c])]
  /\ flushed' = flushed \cup {[child |-> c, item |-> item[c],
                               path |-> TargetOf(c), text |-> output[c]]}
  /\ UNCHANGED <<lock, failures, holders, item, buffer_vars, answers>>

\* After each name of the request comes the next, at the end the child exits.
NextItem(c, from) ==
  LET last == item[c] = Len(request[c].names) IN
  /\ item' = [item EXCEPT ![c] = IF last THEN @ ELSE @ + 1]
  /\ Go(c, from, IF last THEN "exit" ELSE "open")

\* send_response(client_socket, "200 OK\n")
Respond(c) ==
  /\ NextItem(c, "answer") /\ Answer(c, "200")
  /\ UNCHANGED <<disk_vars, failures, holders, buffer_vars>>

\* close(client_socket) and exit; nobody waits for the child.
Exit(c) ==
  /\ Go(c, "exit", "zombie")
  /\ holders' = [holders EXCEPT ![c] = @ \ {"child"}]
  /\ UNCHANGED <<disk_vars, failures, item, buffer_vars, answers>>

\* recv of the client returns 0: no process of the server has the connection.
Closed(c) == pc[c] # "none" /\ holders[c] = {}

=============================================================================
