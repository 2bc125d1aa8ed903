----------------------------- MODULE FileServer -----------------------------
(***************************************************************************)
(* The file servers of Ex.2, each with its clients: the server of partA or *)
(* that of partB is started, as both listen on port 8080.                  *)
(***************************************************************************)
EXTENDS FileServerA, FileServerB

Child(c) ==
  /\ \/ program = "partA" /\ ChildA(c)
     \/ program = "partB" /\ ChildB(c)
     \/ Flush(c) \/ Respond(c) \/ Exit(c)
  /\ UNCHANGED <<program, main_vars, client_vars>>

Client(c) ==
  \/ program = "partA" /\ (SendSimple(c) \/ FinishSimple(c))
  \/ program = "partB" /\ (SendRequest(c) \/ GiveUp(c) \/ Finish(c))

Next == MainNext \/ \E c \in Clients : Client(c) \/ Child(c)

Spec == Init /\ [][Next]_vars

\* Processes that can run do run; nobody has to start a client.
Fairness ==
  /\ WF_vars(MainNext)
  /\ \A c \in Clients : WF_vars(Child(c)) /\ WF_vars(FinishSimple(c) \/ Finish(c))

FairSpec == Spec /\ Fairness

-----------------------------------------------------------------------------
(* What the file servers promise. *)

(***************************************************************************)
(* All variables have their types: a lock is only held by a child between  *)
(* flock and flock, a socket only by the processes that inherited it, and  *)
(* each answer belongs to a name of the request.                           *)
(***************************************************************************)
TypeOK ==
  /\ program \in {"partA", "partB"}
  /\ \A p \in Paths : file[p] \in {Missing} \cup Seq(Byte)
  /\ \A p \in Paths : lock[p] # NoClient =>
       \/ program = "partA" /\ pc[lock[p]] = "read" /\ Path(lock[p]) = p
       \/ program = "partB" /\ pc[lock[p]] = "unlock" /\ TargetOf(lock[p]) = p
  /\ main_pc \in {"accept", "fork", "close"} /\ failures \in 0..Failures
  /\ \A c \in Clients :
       /\ holders[c] \subseteq {"parent", "child"}
       /\ "child" \in holders[c] <=> pc[c] \notin {"none", "accepted", "zombie"}
       /\ "parent" \in holders[c] => client_socket = c
       /\ item[c] \in 0..Len(request[c].names) /\ size[c] \in Nat
       /\ client_pc[c] \in {"new", "waiting", "done"}
       /\ answers[c] \subseteq (0..Len(request[c].names)) \X {"200", "400", "404", "500"}

(***************************************************************************)
(* A client that waits ends: its child answers or goes away, and no other  *)
(* process keeps the connection open (close in both branches of main and   *)
(* exit in the child), so that recv of the client returns; nor does a child*)
(* wait for flock for ever.                                                *)
(***************************************************************************)
EveryoneDone == \A c \in Clients : client_pc[c] = "waiting" ~> client_pc[c] = "done"

(***************************************************************************)
(* "200 OK" means stored: a child has closed the file of the name it       *)
(* answers for, so that the data is in it, before it answers.              *)
(***************************************************************************)
OkMeansStored ==
  \A c \in Clients : \A a \in answers[c] : a[2] = "200" =>
    \E f \in flushed : f.child = c /\ f.item = a[1]

BeingWritten(p) ==
  \E c \in Clients : pc[c] \in {"lock", "unlock", "flush"} /\ TargetOf(c) = p

(***************************************************************************)
(* When nobody writes to a file any more, it is as it was at the beginning *)
(* or begins with one whole text; what was there before (or another text,  *)
(* when two of different lengths overlap) is only behind it.  fopen "wb"   *)
(* empties the file before flock (partB) or without any lock (partA).      *)
(***************************************************************************)
BeginsWithOneText ==
  \A p \in Paths : ~BeingWritten(p) =>
    \/ file[p] = InitialFiles[p]
    \/ \E f \in flushed : f.path = p /\ IsPrefix(f.text, file[p])

Texts(p) == {f.text : f \in {g \in flushed : g.path = p}}

OneLength(p) == \A s, t \in Texts(p) : Len(s) = Len(t)

(***************************************************************************)
(* Texts of one length do not mix, however their writers overlap: a file   *)
(* is as it was, empty, or holds one of them.                              *)
(***************************************************************************)
WholeOrEmpty ==
  \A p \in Paths : OneLength(p) => file[p] \in Texts(p) \cup {InitialFiles[p], <<>>}

(***************************************************************************)
(* A GET of partB decodes a whole text or nothing, although it takes no    *)
(* lock and the file may be emptied and written between ftell and fread: it*)
(* compares the length of what it read (server.c:340).  partA, which takes *)
(* the lock, does not compare.                                             *)
(***************************************************************************)
GetsWholeOrEmpty ==
  \A c \in Clients :
    (/\ program = "partB" /\ pc[c] = "save"
     /\ OneLength(Path(c)) /\ InitialFiles[Path(c)] = Missing)
      => content[c] \in Texts(Path(c)) \cup {<<>>}

(***************************************************************************)
(* Base64Decode is the inverse of Base64Encode, up to the first 0, for all *)
(* contents that are posted, among them what memory held behind a short    *)
(* fread.                                                                  *)
(***************************************************************************)
DecodesBack ==
  \A c \in Clients : request[c].method = "POST" /\ pc[c] \in {"lock", "flush"} =>
    Base64Decode(Base64Encode(content[c])) = CString(content[c])

(***************************************************************************)
(* server.c of partB says above fwrite: "Write the content of the file     *)
(* into the newly created file".  So what is stored decodes to what was    *)
(* posted.                                                                 *)
(***************************************************************************)
StoresContent ==
  \A c \in Clients : program = "partB" /\ request[c].method = "POST" /\ pc[c] = "flush" =>
    Base64Decode(output[c]) = CString(content[c])

=============================================================================
