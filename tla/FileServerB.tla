----------------------------- MODULE FileServerB -----------------------------
(***************************************************************************)
(* Ex.2/partB: a child of server.c stores what is posted in base64 under   *)
(* the root directory, or decodes a file of it into clientFiles; a request *)
(* names one file or a list of files.  asyncClient.c sends one request and *)
(* reads one answer, or all answers to a list.                             *)
(***************************************************************************)
EXTENDS ForkServer

\* asyncClient: unless it is GET, the request for a file has the file's content.
SendRequest(c) ==
  /\ \E q \in Requests["partB"] :
       LET source == file[q.names[1]] IN
       IF q.method = "GET" \/ q.kind = "list" THEN Ask(c, q, <<>>)
       ELSE source # Missing /\ Ask(c, q, CString(source))
  /\ UNCHANGED <<program, disk_vars, main_vars, failures, holders, pc, item, buffer_vars, answers>>

\* It has connected, but cannot read its file or list, and exits.
GiveUp(c) ==
  /\ client_pc[c] = "new" /\ client_pc' = [client_pc EXCEPT ![c] = "done"] /\ Failing
  /\ UNCHANGED <<program, disk_vars, main_vars, holders, pc, item, buffer_vars, request, answers>>

\* One answer is enough, but for a list: then the client reads to the end.
Finish(c) ==
  /\ client_pc[c] = "waiting" /\ client_pc' = [client_pc EXCEPT ![c] = "done"]
  /\ Closed(c) \/ (request[c].kind # "list" /\ answers[c] # {})
  /\ UNCHANGED <<program, disk_vars, main_vars, failures, holders, pc, item, buffer_vars,
                 request, answers>>

\* handle_request dispatches files and lists; images are not handled.
HandleRequest(c) ==
  /\ LET q == request[c] IN
       \/ q.method = "other" /\ Go(c, "request", "exit")
          /\ Answer(c, IF q = NoRequest THEN "400" ELSE "500")
          /\ UNCHANGED <<item, content, size>>
       \/ q.method # "other" /\ q.kind = "image" /\ Go(c, "request", "exit")
          /\ UNCHANGED <<item, content, size, answers>>
       \/ /\ q.method # "other" /\ q.kind # "image"
          /\ Go(c, "request", IF q.method = "POST" /\ q.kind = "file" THEN "create" ELSE "open")
          /\ item' = [item EXCEPT ![c] = 1]
          /\ content' = [content EXCEPT ![c] = q.data]
          /\ size' = [size EXCEPT ![c] = Len(q.data)]
          /\ UNCHANGED answers
  /\ UNCHANGED <<disk_vars, failures, holders, output>>

\* handle_list_.._request cannot open the list file.
ListUnreadable(c) ==
  /\ request[c].method # "other" /\ request[c].kind = "list"
  /\ Go(c, "request", "exit") /\ Failing
  /\ UNCHANGED <<disk_vars, holders, item, buffer_vars, answers>>

\* fopen for reading; without the file POST goes on to the next line, GET exits.
Open(c) ==
  /\ pc[c] = "open"
  /\ \/ file[Path(c)] # Missing /\ Go(c, "open", "measure") /\ UNCHANGED item
     \/ file[Path(c)] = Missing /\ request[c].method = "POST" /\ NextItem(c, "open")
     \/ file[Path(c)] = Missing /\ request[c].method = "GET" /\ Go(c, "open", "exit")
        /\ UNCHANGED item
  /\ UNCHANGED <<disk_vars, failures, holders, buffer_vars, answers>>

\* fseek, ftell
Measure(c) ==
  /\ Go(c, "measure", "read")
  /\ size' = [size EXCEPT ![c] = Len(file[Path(c)])]
  /\ UNCHANGED <<disk_vars, failures, holders, item, content, output, answers>>

\* Deviation: GET does not compare what it has read with what it measured.
ReadUnchecked(c) ==
  /\ Go(c, "read", IF request[c].method = "POST" THEN "create" ELSE "save")
  /\ \E g \in Garbage : content' = [content EXCEPT ![c] = Bytes(c) \o Rest(c, g)]
  /\ UNCHANGED <<disk_vars, failures, holders, item, size, output, answers>>

\* fread; when the file is shorter by now GET exits, and POST does not notice.
Read(c) ==
  /\ pc[c] = "read"
  /\ LET short == Len(Bytes(c)) < size[c] IN
       \/ /\ request[c].method = "POST" /\ Go(c, "read", "create")
          /\ \E g \in Garbage : content' = [content EXCEPT ![c] = Bytes(c) \o Rest(c, g)]
       \/ /\ request[c].method = "GET" /\ ~short /\ Go(c, "read", "save")
          /\ content' = [content EXCEPT ![c] = Bytes(c)]
       \/ request[c].method = "GET" /\ short /\ Go(c, "read", "exit") /\ UNCHANGED content
  /\ UNCHANGED <<disk_vars, failures, holders, item, size, output, answers>>

-----------------------------------------------------------------------------
(* handle_file_post_request. *)

\* fopen(new_file_path, "wb") creates the file or empties it.
Create(c) ==
  /\ \/ /\ Go(c, "create", "lock")
        /\ file' = [file EXCEPT ![TargetOf(c)] = <<>>]
        /\ UNCHANGED <<item, answers, failures>>
     \/ Failing /\ NextItem(c, "create") /\ Answer(c, "500") /\ UNCHANGED file
  /\ UNCHANGED <<lock, flushed, holders, buffer_vars>>

(***************************************************************************)
(* What fwrite is given: content_length bytes from where the encoded text  *)
(* starts.  A content with a 0 in it may have a text shorter than that;    *)
(* what is behind the text are bytes g.                                    *)
(***************************************************************************)
Stored(c, g) ==
  LET text == Base64Encode(content[c]) IN
  [k \in 1..size[c] |-> IF k \in DOMAIN text THEN text[k] ELSE g]

\* flock(LOCK_EX), which waits; then encode and fwrite into stdio's buffer.
LockAndWrite(c) ==
  /\ Go(c, "lock", "unlock") /\ lock[TargetOf(c)] = NoClient
  /\ lock' = [lock EXCEPT ![TargetOf(c)] = c]
  /\ \E g \in {0, Pad, NoCode} : output' = [output EXCEPT ![c] = Stored(c, g)]
  /\ UNCHANGED <<file, flushed, failures, holders, item, content, size, answers>>

\* Deviation: the lock is not released.
UnlockNothing(c) ==
  /\ Go(c, "unlock", "flush")
  /\ UNCHANGED <<disk_vars, failures, holders, item, buffer_vars, answers>>

\* Deviation: the answer is sent before the file is closed.
UnlockAndRespond(c) ==
  /\ Go(c, "unlock", "flush") /\ Answer(c, "200")
  /\ lock' = [lock EXCEPT ![TargetOf(c)] = NoClient]
  /\ UNCHANGED <<file, flushed, failures, holders, item, buffer_vars>>

Unlock(c) ==
  /\ Go(c, "unlock", "flush")
  /\ lock' = [lock EXCEPT ![TargetOf(c)] = NoClient]
  /\ UNCHANGED <<file, flushed, failures, holders, item, buffer_vars, answers>>

\* handle_file_get_request: decode, and fopen(new_filename, "wb"), without a lock.
Save(c) ==
  /\ \/ /\ Go(c, "save", "flush")
        /\ output' = [output EXCEPT ![c] = CString(Base64Decode(content[c]))]
        /\ file' = [file EXCEPT ![TargetOf(c)] = <<>>]
        /\ UNCHANGED failures
     \/ Failing /\ Go(c, "save", "exit") /\ UNCHANGED <<output, file>>
  /\ UNCHANGED <<lock, flushed, holders, item, content, size, answers>>

ChildB(c) ==
  \/ HandleRequest(c) \/ ListUnreadable(c) \/ Open(c) \/ Measure(c) \/ Read(c)
  \/ Create(c) \/ LockAndWrite(c) \/ Unlock(c) \/ Save(c)

=============================================================================
