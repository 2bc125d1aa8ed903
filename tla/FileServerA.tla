----------------------------- MODULE FileServerA -----------------------------
(***************************************************************************)
(* Ex.2/partA: a child of server.c reads a file of the root directory under*)
(* flock and stores its base64 text (POST) or what it decodes to (GET) in a*)
(* new file of that directory, which it writes without a lock.             *)
(* simpleClient.c sends one request and reads one answer.                  *)
(***************************************************************************)
EXTENDS ForkServer

\* simpleClient: connect and send; a request without "\r\n\r\n" is of kind bare.
SendSimple(c) ==
  /\ \E q \in Requests["partA"] : Ask(c, q, <<>>)
  /\ UNCHANGED <<program, disk_vars, main_vars, failures, holders, pc, item, buffer_vars, answers>>

\* recv returned an answer or the end of the connection; close.
FinishSimple(c) ==
  /\ client_pc[c] = "waiting" /\ client_pc' = [client_pc EXCEPT ![c] = "done"]
  /\ Closed(c) \/ answers[c] # {}
  /\ UNCHANGED <<program, disk_vars, main_vars, failures, holders, pc, item, buffer_vars,
                 request, answers>>

\* handle_request
Dispatch(c) ==
  /\ LET q == request[c] IN
       \/ q.method = "other" /\ Go(c, "request", "exit") /\ Answer(c, "500") /\ UNCHANGED item
       \/ q.method = "POST" /\ q.kind = "bare"
          /\ Go(c, "request", "exit") /\ Answer(c, "400") /\ UNCHANGED item
       \/ q.method \in Methods /\ (q.method = "POST" => q.kind # "bare")
          /\ Go(c, "request", "open") /\ item' = [item EXCEPT ![c] = 1] /\ UNCHANGED answers
  /\ UNCHANGED <<disk_vars, failures, holders, buffer_vars>>

\* fopen(full_path, "rb")
OpenSource(c) ==
  /\ \/ Go(c, "open", "source") /\ file[Path(c)] # Missing /\ UNCHANGED answers
     \/ Go(c, "open", "exit") /\ file[Path(c)] = Missing /\ Answer(c, "404")
  /\ UNCHANGED <<disk_vars, failures, holders, item, buffer_vars>>

\* flock(LOCK_EX), which waits; then fseek and ftell
LockAndMeasure(c) ==
  /\ Go(c, "source", "read") /\ lock[Path(c)] = NoClient
  /\ lock' = [lock EXCEPT ![Path(c)] = c]
  /\ size' = [size EXCEPT ![c] = Len(file[Path(c)])]
  /\ UNCHANGED <<file, flushed, failures, holders, item, content, output, answers>>

\* fread, whose result is not looked at; flock(LOCK_UN), fclose
ReadAndUnlock(c) ==
  /\ Go(c, "read", "create")
  /\ \E g \in Garbage : content' = [content EXCEPT ![c] = Bytes(c) \o Rest(c, g)]
  /\ lock' = [lock EXCEPT ![Path(c)] = NoClient]
  /\ UNCHANGED <<file, flushed, failures, holders, item, size, output, answers>>

\* Convert the content, fopen(new_file_path, "wb"), and fwrite of its strlen.
ConvertAndCreate(c) ==
  /\ \/ /\ Go(c, "create", "flush")
        /\ output' = [output EXCEPT ![c] = IF request[c].method = "POST"
                                           THEN Base64Encode(content[c])
                                           ELSE CString(Base64Decode(content[c]))]
        /\ file' = [file EXCEPT ![TargetOf(c)] = <<>>]
        /\ UNCHANGED <<failures, answers>>
     \/ /\ Go(c, "create", "exit") /\ Failing /\ Answer(c, "500")
        /\ UNCHANGED <<output, file>>
  /\ UNCHANGED <<lock, flushed, holders, item, content, size>>

ChildA(c) ==
  \/ Dispatch(c) \/ OpenSource(c) \/ LockAndMeasure(c) \/ ReadAndUnlock(c)
  \/ ConvertAndCreate(c)

=============================================================================
