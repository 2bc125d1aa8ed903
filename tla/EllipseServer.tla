---------------------------- MODULE EllipseServer ----------------------------
(***************************************************************************)
(* client_request_multiple_threads: main accepts connections and creates a *)
(* thread for each, which receives an ellipse, adds it to a list, computes *)
(* for five seconds, answers and closes.  All threads are given the address*)
(* of one variable of main, client_socket.  A thread is known by the       *)
(* connection that main had accepted before it created the thread.         *)
(***************************************************************************)
EXTENDS Sockets, Integers

VARIABLES mainpc,         \* "accept", "create", or "exit" of the process
          client_socket,  \* the variable of main; -1 when accept failed
          pc,             \* where each thread is
          sock,           \* its copy of *arg
          from,           \* the connection that its recv waits for
          ellipse,        \* what it has parsed; NoConn: nothing was received
          size,           \* the length of the vector, as push_back has read it
          ellipses, ellipses_mutex,
          newest,         \* the connection that main creates a thread for
          earlier,        \* history: connections accepted before that of a thread
          late            \* history: client_socket changed before a thread read it

thread_vars == <<pc, sock, from, ellipse, size, ellipses, ellipses_mutex>>
history_vars == <<earlier, late>>
server_vars == <<mainpc, client_socket, newest, thread_vars, history_vars>>

ServerInit ==
  /\ SocketInit
  /\ mainpc = "accept" /\ client_socket = -1
  /\ pc = [t \in Conns |-> "none"]
  /\ sock = [t \in Conns |-> -1]
  /\ from = [t \in Conns |-> NoConn]
  /\ ellipse = [t \in Conns |-> NoConn]
  /\ size = [t \in Conns |-> 0]
  /\ ellipses = <<>> /\ ellipses_mutex = NoConn
  /\ newest = NoConn /\ earlier = [t \in Conns |-> {}] /\ late = FALSE

Connection(f) == IF f \in Fds THEN descriptor[f] ELSE NoConn

SetClientSocket(f) ==
  /\ client_socket' = f
  /\ late' = (late \/ \E t \in Conns : pc[t] = "start")

AcceptClient ==
  /\ mainpc = "accept" /\ mainpc' = "create"
  /\ \E f \in Fds, c \in Conns :
       Accept(f, c) /\ SetClientSocket(f) /\ newest' = c
  /\ UNCHANGED <<thread_vars, earlier>>

\* accept fails, at the limit of descriptors or by any other error, and main tries
\* again; it takes no connection.
AcceptFails ==
  /\ mainpc = "accept"
  /\ SetClientSocket(-1)
  /\ UNCHANGED <<socket_vars, mainpc, newest, thread_vars, earlier>>

\* pthread_create; main does not look whether it has failed.
CreateThread ==
  /\ mainpc = "create" /\ mainpc' = "accept"
  /\ \/ /\ pc' = [pc EXCEPT ![newest] = "start"]
        /\ earlier' = [earlier EXCEPT ![newest] = accepted \ {newest}]
     \/ UNCHANGED <<pc, earlier>>
  /\ newest' = NoConn
  /\ UNCHANGED <<socket_vars, client_socket, sock, from, ellipse, size,
                 ellipses, ellipses_mutex, late>>

Step(t, here, there) == pc[t] = here /\ pc' = [pc EXCEPT ![t] = there]

\* Deviation: an array of numbers, indexed by ellipses.size() as threads is.
ReadOneInUse(t) ==
  /\ Step(t, "start", "recv")
  /\ \E f \in Fds : descriptor[f] # NoConn /\ sock' = [sock EXCEPT ![t] = f]
  /\ UNCHANGED <<socket_vars, from, ellipse, size, ellipses, ellipses_mutex>>

\* int client_socket = *((int *)arg)
ReadArgument(t) ==
  /\ Step(t, "start", "recv")
  /\ sock' = [sock EXCEPT ![t] = client_socket]
  /\ UNCHANGED <<socket_vars, from, ellipse, size, ellipses, ellipses_mutex>>

\* recv is called: the number is looked up once, however long recv waits.
CallRecv(t) ==
  /\ Step(t, "recv", "receiving")
  /\ from' = [from EXCEPT ![t] = Connection(sock[t])]
  /\ UNCHANGED <<socket_vars, sock, ellipse, size, ellipses, ellipses_mutex>>

\* recv returns, sscanf: what it does not find in the text stays uninitialized.
Receive(t) ==
  /\ \/ /\ Step(t, "receiving", "lock") /\ from[t] # NoConn /\ RecvData(from[t], 1)
        /\ ellipse' = [ellipse EXCEPT ![t] = inq[from[t]][1]]
     \/ /\ Step(t, "receiving", "lock") /\ from[t] # NoConn /\ RecvEnd(from[t])
        /\ UNCHANGED ellipse
     \/ /\ Step(t, "receiving", "close") /\ RecvEnd(from[t])
        /\ from[t] # NoConn => peer[from[t]] = "reset"
        /\ UNCHANGED ellipse
  /\ from' = [from EXCEPT ![t] = NoConn]
  /\ UNCHANGED <<sock, size, ellipses, ellipses_mutex>>

\* Deviation: ellipses_mutex is not locked.
LockNothing(t) ==
  /\ Step(t, "lock", "push")
  /\ size' = [size EXCEPT ![t] = Len(ellipses)]
  /\ UNCHANGED <<socket_vars, sock, from, ellipse, ellipses, ellipses_mutex>>

\* ellipses_mutex.lock, the first half of push_back
Lock(t) ==
  /\ ellipses_mutex = NoConn /\ Step(t, "lock", "push")
  /\ ellipses_mutex' = t
  /\ size' = [size EXCEPT ![t] = Len(ellipses)]
  /\ UNCHANGED <<socket_vars, sock, from, ellipse, ellipses>>

\* Deviation: ellipses_mutex stays locked.
PushAndKeep(t) ==
  /\ Step(t, "push", "send")
  /\ ellipses' = Append(SubSeq(ellipses, 1, size[t]), ellipse[t])
  /\ size' = [size EXCEPT ![t] = 0]
  /\ UNCHANGED <<socket_vars, sock, from, ellipse, ellipses_mutex>>

\* The second half of push_back, ellipses_mutex.unlock.  calculate_area and the
\* line of results.txt, the same for all, concern no other thread.
Push(t) ==
  /\ Step(t, "push", "send")
  /\ ellipses' = Append(SubSeq(ellipses, 1, size[t]), ellipse[t])
  /\ size' = [size EXCEPT ![t] = 0]
  /\ ellipses_mutex' = NoConn
  /\ UNCHANGED <<socket_vars, sock, from, ellipse>>

SendResponse(t) ==
  /\ Step(t, "send", "close")
  /\ Send(Connection(sock[t]), t)
  /\ UNCHANGED <<sock, from, ellipse, size, ellipses, ellipses_mutex>>

\* Deviation: the connection is not closed.
CloseNothing(t) ==
  /\ Step(t, "close", "end")
  /\ sock' = [sock EXCEPT ![t] = -1]
  /\ UNCHANGED <<socket_vars, from, ellipse, size, ellipses, ellipses_mutex>>

CloseSocket(t) ==
  /\ Step(t, "close", "end")
  /\ Close(sock[t]) /\ sock' = [sock EXCEPT ![t] = -1]
  /\ UNCHANGED <<from, ellipse, size, ellipses, ellipses_mutex>>

ThreadStep(t) ==
  /\ mainpc # "exit"
  /\ \/ ReadArgument(t) \/ CallRecv(t) \/ Receive(t) \/ Lock(t) \/ Push(t)
     \/ SendResponse(t) \/ CloseSocket(t)
  /\ earlier' = IF pc'[t] = "end" THEN [earlier EXCEPT ![t] = {}] ELSE earlier
  /\ UNCHANGED <<mainpc, client_socket, newest, late>>

\* send to a connection that was reset ends the process.
Sigpipe(t) ==
  /\ mainpc # "exit" /\ pc[t] = "send"
  /\ SendSigpipe(Connection(sock[t]))
  /\ mainpc' = "exit"
  /\ UNCHANGED <<client_socket, newest, thread_vars, history_vars>>

MainStep == AcceptClient \/ AcceptFails \/ CreateThread

ServerStep == MainStep \/ \E t \in Conns : ThreadStep(t) \/ Sigpipe(t)

=============================================================================
