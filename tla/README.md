# TLA+ specifications of the operating-systems assignments

The repository holds the programs of three assignments and three small exercises in C and C++.
This directory holds TLA+ modules for all of them in which processes, threads, connections or files
meet: the two chat servers with their client, the proactor library, the thread pool, the two file
servers of Ex.2 with their clients, the codec and the archive programs of Ex.1, and the ellipse server with the
launcher of its clients. TLC checks them on small instances; TLAPS proves every invariant among the properties of the
passing runs, the refinement and the action property for instances of every size.

`PROJECT.json` lists the components, the runs, the source lines each definition stands for, the
hazards, the findings and the theorems.

    tlc -config <run>.cfg <module>.tla        model-checks a run of the table below
    tlapm <module>Proofs.tla                  checks the proofs of a module

## 1. The system

| component | source | state | operations | interacts by |
|---|---|---|---|---|
| chat server | `Ex.3/section_a/chat_server.c` | array `client_sockets`, `num_clients`, `clients_mutex`; locals of each thread | accept, register, create a thread; receive, broadcast, close, remove | sockets; mutex |
| chat client | `Ex.3/section_a/chat_client.c` | its socket, what is on the screen | connect, keyboard thread, receiving thread | sockets |
| proactor library | `Ex.3/section_b/proactor.c` | list `socket_handlers`, `mutex` | add a socket; thread: find the handler, run it, remove the node, close | callback; mutex |
| proactor chat server | `Ex.3/section_c/server_proactor.c` | list `clients`, `num_clients`, `clients_mutex` | the callback: insert, receive, broadcast, remove, close | library; sockets |
| thread pool | `thread_pool` | ring of tasks, head, tail, count, mutex, condition variable | init, add task, worker, destroy | mutex, condition variable |
| file server | `Ex.2/partB/server.c`, `Ex.2/base64.c` | files under the root and under `clientFiles` | accept, fork; POST and GET of files and of lists | processes, files, `flock` |
| file client | `Ex.2/partB/asyncClient.c` | its socket | one request, one answer or all of them | sockets, files |
| older file server and client | `Ex.2/partA/server.c`, `simpleClient.c` | files under the root | accept, fork; POST and GET of a file of the server itself | processes, files, `flock` |
| codec | `Ex.1/Polyalphabetic_encoder` | a key of 62 characters; two files | encode, decode | files |
| compress and encrypt | `Ex.1/TarCompressEncrypt` | `output.gpg`, two temporary files, `unzipped_directory` | `myzip`, `myunzip`: tar, gzip, gpg and back | files, `system` |
| ellipse server | `client_request_multiple_threads` | `client_socket` of main, vector `ellipses` and its mutex | accept, create a thread; receive, push, send, close | sockets; a shared local; mutex |
| launcher | `luncher` | its child processes | fork clients, wait for them | processes, sockets |
| singleton, triangle, debug examples, build files | `singelton`, `Ex.1` | - | - | - |

What is hard in them, and what makes each correct:

* **Chat server.** A descriptor number is free again when `close` returns, while the array and
  other threads still use it; `accept` gives the lowest free number to the next connection.
  Entries are moved up in the array while others broadcast. `send` may block with the mutex
  held, and raises SIGPIPE on a connection that was reset. `pthread_create` may fail after the
  socket was registered. Correct means: a thread works on its own connection, removes its own
  entry, a broadcast reaches everyone else once and not the sender, in one order for all; a line
  reaches the screens and a departed client is forgotten.
* **Proactor library and server.** In addition, nodes are found by number, cells are freed and
  given out again, a thread reads its number from a node that may be gone, the callback closes a
  socket the library closes again, and inserts in a list without the mutex the others take.
* **Thread pool.** Producers and workers wait on one condition variable, and `signal` wakes one
  thread of either kind; waits may return without a signal; workers may not exist.
* **File servers.** Children write and read the same files at the same time. `fopen(.., "wb")`
  empties the file before `flock` (partB) or without it (partA), and `fclose` writes the data after the lock
  was released. The size of a file is taken before it is read. Clients of a list wait for the end of
  the connection, which two processes hold open. Correct means: an answer tells the truth, a file that nobody
  writes is one whole text, a GET decodes a whole text or nothing, and nobody waits for ever.
* **Ex.1.** A file is emptied before it is written, and `decode` writes over the source; `mkstemp` is not
  called for the temporary files of `myzip` and `myunzip`, so that all runs use the same names. Correct
  means: the text is in one of the two files wherever a run is stopped, as long as the program that was stopped
  is the one that runs next; a run that is not disturbed does its work whatever earlier runs have left; and a run that has
  ended left nothing.
* **Ellipse server.** All threads get the address of one variable of main, which the next `accept` writes.
  Correct means: each thread serves its own client if it reads the variable in time, never one that came earlier,
  and no ellipse is lost.

All hazards with their lines are in `PROJECT.json`.

## 2. Modules

| module | models |
|---|---|
| `Sockets` | the kernel's side: descriptor numbers, connections, the two streams, reset and SIGPIPE |
| `ChatClient` | `chat_client.c` |
| `ChatRoom` | what clients of either chat server see of each other: echo, repetition |
| `ChatServer` | `chat_server.c`: main and one handler thread per connection |
| `ChatSystem`, `MCChatSystem` | `ChatServer` with `ChatClient`s; instances |
| `ChatSystemProofs`, `ChatRoomProofs` | proofs about `ChatSystem` |
| `SocketList` | linked lists of cells that `malloc` and `free` reuse |
| `Proactor` | `proactor.c` and the accept loop that feeds it |
| `ProactorLibrary`, `MCProactorLibrary` | `Proactor` with a callback that just returns: `LibrarySpec` |
| `ServerProactor` | the callback of `server_proactor.c` |
| `ProactorSystem`, `MCProactorSystem` | `ServerProactor` in `Proactor` with `ChatClient`s |
| `ProactorProofs` | proofs about both, over the same lemmas about lists |
| `TaskQueue`, `TaskQueueProofs` | the abstract bounded queue the pool promises to be |
| `ThreadPool`, `MCThreadPool`, `ThreadPoolProofs` | `thread_pool` |
| `CFiles` | strings of C, files that are written over |
| `Base64` | `base64.c` over OpenSSL's filter, as functions on sequences |
| `ForkServer` | what both file servers have in common: main, and the end of a child |
| `FileServerA`, `FileServerB` | the children of `Ex.2/partA/server.c` and `Ex.2/partB/server.c`, and their clients |
| `FileServer`, `MCFileServer` | one of the two servers with its clients; instances |
| `FileServerProofs` | proofs about base64 and about `FileServer` |
| `PolyCodec` | `encriptor.c`: encode and decode as functions on sequences |
| `Ex1Codec` | the programs `encode.c` and `decode.c` over their two files |
| `Ex1Zip` | `myzip.c` and `myunzip.c` with the commands they call |
| `Exercise1`, `MCExercise1` | runs of these four programs in one directory |
| `Exercise1Proofs` | proofs about the codec and about `Exercise1` |
| `EllipseServer` | `client_request_multiple_threads` |
| `Launcher` | `luncher` and the clients it forks |
| `EllipseSystem`, `MCEllipseSystem` | the ellipse server with the launcher |
| `EllipseProofs` | proofs about `EllipseSystem` |

`EXTENDS` goes from left to right: `Sockets` < `ChatClient` < `ChatRoom` < `ChatSystem`, and
`Sockets` < `ChatServer` < `ChatSystem`; `Sockets`, `SocketList` < `Proactor` < `ProactorLibrary`;
`Proactor` < `ServerProactor` < `ProactorSystem`, which also has `ChatRoom`; `CFiles` < `Base64` <
`ForkServer` < `FileServerA`, `FileServerB` < `FileServer`; `CFiles` < `PolyCodec` < `Ex1Codec` < `Ex1Zip` <
`Exercise1`; `Sockets` < `EllipseServer`, `Launcher` < `EllipseSystem`. `ThreadPool` instantiates
`TaskQueue` with the ring read from head to tail.

In several modules a comment "Deviation" marks versions of an action with one mistake each. No
specification uses them. `PROJECT.json` names, for every property, a deviation under which TLC
finds the property violated.

### State and steps

A variable has the name of the variable in the code. A thread (or child process) has a program
counter `pc`, whose labels are the places between two steps of the code at which another
thread can make a difference: a blocking call, taking a mutex, a step on shared data without a
mutex. A critical section that cannot block in the middle is one action, guarded by the mutex
being free; a section that can (the broadcast loop of both chat servers, which blocks in `send`)
has an action for taking the mutex, one per iteration, and one for giving it back. Program
variables of a thread are functions from connections, as each thread belongs to one.

* `Sockets`: `descriptor` maps numbers to connections, `inq` and `outq` are the streams of a
  connection, elements are what one `send` passed on. `recv` may return several elements
  together. A message to a client that has left resets the connection; the next raises SIGPIPE,
  which ends the process: neither server ignores it. A peer holds `SndBuf` messages, then `send`
  blocks until the client reads.
* `ChatServer`: `MainAccept`, `MainRegister`, `MainCreate`/`MainCreateFails` are the loop of main;
  `Receive`, `Disconnected`, `BroadcastLock`, `BroadcastSend`, `BroadcastSigpipe`,
  `BroadcastUnlock`, `CloseSocket`, `RemoveClient` are `handle_client` with
  `send_message_to_clients`. `RemoveClient` is the whole section in lines 63-79, the entries
  behind the removed one move up in it.
* `Proactor` / `ServerProactor`: a list is a record of its first cell, the numbers and links of
  all cells, and the set of allocated cells. main allocates a node without the mutex (`NewNode`) and puts it
  in front under it (`AddNode`). `NewClient` and `InsertClient` are two steps, since
  lines 49-52 of `server_proactor.c` run without a mutex. `recv` and `send` look the number up when
  they are called and stay on that connection while they block, so call and return are two
  actions there: a number can be closed under a blocked call by the second `close`.
  A search in a list that has become a circle never ends and keeps its mutex (label "spin").
  A freed cell holds no valid number; its link may still be as it was, or be written over by
  the allocator, and then following it ends the process (`FollowFreed`).
* `ThreadPool`: `AddTask`, `WaitForRoom`, `TakeTask`, `WaitForTask`, `Execute`, `SpuriousWakeup`,
  `CreateWorker`, `Destroy`. Every section under the mutex ends or waits, so each is an action.
* `ChatClient`: `Keyboard` is one round of `handle_keyboard`; `KeyboardAtEnd` is a round at the end of the
  input, where `fgets` leaves the last line in the buffer and it is sent again. `ChatSystem` keeps a
  history, `log`: the messages in the order in which their handlers got the mutex.
* File servers: a child of partB goes through `HandleRequest`, then per file `Open`, `Measure` (`ftell`), `Read`,
  and for POST `Create` (`fopen "wb"` empties the file), `LockAndWrite` (into the buffer of stdio),
  `Unlock`, `Flush` (`fclose`), `Respond`; for GET `Save`, `Flush`, `Respond`. A child of partA goes through
  `Dispatch`, `OpenSource`, `LockAndMeasure`, `ReadAndUnlock`, `ConvertAndCreate`, `Flush`, `Respond`, the same
  for POST and GET. A short `fread` that is not noticed leaves bytes of `malloc` in the content, any byte of
  `Garbage`. `flushed` is a history of the texts that `fclose` wrote.
* `Ex1Codec`: each program is `OpenAndMeasure`, `ReadText`, `CreateOutput`, `WriteOutput`, where `encode` reads
  its destination again at the end. What `decode` makes of a character that is not behind the place in the key where
  it looks is any byte of `Garbage`. `StopCoder` ends a run from outside, at any point: a file that it has emptied stays empty.
* `Ex1Zip`: a command of `system` opens its output (`OpenCommand`), reads (`TarReads`, `ReadCommand`) and
  writes (`WriteCommand`); between any two of these other runs take steps. Contents are nested layers:
  `<<"gpg", <<"gzip", <<"tar", ...>>>>>>`. A file that another run unlinks while it is open lives on without a
  name, as `dir` maps names to the run whose file they refer to. Two writes to one file may leave a mixture,
  `Garbled`, which no command accepts. `FailOrStop` is a command that fails, for whatever reason, and a run that is stopped
  together with its command; both leave the files and names as they are. `disturbed` is a history of the runs
  that overlapped with one that shares their files, and of the coders that found their input empty when they began (`Start`).
* `EllipseServer`: a thread is named by the connection main accepted for it. `AcceptFails` may happen at any
  time and sets the variable to -1. `ReadArgument` is the copy of
  the variable. `recv` looks its number up when it is called and stays on that connection (`CallRecv`, `Receive`).
  `Lock` and `Push` are the two halves of `push_back`: reading the length and writing the element and the length.

### Abstractions

* The ellipse server's computation sleeps and appends a line that is the same for all; both are left out. What
  the launcher's clients send is known by the client.
* The text of a message is the pair of its author and a number; lengths, the prefix "Client %d:"
  and the terminating 0 are left out. Contents of files are short sequences of bytes, so that
  they are within one request, one `send` and one stdio buffer; a write of the kernel is one step.
* The bounds `MAX_CLIENTS` of the chat server's array and the backlog of `listen` are not
  modelled; `num_clients` of the proactor server is never read and left out.
* The passphrase file of `myzip`, whose name `mkstemp` makes unique, and its content are left out; the passphrase
  of `myunzip` is an uninitialized buffer, so that its `gpg` may always fail.
* `fork`, `fopen`, `pthread_create` fail up to a bound; `malloc`, `flock`, `socket`, `bind` and `listen`
  do not fail.
* After `thread_pool_destroy` the pool is freed memory and no step of a worker is modelled.
* Bounds are constants that stand in guards: `MaxLines` (lines a user types), `MaxShown`
  (messages a client displays), `MaxAtEnd` (rounds of the keyboard thread after the end of input), `MaxTasks`
  (tasks a producer adds), `ThreadFailures`, `Failures`, `AtOnce` (runs of Ex.1's programs at the same time) and
  `Together` (sets of runs, of which one behaviour begins those of one set).
  The deadlock check is off in all runs for this reason: users stop typing, producers have added their
  tasks, each client asks once, each program is run once, and then nothing is left to do. That nobody waits for
  somebody for ever before that is stated by the liveness properties and by `NoStall`.

## 3. What TLC checks

| run | instance | shows |
|---|---|---|
| `chat_safety` `ChatSafety.cfg` | 3 connections, 3 numbers, 2 of them type one line each, 2 leave, one sends its line again at the end of its input, 1 failed thread | `TypeOK`, `OwnDescriptor`, `EntriesMatchHandlers`, `BroadcastReachesAll`, `NoEcho`, `TotalOrder` |
| `chat_live` `ChatLive.cfg` | 2 typists with 2 lines each, 1 client that leaves, 2 numbers | `EveryLineShown`, `DepartedForgotten` |
| `chat_twice` `ChatTwice.cfg` | 3 connections, 2 numbers, 2 lines | violates `AtMostOnce` |
| `chat_sigpipe` `ChatSigpipe.cfg` | as above | violates `SurvivesDepartures` |
| `pool` `Pool.cfg` | 2 producers with 3 tasks, 0 to 3 workers, 3 slots: room for all | `TypeOK`, `ImplementsQueue`, `OnceInPool`, `OrderInPool`, `SeparateSleepers`, `NoStall`, `EveryTaskExecuted` |
| `library` `Library.cfg` | 4 connections, 2 numbers, 2 cells, one handler need not return, 1 failed thread | `LibraryTypeOK`, `OwnNode`, `ClosesOwn`, `EveryoneServed` |
| `server` `Server.cfg` | 2 clients with 2 lines, both may leave, 2 numbers, 3 cells, 1 failed thread | `TypeOK`, `NoEcho`, `HandlersIntact` |
| `server_close` `ServerClose.cfg` | 2 clients, 1 number | violates `ClosesNoOther` |
| `file` `File.cfg` | partA with 4 or partB with 6 kinds of requests, 2 clients, 2 failed calls | `TypeOK`, `OkMeansStored`, `BeginsWithOneText`, `WholeOrEmpty`, `GetsWholeOrEmpty`, `DecodesBack`, `EveryoneDone` |
| `file_stored` `FileStored.cfg` | 1 client of partB | violates `StoresContent` |
| `ex1` `Exercise1.cfg` | `encode` and `decode` twice each, `myzip` twice, `myunzip`, 2 at the same time, each stopped anywhere; in one behaviour the 4 coders, the 3 others, or one `encode` and one `decode` with two of the 3 | `TypeOK`, `TextRecoverable`, `ZippedAlone`, `UnzippedAlone`, `NoLeftovers` |
| `ellipse` `Ellipse.cfg` | 3 clients of the launcher, 2 numbers, `accept` fails at any time | `TypeOK`, `NeverAnEarlierClient`, `OwnUnlessLate`, `EveryEllipseKept`, `EveryThreadEnds`, `LauncherReturns` |

Why the bounds are enough for the cases that matter:

* *Chat.* Reuse of a number needs a client that leaves, one that comes while the old entry is
  still there, and one that speaks: three connections over two numbers. Two lines of one
  sender make a gap or a repetition visible; the order of two messages needs two senders and two
  receivers. `SndBuf` of 1 makes `send` block on a client that has not read one message.
* *Pool.* Both kinds of threads are more than one, the ring wraps around (6 tasks, 3 slots), and
  every worker may sleep while a producer does. Instances of other sizes are covered by the proofs.
* *Proactor.* Four connections use two numbers and two cells again; every connection's thread may
  lag behind at any label. In `server`, two connections already insert at once, remove each
  other's cells, close each other's sockets, and build circles.
* *File.* Two clients overlap two posts of one file, a post and a get, two gets, and a list that
  stores a file twice while the other reads it, for partB; for partA two posts, two gets, or one that reads what
  the other writes. Contents of 5 bytes need padding and
  leave an incomplete group of base64 behind when they are cut.
* *Ex.1.* Two runs at a time are those that disturb each other. Of each program that changes the text there are two runs, so that a
  stopped one can be run again, or the other one be run in its place; a run of `myzip` or `myunzip` finds what two others left, complete
  or not, and each kind of them meets both coders. More runs of one behaviour together (`Together`) would repeat this. The text has a character of each kind that comes back: a small and a
  capital letter and another character.
* *Ellipse.* Three clients and two numbers: a thread that has not read the variable yet while the next connection is
  accepted, on a new number or on one that was just closed; `accept` that fails and writes -1 for it.

Reduction by symmetry is used only in runs without liveness properties; it permutes
connections that are alike in `Leavers` and `Typists`, cells, producers, workers, or runs of `myzip`.

### Fairness

Liveness is checked under weak fairness of each thread of the programs: a thread that can
take its next step and goes on being able to takes it. That is what the kernel's scheduler
gives to a runnable thread. Nothing is assumed about who gets a mutex that several wait for:
weak fairness of a thread whose guard is "the mutex is free" does not promise it the mutex, and the
properties do not need it, because in the instances the others run out of work. Nobody is made to
connect, type, leave, or ask; a pool need not be destroyed; waits need not return
without a signal. Of a client, the thread that displays messages is fair, as it sits in a loop around
`recv`. In `ProactorLibrary` the callbacks return, except those of `Endures`.
In `EllipseSystem` it is enough that some thread or process that can go on does, whichever: no execution goes on for ever,
but for `accept` that fails again and again, which does not count as a step. `Exercise1` needs none.
`ServerProactor` has no liveness property: its races let a search run in a circle, with the mutex held.

### What the properties say

* `OwnDescriptor`: until a handler has closed its socket, the number it has is its own connection's.
* `EntriesMatchHandlers`: removing by number takes, if not its own entry, then one just like it: no
  handler is left without an entry, and apart from failed threads there are no others.
* `BroadcastReachesAll`: at the end of a broadcast each handler in its loop has been served, though
  entries of others moved. It needs removal and broadcast under one mutex.
* `TotalOrder`: what a client was sent is found in the log from left to right, so that all clients see the
  messages in one order, that of the mutex, whoever sent them; also when a line is sent again and again at the end of an input.
* `EveryLineShown`, `DepartedForgotten`: lines reach the screens, and entries and numbers
  come back, unless SIGPIPE has ended the server.
* `ImplementsQueue`: the ring under its mutex and its shared condition variable is a bounded queue;
  `OnceInPool` and `OrderInPool` are the consequences a user relies on.
* `SeparateSleepers`, `NoStall`, `EveryTaskExecuted`: producers and workers never wait at the same time, so that no signal is lost on
  the wrong kind, and every task is executed. All three are claimed for pools with room for all (`RoomForAll`): at
  least as many slots as producers, and at least as many as workers; each kind counts alone. main's pool of 5 workers and 10 slots with one
  producer has room. `thread_pool_init` takes any number of slots, and without room the pool can stop for good, although `thread_pool:5` says that the
  workers execute the tasks: with one slot, one producer and two workers, a signal meant for
  the producer may wake a worker, which finds the queue empty and waits again, and then all three wait. Such pools are outside the claims.
* `OwnNode`, `ClosesOwn`: the protocol of the library (node, callback, remove, close) is right for a callback
  that leaves its socket open: because `close` comes last, a number is never in the list twice.
  When `pthread_create` fails, its freed node stays in the list, the list may become a circle, and a
  search in it keeps the mutex for ever: `OwnNode` and `EveryoneServed` (like `HandlersIntact`) are claimed
  for the time before; `ClosesOwn` also holds after it.
  The chat server's callback breaks this, see `server_close`. `HandlersIntact`: its list of
  nodes nevertheless stays well formed, as long as no thread failed to start.
* `OkMeansStored`, `BeginsWithOneText`, `WholeOrEmpty`: what `flock` does not provide, the order of
  `fclose` and answer and the single write of `fclose` do: an answered request was stored, a
  finished file begins with one whole text, and texts of one length do not mix. Texts of different
  lengths do: the end of the longer one stays behind the shorter one.
* `GetsWholeOrEmpty`: a GET of partB takes no lock, and still never decodes a part of a text: it compares what it
  has read with what it has measured. It says so for files whose texts have one length; partA does not compare,
  and decodes a text followed by bytes of `malloc`.
* `EveryoneDone`: each client that waits sees an answer or the end of the connection,
  also when `fork` or a child fails.
* `DecodesBack`: decoding inverts encoding up to the first 0, for the contents that are posted.
* `TextRecoverable`: though both programs of the codec empty a file before they write it, the text is in the source, or the
  destination decodes to it, at every moment and wherever runs are stopped, on two conditions. No `decode` overlaps with another of them;
  and no coder begins with an empty input: when `encode` has been stopped after it emptied the destination, it
  is `encode` that must run again, as a `decode` would empty the source, too, and likewise after a `decode` that was stopped.
* `ZippedAlone`, `UnzippedAlone`: temporary files of runs that failed, were stopped, or overlapped, are overwritten and do no harm to
  a later run that is alone. They say nothing of runs that overlap: their archives may be mixed or
  empty, and a run may report success for another's archive.
* `NoLeftovers`: a run that ends well leaves neither of its temporary files, even if another run used, emptied or unlinked them.
* `NeverAnEarlierClient`, `OwnUnlessLate`: a thread that reads the shared variable late serves a later client, or
  none, never an earlier one; as long as no thread is late, each serves its own, alone, and SIGPIPE does not occur.
* `EveryEllipseKept`: `push_back` of two threads loses nothing, as `ellipses_mutex` is held over both halves.
* `EveryThreadEnds`, `LauncherReturns`: even threads that share a connection, or got none, come to an end, and the launcher
  does not wait for answers.

### Findings

1. `chat_twice`: `handle_client` closes its socket before it removes the entry. A connection that
   gets the number in between is in the array twice and is sent a message twice.
2. `chat_sigpipe`: a `send` to a client that has left raises SIGPIPE and ends the server.
3. `server_close`: the callback closes the socket and the library closes the number again, which may
   be another client's connection by then.
4. `file_stored`: the length of the content is passed to `fwrite` as the length of its base64 text,
   which is longer by a third: what is stored lacks its end, and the padding never gets stored.

## 4. What is proved

The assumptions are those in the modules: `SocketAssumption`, `ChatServerAssumption`, `ChatClientAssumption`, `ProactorAssumption`,
`ListAssumption`, `TaskQueueAssumption`, `ThreadPoolAssumption`, `FileServerAssumption`, `CodecAssumption`, `ZipAssumption` and
`LauncherAssumption`. They say that bounds are naturals, that `NoConn` is no connection, `NoTask` no task, `NoFile` no run, `NoClient`
no client, `NULL` no cell and `Missing` no content, that descriptor numbers are naturals (and not 0 where `Proactor` gives 0
to freed nodes: 0 is the standard input), that memory is finite, that no thread is both producer and worker, that there is
a slot, that requests are of the kinds the clients make, that files hold bytes, that connections of the launcher are its clients, and that no
character occurs twice in the key, as `createCodec` checks. `TextNeverLost` and `ExerciseZippedAlone` also assume texts that decode gives back.

* `ChatSystemProofs`
  * `TypeCorrect` and `HandlersOwnTheirSocket` (`OwnDescriptor`) are proved with
    one invariant `OwnInv`. `OwnDescriptor` alone is not inductive: main holds a number before
    there is a thread. `Ownership` adds that a connection has at most one number (`OneNumberEach`), that
    a number in use refers to an accepted connection (`InUseAccepted`), and that main's number,
    between accept and the creation of the thread, refers to a connection without a thread
    (`MainHolds`). Each action has a lemma. The kernel's guard of `Accept`, a free number and
    a connection not accepted before, is what `MainAccept` needs; two handlers that have not closed have
    different connections, hence different numbers, so that `CloseSocket` takes nobody else's.
  * `EntriesAreKept` (`EntriesMatchHandlers`), by `EntriesInv`, which counts: for each number the array has at least as many
    entries as there are registered handlers with this number, and one more while main is about to start the thread. A handler
    that removes by number takes one entry and leaves the registered ones, so that the balance of every number stays. Lemmas about
    `RemoveAt` and `Append` say what they do to the number of positions of a value.
* `ChatRoomProofs`, on top of `OwnInv`
  * `NobodyHearsHimself` (`NoEcho`): `EchoInv` says that a handler has received lines of its own client only, and nobody
    was sent one of his own. The sender skips its own number, and by `OwnInv` no other number leads to its client.
  * `MessagesInOneOrder` (`TotalOrder`): what each connection was sent, read or not, is a selection of `log` from left to
    right. `SendInv` adds that the handler in the broadcast loop has the mutex and that its message is the last one of the log: a
    message that is sent thus comes behind everything sent before. This is where the mutex around the
    whole loop is needed: only its holder appends to the log. The theorem is about `log` in the order of the mutex,
    and holds also where `AtMostOnce` does not.
  * `BroadcastReachesEveryone` (`BroadcastReachesAll`): `Reached` says that while a handler is in the loop, everyone to whom an entry
    behind its index leads has the message. The number main has in hand between `accept` and registration is left out, as it
    may have been given out again after its old entry was passed; no entry moves, because that takes the mutex. At the end of the
    loop, `EntriesInv` finds an entry for the number of each handler in its loop, and `OwnInv` leads from it to the handler's client.
* `TaskQueueProofs`: for the abstract queue, `TQTypeCorrect`, `EachTaskOnce` and `TasksInOrder`,
  each from the invariant `TQInv` and one lemma per action. They are stated for every
  instance, under `TaskQueueAssumption`, so that the pool can use them.
* `ThreadPoolProofs`
  * `TypeCorrect` by induction.
  * `Refinement`: `Spec => ImplementsQueue`. The invariant `RingInv` says that tail is `task_count`
    slots after head, around the ring, so a producer writes behind the last task and over none. `AddAppends` and `TakeRemoves` show
    what an action does to the ring read from head to tail; waits, signals and wakeups are stutters.
  * `PoolOnce`, `PoolInOrder` carry the queue's theorems over to the pool, for any
    number of producers, workers, slots and tasks.
  * `Separation`, `NoLostWakeup`: `SeparateSleepers` and `NoStall`, for every pool in which
    there are as many slots as producers and as workers (`RoomForAll`). `SeparateSleepers` is inductive
    with the types, because it counts: while workers wait, there are at most as many tasks as workers that
    are awake or do not exist, and likewise for producers and free slots. A signal then always wakes the kind it is for.

* `FileServerProofs`
  * `Base64DecodesBack`: decoding inverts encoding up to the first 0 for every content, from the padding, the groups of four
    characters and the arithmetic of one group. `FileServerDecodesBack` (`DecodesBack`) follows with the types.
  * `FileServerTypeOK`, by `TypeInv`: what a child reads or writes exists (`Progress`), main and the child share the connection
    until main has closed it (`Sharing`), and a lock belongs to a child at the places where the code has it (`Locks`).
  * `FileServerOkMeansStored`, by `OkInv`: the item a child is about to answer for, and each item it answered for, has a record in
    `flushed`, which never loses one.
  * `FileServerBeginsWithOneText`: files change by `fopen`, which leaves a writer behind that has not ended, and by whole writes from the
    first byte on; the last writer to end leaves its text at the beginning.
  * `FileServerWholeOrEmpty`, by `WholeInv`: the writes of texts of one length over each other or over nothing leave the last one.
    A text that was there initially is gone before anybody writes, as `fopen` emptied the file, which `WholeInv` has to say.
  * `FileServerGetsWholeOrEmpty`, by `GetInv`: the size a GET has measured is 0 or the length of one of the texts, and what it
    reads later is cut there or found to be shorter.
* `ProactorProofs`. Both lists are chains: there is a sequence of cells, from the first, along the links, without
  repetition, to `NULL` (`Chain`). `Walk` follows the links as the loops of the code do, and the lemmas say what inserting in front
  and taking out do to a chain and to the walk along it.
  * `ProactorLibraryTypeOK` (`LibraryTypeOK`) and `ChatProactorTypeOK` (`TypeOK`): threads read through pointers, so they need that a
    pointer is a cell where it is followed.
  * `ThreadsCloseTheirOwn` (`ClosesOwn`), by `Numbered`: each thread before its removal has an allocated node with a number of its own
    connection. It holds also after a failed `pthread_create`, as it does not speak of the list.
  * `ThreadsOwnTheirNodes` (`OwnNode`), by `NodesOwned`: the cells of the chain are the nodes of the threads and of main; by `Numbered` no
    two of them hold one number, so that the search by number finds the thread's own node.
  * `NodesStayIntact` (`HandlersIntact`) for the chat server over the library, whose handlers close early: its list stays a chain
    (`NodesChained`), although the numbers in it are not distinct any more. The node main has allocated and not put in yet is not one of
    its cells, so that putting it in front makes no circle.
  * `ChatProactorNoEcho` (`NoEcho`), by `Apart`. The threads of this server may work on connections of others, so the argument of
    `ChatRoomProofs` fails. But a connection has one number in its life: a line was received at the number the thread skips,
    so its author is at no other (`BufferAtNumber`, `SendsToOthers`).

* `Exercise1Proofs`
  * `DecodeInvertsEncode`: for every key without repetitions, decode gives back a text of `Survivors`: letters whose
    character in the key is a letter of the same case, and what is neither letter nor digit. Other characters need not come back:
    with the key of both mains, x, y, z, X, Y, Z and all digits do not.
  * `TextNeverLost` (`TextRecoverable`), for texts of `Survivors`, by the invariant `CodecInv`. Two parts: the history `disturbed` holds every
    `decode` that is under way together with another coder (`Overlaps`), and without such a decode, and without coders that began with an
    empty input, the files are
    `Consistent`: the source is the text or empty, the destination complete, empty or not there yet, and one of the two is
    whole. A source is empty from the moment a `decode` creates it, which has all of the destination in memory then, until a `decode` has
    written it; when that decode is stopped, it stays empty, and an `encode` would begin with an empty input. Beside an `encode` no decode is
    under way, so the source it reads is the text; beside a `decode` no encode is, so the destination stays.
  * `NothingLeft` (`NoLeftovers`), by the invariant `NamesInv`: a name refers to a run's own file only from its own opening on, and once
    a run has unlinked a name nobody makes it refer to that run again.
  * `ExerciseTypeOK` (`TypeOK`), by `CoderTypes` and `ZipTypes`: under each name, in each file without a name and in the memory of each command
    is data of the layers that belong there, a rest of another run's, or `Garbled`.
  * `ExerciseUnzippedAlone` and `ExerciseZippedAlone` (`UnzippedAlone`, `ZippedAlone`), by `AloneInv`: a run that overlaps with another one is in
    `disturbed` (`ZipOverlaps`), and for each run that is not, `Zipping` or `Unzipping` says, step by step, which layers are under which
    name, whatever the names held before, by failed or stopped runs: each command of a run opens, and empties, the next file itself. That the archive of an
    undisturbed `myzip` gives the text back rests on `PictureInv`: what tar has read is the pair of files as `CodecInvariant` describes it. It
    assumes, like `TextNeverLost`, texts of `Survivors`.
* `EllipseProofs`
  * `ServesNoEarlierClient` (`NeverAnEarlierClient`), by the invariant `EarlierInv`: when main creates a
    thread, its variable has the newest connection or a closed number (`MainHoldsNewest`), and from then on a number is
    given only to connections accepted later, so that no copy of the variable can refer to one accepted before.
  * `EllipseTypeOK` (`TypeOK`): inductive with `PushAlone`, that the thread in `push_back` has the mutex and has read the length the list still has.
  * `EllipsesAreKept` (`EveryEllipseKept`), by `KeptInv`: a client sends one ellipse, which is in a stream, in the hands of one thread, or
    in the list. Two threads that serve one connection do not receive it twice.
  * `EllipseOwnUnlessLate` (`OwnUnlessLate`), by `Punctual` and `OneNumber`: without late threads each connection has one number, and a thread
    its own; nothing was sent on a connection before its thread answers, and its client leaves only after that, so SIGPIPE cannot occur.

How the proofs avoid induction over data. The prover cannot use an induction theorem, so nothing is shown about lists, texts or paths by
recursion over them: a chain is a sequence that exists, a text is encoded group by group through quantifiers, and the number of entries is the cardinality of
a set of positions. The recursive functions of the models are used through their defining equations only.

Only model-checked: all liveness properties (`EveryLineShown`, `DepartedForgotten`, `EveryTaskExecuted`, `EveryoneServed`, `EveryoneDone`,
`EveryThreadEnds`, `LauncherReturns`), as temporal reasoning under fairness needs `ENABLED`, which is out of the prover's reach.
The violations of section 3 are counterexamples and need no proof.

## 5. Not modelled

* `singelton`: an explanation with a sequential example of two calls, without input and without a second actor.
* `pythagoreanTriangle.c` is floating-point arithmetic without state; the debug examples crash on purpose;
  build files and generated files, the compiler checks of CMake among them, have no behaviour at run time.
* The joins at the end of main of `chat_client.c` and what follows: the keyboard thread never returns.
* Children of the file servers are never waited for. The zombies are no state of the program; that `fork`
  fails at any time is modelled.
* Lengths of buffers: a message or a request is within one, and the byte behind a full buffer of `recv` is not modelled.

## 6. Plan

Done: all programs in which two actors meet, with their clients; all invariants of the passing runs, `ClosesOwn` and `ImplementsQueue` proved.

What is left:

1. Abstract specifications beside `TaskQueue`: a broadcast channel that takes a message and delivers it to everyone else in one step order, implemented by
   `ChatSystem` with `log` as the channel's history; a file store in which a POST replaces a text at `fclose`, implemented by
   `FileServer` for texts of one length. Their refinements follow from `TotalOrder`, `BroadcastReachesAll` and `WholeOrEmpty` step by step.
2. Action properties worth a theorem: that the log and the screens only grow, that `flushed` loses no record, that the array changes only
   when nobody is in the broadcast loop.
3. What is known without failures of `pthread_create` only (`OwnNode`, `HandlersIntact`): how much of the list is intact after one.
