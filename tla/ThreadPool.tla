----------------------------- MODULE ThreadPool -----------------------------
(***************************************************************************)
(* The program in the file thread_pool: a ring of tasks under one mutex,   *)
(* with one condition variable, task_available, on which producers wait    *)
(* for room and workers for work.                                          *)
(*                                                                         *)
(* Every critical section either runs to its end without blocking or ends  *)
(* in pthread_cond_wait, so a section is one action.  A thread that has    *)
(* been woken takes the mutex like one that comes for the first time and   *)
(* tests its condition again.  The producers of main are one; more of them *)
(* is the use the mutex in thread_pool_add_task is there for.              *)
(***************************************************************************)
EXTENDS Naturals, Sequences, FiniteSets

CONSTANTS Producers,      \* threads that call thread_pool_add_task
          Workers,        \* threads thread_pool_init asks for
          QueueSize,      \* pool->queue_size
          MaxTasks,       \* bound: tasks each producer adds
          ThreadFailures, \* bound: calls of pthread_create that fail
          NoTask          \* a local Task without value

ASSUME ThreadPoolAssumption ==
  /\ QueueSize \in Nat \ {0}
  /\ MaxTasks \in Nat
  /\ ThreadFailures \in Nat
  /\ Producers \cap Workers = {}
  /\ NoTask \notin Producers \X (1..MaxTasks)

VARIABLES task_queue, head, tail, task_count,  \* fields of the pool
          threads,   \* "new" before pthread_create, then "running" or "failed"
          waiting,   \* threads in pthread_cond_wait(&task_available)
          added,     \* tasks each producer has added
          current,   \* the local task of thread_pool_worker
          executed,  \* tasks whose function has returned
          destroyed  \* thread_pool_destroy has been called

ring_vars == <<task_queue, head, tail, task_count>>
vars == <<ring_vars, threads, waiting, added, current, executed, destroyed>>

Tasks == Producers \X (1..MaxTasks)
Slots == 0..(QueueSize - 1)

Init ==
  /\ task_queue = [s \in Slots |-> NoTask]
  /\ head = 0 /\ tail = 0 /\ task_count = 0
  /\ threads = [w \in Workers |-> "new"]
  /\ waiting = {}
  /\ added = [p \in Producers |-> 0]
  /\ current = [w \in Workers |-> NoTask]
  /\ executed = {}
  /\ destroyed = FALSE

\* pthread_cond_signal wakes one of the threads that wait, if any does.
Signal ==
  \/ waiting = {} /\ waiting' = {}
  \/ \E t \in waiting : waiting' = waiting \ {t}

-----------------------------------------------------------------------------
(***************************************************************************)
(* Deviations: versions of actions below with one mistake each.  No        *)
(* specification uses them; each breaks one of the properties.             *)
(***************************************************************************)

\* The queue counts as full one task too late.
AddTaskToFull(p) ==
  /\ ~destroyed /\ \A w \in Workers : threads[w] # "new"
  /\ p \notin waiting /\ added[p] < MaxTasks /\ task_count <= QueueSize
  /\ task_queue' = [task_queue EXCEPT ![tail] = <<p, added[p] + 1>>]
  /\ tail' = (tail + 1) % QueueSize
  /\ task_count' = task_count + 1
  /\ added' = [added EXCEPT ![p] = @ + 1]
  /\ Signal
  /\ UNCHANGED <<head, threads, current, executed, destroyed>>

\* A task is added without waking anybody.
AddTaskSilently(p) ==
  /\ ~destroyed /\ \A w \in Workers : threads[w] # "new"
  /\ p \notin waiting /\ added[p] < MaxTasks /\ task_count # QueueSize
  /\ task_queue' = [task_queue EXCEPT ![tail] = <<p, added[p] + 1>>]
  /\ tail' = (tail + 1) % QueueSize
  /\ task_count' = task_count + 1
  /\ added' = [added EXCEPT ![p] = @ + 1]
  /\ UNCHANGED <<head, threads, waiting, current, executed, destroyed>>

\* The head does not return to the first slot.
TakeTaskPastEnd(w) ==
  /\ ~destroyed /\ threads[w] = "running"
  /\ w \notin waiting /\ current[w] = NoTask /\ task_count # 0
  /\ current' = [current EXCEPT ![w] = task_queue[head]]
  /\ head' = head + 1
  /\ task_count' = task_count - 1
  /\ Signal
  /\ UNCHANGED <<task_queue, tail, threads, added, executed, destroyed>>

\* A task is taken without waking anybody.
TakeTaskSilently(w) ==
  /\ ~destroyed /\ threads[w] = "running"
  /\ w \notin waiting /\ current[w] = NoTask /\ task_count # 0
  /\ current' = [current EXCEPT ![w] = task_queue[head]]
  /\ head' = (head + 1) % QueueSize
  /\ task_count' = task_count - 1
  /\ UNCHANGED <<task_queue, tail, threads, waiting, added, executed, destroyed>>

-----------------------------------------------------------------------------

(***************************************************************************)
(* thread_pool_init creates the workers one by one; a failure of           *)
(* pthread_create goes unnoticed.  Workers run while others are created,   *)
(* producers have no pool before the loop is over.                         *)
(***************************************************************************)
CreateWorker(w) ==
  /\ threads[w] = "new"
  /\ \/ threads' = [threads EXCEPT ![w] = "running"]
     \/ /\ Cardinality({v \in Workers : threads[v] = "failed"}) < ThreadFailures
        /\ threads' = [threads EXCEPT ![w] = "failed"]
  /\ UNCHANGED <<ring_vars, waiting, added, current, executed, destroyed>>

Initialised == \A w \in Workers : threads[w] # "new"

\* p holds the mutex in thread_pool_add_task, its next task in hand.
Adding(p) ==
  ~destroyed /\ Initialised /\ p \notin waiting /\ added[p] < MaxTasks

AddTask(p) ==
  /\ Adding(p) /\ task_count # QueueSize
  /\ task_queue' = [task_queue EXCEPT ![tail] = <<p, added[p] + 1>>]
  /\ tail' = (tail + 1) % QueueSize
  /\ task_count' = task_count + 1
  /\ added' = [added EXCEPT ![p] = @ + 1]
  /\ Signal
  /\ UNCHANGED <<head, threads, current, executed, destroyed>>

WaitForRoom(p) ==
  /\ Adding(p) /\ task_count = QueueSize
  /\ waiting' = waiting \cup {p}
  /\ UNCHANGED <<ring_vars, threads, added, current, executed, destroyed>>

\* w holds the mutex in thread_pool_worker.
Taking(w) ==
  ~destroyed /\ threads[w] = "running" /\ w \notin waiting /\ current[w] = NoTask

TakeTask(w) ==
  /\ Taking(w) /\ task_count # 0
  /\ current' = [current EXCEPT ![w] = task_queue[head]]
  /\ head' = (head + 1) % QueueSize
  /\ task_count' = task_count - 1
  /\ Signal
  /\ UNCHANGED <<task_queue, tail, threads, added, executed, destroyed>>

WaitForTask(w) ==
  /\ Taking(w) /\ task_count = 0
  /\ waiting' = waiting \cup {w}
  /\ UNCHANGED <<ring_vars, threads, added, current, executed, destroyed>>

\* task.function(task.arg), outside the mutex.
Execute(w) ==
  /\ ~destroyed /\ current[w] # NoTask
  /\ executed' = executed \cup {current[w]}
  /\ current' = [current EXCEPT ![w] = NoTask]
  /\ UNCHANGED <<ring_vars, threads, waiting, added, destroyed>>

\* pthread_cond_wait may return without a signal.
SpuriousWakeup(t) ==
  /\ ~destroyed /\ t \in waiting
  /\ waiting' = waiting \ {t}
  /\ UNCHANGED <<ring_vars, threads, added, current, executed, destroyed>>

(***************************************************************************)
(* main calls thread_pool_destroy when it has added its tasks and slept    *)
(* for 5 seconds.  It joins nobody; the sleep orders nothing.  The pool's  *)
(* memory is freed, so no later step of a worker is modelled.              *)
(***************************************************************************)
Destroy ==
  /\ ~destroyed /\ Initialised /\ \A p \in Producers : added[p] = MaxTasks
  /\ destroyed' = TRUE
  /\ UNCHANGED <<ring_vars, threads, waiting, added, current, executed>>

ProducerNext(p) == AddTask(p) \/ WaitForRoom(p)
WorkerNext(w) == TakeTask(w) \/ WaitForTask(w) \/ Execute(w)

Next == \/ \E w \in Workers : CreateWorker(w)
        \/ \E p \in Producers : ProducerNext(p)
        \/ \E w \in Workers : WorkerNext(w)
        \/ \E t \in Producers \cup Workers : SpuriousWakeup(t)
        \/ Destroy

Spec == Init /\ [][Next]_vars

(***************************************************************************)
(* Threads that can run do run: the initialisation, each producer and each *)
(* worker goes on.  Nothing makes a wait return without a signal, and main *)
(* need not come back from its sleep.                                      *)
(***************************************************************************)
Fairness ==
  /\ \A w \in Workers : WF_vars(CreateWorker(w)) /\ WF_vars(WorkerNext(w))
  /\ \A p \in Producers : WF_vars(ProducerNext(p))

FairSpec == Spec /\ Fairness

-----------------------------------------------------------------------------
(* Properties. *)

\* The type invariant; head and tail stay inside the ring.
TypeOK ==
  /\ task_queue \in [Slots -> Tasks \cup {NoTask}]
  /\ head \in Slots /\ tail \in Slots /\ task_count \in 0..QueueSize
  /\ threads \in [Workers -> {"new", "running", "failed"}]
  /\ waiting \subseteq Producers \cup Workers
  /\ added \in [Producers -> 0..MaxTasks]
  /\ current \in [Workers -> Tasks \cup {NoTask}]
  /\ executed \subseteq Tasks
  /\ destroyed \in BOOLEAN

\* The slot of the i-th oldest task in the queue.
Slot(i) == IF head + i - 1 < QueueSize THEN head + i - 1
                                       ELSE head + i - 1 - QueueSize

Queue == [i \in 1..task_count |-> task_queue[Slot(i)]]

Abstract == INSTANCE TaskQueue WITH queue <- Queue

(***************************************************************************)
(* The ring is a bounded queue: no task is overwritten before a worker has *)
(* copied it, overtaken, taken twice or taken from an empty slot, whoever  *)
(* waits, wakes up or is woken for nothing (thread_pool:70-101).           *)
(***************************************************************************)
ImplementsQueue == Abstract!TQSpec

(***************************************************************************)
(* In particular each task that was added is in one slot of the ring, in   *)
(* the hands of one worker, or executed (thread_pool:76-79, 92-98) ...     *)
(***************************************************************************)
OnceInPool == Abstract!ExactlyOnce

\* ... and the tasks of one producer are taken in order (thread_pool:78, 93).
OrderInPool == Abstract!InOrder

\* Threads that have not ended: producers with tasks left, workers that exist.
Live == {p \in Producers : added[p] < MaxTasks}
          \cup {w \in Workers : threads[w] = "running"}

(***************************************************************************)
(* A producer waits for space to become available (thread_pool:73), and    *)
(* while it waits some thread is awake that will signal: never do all the  *)
(* threads sleep while one of them is a producer, although both kinds wait *)
(* on one condition variable.  This takes a worker, and slots for all      *)
(* producers and for all workers (RoomForAll, and the theorem): with fewer *)
(* a signal may wake the wrong kind, and it does not hold.                 *)
(***************************************************************************)
NoStall ==
  (Live \subseteq waiting /\ Live \cap Workers # {}) => Producers \cap waiting = {}

(***************************************************************************)
(* Why it holds: with as many slots as producers and as many as workers,   *)
(* the two kinds never wait at the same time.  Each task since a worker    *)
(* went to sleep on the empty queue has woken a worker, so the last one is *)
(* awake before the queue is full and a producer sleeps; and conversely.   *)
(***************************************************************************)
SeparateSleepers ==
  LET ww == Cardinality(waiting \cap Workers)
      wp == Cardinality(waiting \cap Producers) IN
  /\ ww = 0 \/ wp = 0
  /\ ww > 0 => ww + task_count <= Cardinality(Workers)
  /\ wp > 0 => wp + (QueueSize - task_count) <= Cardinality(Producers)

\* The condition under which it does.
RoomForAll ==
  /\ IsFiniteSet(Producers) /\ Cardinality(Producers) <= QueueSize
  /\ IsFiniteSet(Workers) /\ Cardinality(Workers) <= QueueSize

(***************************************************************************)
(* With room for all (RoomForAll) every task a producer wants to add is    *)
(* executed, unless the pool is destroyed first or has no worker: no       *)
(* wakeup is lost for good although producers and workers sleep and signal *)
(* on one condition variable (thread_pool:74, 80, 90, 95).  Without it a   *)
(* signal may reach the wrong kind: a pool of one slot, one producer and   *)
(* two workers can stop for good with tasks left, against thread_pool:5.   *)
(***************************************************************************)
EveryTaskExecuted ==
  RoomForAll =>
    \A t \in Tasks :
      <>(t \in executed \/ destroyed \/ \A w \in Workers : threads[w] = "failed")

=============================================================================
