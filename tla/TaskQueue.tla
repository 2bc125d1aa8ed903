----------------------------- MODULE TaskQueue -----------------------------
(***************************************************************************)
(* What the pool of the file thread_pool promises, without its ring buffer,*)
(* mutex and condition variable: a bounded queue.  Producers put tasks in  *)
(* at the end while there is room, idle workers take the first one and     *)
(* execute it, and no task is lost, overtaken or executed twice.           *)
(***************************************************************************)
EXTENDS Naturals, Sequences

CONSTANTS Producers,  \* threads that add tasks
          Workers,    \* threads of the pool
          QueueSize,  \* tasks the queue holds
          MaxTasks,   \* bound: tasks each producer adds
          NoTask      \* what an idle worker works on

\* What the proofs assume of the constants.
TaskQueueAssumption ==
  /\ QueueSize \in Nat \ {0}
  /\ MaxTasks \in Nat
  /\ NoTask \notin Producers \X (1..MaxTasks)

VARIABLES queue,     \* tasks added and not taken, the oldest first
          added,     \* tasks each producer has added
          current,   \* the task each worker executes
          executed   \* tasks whose execution is over

tq_vars == <<queue, added, current, executed>>

Tasks == Producers \X (1..MaxTasks)

TQInit ==
  /\ queue = <<>>
  /\ added = [p \in Producers |-> 0]
  /\ current = [w \in Workers |-> NoTask]
  /\ executed = {}

Put(p) ==
  /\ added[p] < MaxTasks /\ Len(queue) < QueueSize
  /\ queue' = Append(queue, <<p, added[p] + 1>>)
  /\ added' = [added EXCEPT ![p] = @ + 1]
  /\ UNCHANGED <<current, executed>>

Take(w) ==
  /\ current[w] = NoTask /\ queue # <<>>
  /\ current' = [current EXCEPT ![w] = Head(queue)]
  /\ queue' = Tail(queue)
  /\ UNCHANGED <<added, executed>>

Finish(w) ==
  /\ current[w] # NoTask
  /\ executed' = executed \cup {current[w]}
  /\ current' = [current EXCEPT ![w] = NoTask]
  /\ UNCHANGED <<queue, added>>

TQNext == \/ \E p \in Producers : Put(p)
          \/ \E w \in Workers : Take(w) \/ Finish(w)

TQSpec == TQInit /\ [][TQNext]_tq_vars

-----------------------------------------------------------------------------
(* Properties. *)

\* The type invariant: the queue never holds more than QueueSize tasks.
TQTypeOK ==
  /\ queue \in Seq(Tasks) /\ Len(queue) <= QueueSize
  /\ added \in [Producers -> 0..MaxTasks]
  /\ current \in [Workers -> Tasks \cup {NoTask}]
  /\ executed \subseteq Tasks

InQueue(t) == \E i \in 1..Len(queue) : queue[i] = t
InHand(t) == \E w \in Workers : current[w] = t

(***************************************************************************)
(* A task is in the pool from the moment it is added, and in one place     *)
(* only: in one slot of the queue, in the hands of one worker, or executed.*)
(* None is lost, none is executed twice (thread_pool:76-79, 92-98).        *)
(***************************************************************************)
ExactlyOnce ==
  /\ \A t \in Tasks : t[2] <= added[t[1]] <=> InQueue(t) \/ InHand(t) \/ t \in executed
  /\ \A t \in Tasks : /\ ~(InQueue(t) /\ InHand(t))
                      /\ ~(InQueue(t) /\ t \in executed)
                      /\ ~(InHand(t) /\ t \in executed)
  /\ \A i, j \in 1..Len(queue) : queue[i] = queue[j] => i = j
  /\ \A v, w \in Workers : current[v] = current[w] /\ current[v] # NoTask => v = w

(***************************************************************************)
(* The tasks of one producer leave the queue in the order they were added  *)
(* in: behind a task in the queue are only later ones of its producer, and *)
(* only earlier ones have been taken (thread_pool:78, 93).                 *)
(***************************************************************************)
InOrder ==
  \A i \in 1..Len(queue) :
    /\ \A j \in 1..Len(queue) :
         i < j /\ queue[i][1] = queue[j][1] => queue[i][2] < queue[j][2]
    /\ \A t \in Tasks :
         (InHand(t) \/ t \in executed) /\ t[1] = queue[i][1] => t[2] < queue[i][2]

=============================================================================
