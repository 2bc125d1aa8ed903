-------------------------- MODULE ThreadPoolProofs --------------------------
(***************************************************************************)
(* Proofs about ThreadPool for every number of producers, workers, slots   *)
(* and tasks.                                                              *)
(***************************************************************************)
EXTENDS ThreadPool, FiniteSetTheorems, TLAPS

\* The successor of a slot, as the code computes it with %.
LEMMA NextSlot ==
  ASSUME NEW s \in Slots
  PROVE  /\ (s + 1) % QueueSize \in Slots
         /\ (s + 1) % QueueSize = IF s + 1 < QueueSize THEN s + 1 ELSE 0
<1>1. CASE s + 1 < QueueSize
  BY <1>1, ThreadPoolAssumption DEF ThreadPoolAssumption, Slots
<1>2. CASE s + 1 = QueueSize
  BY <1>2, ThreadPoolAssumption DEF ThreadPoolAssumption, Slots
<1> QED  BY <1>1, <1>2, ThreadPoolAssumption DEF ThreadPoolAssumption, Slots

-----------------------------------------------------------------------------
(***************************************************************************)
(* Type correctness.  It is inductive as it stands: the guards on          *)
(* task_count keep it in its range and % keeps head and tail in the ring.  *)
(***************************************************************************)

LEMMA TypeInit == Init => TypeOK
<1> SUFFICES ASSUME Init PROVE TypeOK
  OBVIOUS
<1> USE ThreadPoolAssumption DEF ThreadPoolAssumption, Init
<1>1. 0 \in Slots /\ 0 \in 0..QueueSize /\ 0 \in 0..MaxTasks
  BY DEF Slots
<1>2. /\ task_queue \in [Slots -> Tasks \cup {NoTask}]
      /\ threads \in [Workers -> {"new", "running", "failed"}]
      /\ added \in [Producers -> 0..MaxTasks]
      /\ current \in [Workers -> Tasks \cup {NoTask}]
  BY <1>1
<1> QED  BY <1>1, <1>2 DEF TypeOK

LEMMA TypeNext == TypeOK /\ [Next]_vars => TypeOK'
<1> SUFFICES ASSUME TypeOK, [Next]_vars PROVE TypeOK'
  OBVIOUS
<1> USE ThreadPoolAssumption DEF ThreadPoolAssumption
<1>1. ASSUME NEW w \in Workers, CreateWorker(w) PROVE TypeOK'
  BY <1>1 DEF TypeOK, CreateWorker, ring_vars
<1>2. ASSUME NEW p \in Producers, AddTask(p) PROVE TypeOK'
  <2>1. <<p, added[p] + 1>> \in Tasks
    BY <1>2 DEF AddTask, Adding, TypeOK, Tasks
  <2>2. tail' \in Slots
    BY <1>2, NextSlot DEF AddTask, TypeOK
  <2>3. task_count' \in 0..QueueSize
    BY <1>2 DEF AddTask, TypeOK
  <2>4. waiting' \subseteq Producers \cup Workers
    BY <1>2 DEF AddTask, Signal, TypeOK
  <2>5. added' \in [Producers -> 0..MaxTasks]
    BY <1>2 DEF AddTask, Adding, TypeOK
  <2> QED  BY <1>2, <2>1, <2>2, <2>3, <2>4, <2>5 DEF AddTask, TypeOK
<1>3. ASSUME NEW p \in Producers, WaitForRoom(p) PROVE TypeOK'
  BY <1>3 DEF TypeOK, WaitForRoom, ring_vars
<1>4. ASSUME NEW w \in Workers, TakeTask(w) PROVE TypeOK'
  <2>1. head' \in Slots
    BY <1>4, NextSlot DEF TakeTask, TypeOK
  <2>2. task_count' \in 0..QueueSize
    BY <1>4 DEF TakeTask, TypeOK
  <2>3. waiting' \subseteq Producers \cup Workers
    BY <1>4 DEF TakeTask, Signal, TypeOK
  <2>4. current' \in [Workers -> Tasks \cup {NoTask}]
    BY <1>4 DEF TakeTask, TypeOK
  <2> QED  BY <1>4, <2>1, <2>2, <2>3, <2>4 DEF TakeTask, TypeOK
<1>5. ASSUME NEW w \in Workers, WaitForTask(w) PROVE TypeOK'
  BY <1>5 DEF TypeOK, WaitForTask, ring_vars
<1>6. ASSUME NEW w \in Workers, Execute(w) PROVE TypeOK'
  BY <1>6 DEF TypeOK, Execute, ring_vars
<1>7. ASSUME NEW t \in Producers \cup Workers, SpuriousWakeup(t) PROVE TypeOK'
  BY <1>7 DEF TypeOK, SpuriousWakeup, ring_vars
<1>8. CASE Destroy
  BY <1>8 DEF TypeOK, Destroy, ring_vars
<1>9. CASE UNCHANGED vars
  BY <1>9 DEF TypeOK, vars, ring_vars
<1> QED  BY <1>1, <1>2, <1>3, <1>4, <1>5, <1>6, <1>7, <1>8, <1>9
         DEF Next, ProducerNext, WorkerNext

\* Every variable of the pool keeps its type, whatever the threads do.
THEOREM TypeCorrect == Spec => []TypeOK
BY TypeInit, TypeNext, PTL DEF Spec

-----------------------------------------------------------------------------
(***************************************************************************)
(* The ring is a bounded queue.  What has to be known is where tail is:    *)
(* task_count slots after head, so the slot a producer writes is behind    *)
(* the last task and no other task is in it.                               *)
(***************************************************************************)

RingOK ==
  tail = IF head + task_count < QueueSize THEN head + task_count
                                          ELSE head + task_count - QueueSize

RingInv == TypeOK /\ RingOK

LEMMA RingInit == Init => RingInv
<1> SUFFICES ASSUME Init PROVE RingOK
  BY TypeInit DEF RingInv
<1> QED  BY ThreadPoolAssumption DEF ThreadPoolAssumption, Init, RingOK

LEMMA RingNext == RingInv /\ [Next]_vars => RingInv'
<1> SUFFICES ASSUME RingInv, [Next]_vars PROVE RingOK'
  BY TypeNext DEF RingInv
<1> USE ThreadPoolAssumption DEF ThreadPoolAssumption
<1>1. ASSUME NEW p \in Producers, AddTask(p) PROVE RingOK'
  <2>1. tail' = IF tail + 1 < QueueSize THEN tail + 1 ELSE 0
    BY <1>1, NextSlot DEF AddTask, RingInv, TypeOK
  <2>2. /\ head \in 0..(QueueSize - 1) /\ head' = head
        /\ task_count \in 0..(QueueSize - 1) /\ task_count' = task_count + 1
    BY <1>1 DEF AddTask, RingInv, TypeOK, Slots
  <2> QED  BY <2>1, <2>2 DEF RingInv, RingOK
<1>2. ASSUME NEW w \in Workers, TakeTask(w) PROVE RingOK'
  <2>1. head' = IF head + 1 < QueueSize THEN head + 1 ELSE 0
    BY <1>2, NextSlot DEF TakeTask, RingInv, TypeOK
  <2>2. /\ head \in 0..(QueueSize - 1) /\ tail' = tail
        /\ task_count \in 1..QueueSize /\ task_count' = task_count - 1
    BY <1>2 DEF TakeTask, RingInv, TypeOK, Slots
  <2> QED  BY <2>1, <2>2 DEF RingInv, RingOK
<1>3. ASSUME UNCHANGED ring_vars PROVE RingOK'
  BY <1>3 DEF RingInv, RingOK, ring_vars
<1> QED  BY <1>1, <1>2, <1>3
         DEF Next, ProducerNext, WorkerNext, CreateWorker, WaitForRoom,
             WaitForTask, Execute, SpuriousWakeup, Destroy, vars

QueueTyped ==
  /\ Queue \in Seq(Tasks \cup {NoTask})
  /\ Len(Queue) = task_count

LEMMA QueueSeq == RingInv => QueueTyped
<1> SUFFICES ASSUME RingInv PROVE QueueTyped
  OBVIOUS
<1> USE ThreadPoolAssumption DEF ThreadPoolAssumption, RingInv, TypeOK
<1>1. \A i \in 1..task_count : Slot(i) \in Slots
  BY DEF Slot, Slots
<1>2. Queue \in [1..task_count -> Tasks \cup {NoTask}]
  BY <1>1 DEF Queue
<1> QED  BY <1>1, <1>2 DEF Queue, QueueTyped

LEMMA QueueSeqNext == RingInv' => QueueTyped'
BY QueueSeq, PTL

LEMMA QueueInit == Init => Abstract!TQInit
<1> SUFFICES ASSUME Init PROVE Queue = <<>>
  BY DEF Init, Abstract!TQInit
<1> QED  BY DEF Init, Queue

\* A task written at tail is behind the others.
LEMMA AddAppends ==
  ASSUME RingInv, RingInv', NEW p \in Producers, AddTask(p)
  PROVE  Abstract!Put(p)
<1> USE ThreadPoolAssumption DEF ThreadPoolAssumption
<1> DEFINE t == <<p, added[p] + 1>>
<1>1. /\ head \in 0..(QueueSize - 1) /\ head' = head
      /\ task_count \in 0..(QueueSize - 1) /\ task_count' = task_count + 1
      /\ task_queue' = [task_queue EXCEPT ![tail] = t]
      /\ tail \in Slots /\ DOMAIN task_queue = Slots
  BY DEF AddTask, RingInv, TypeOK, Slots
<1>2. \A i \in 1..task_count : Slot(i)' = Slot(i) /\ Slot(i) \in Slots /\ Slot(i) # tail
  BY <1>1 DEF Slot, Slots, RingInv, RingOK
<1>3. Slot(task_count)' = tail
  BY <1>1 DEF Slot, RingInv, RingOK
<1>4. \A i \in 1..task_count : Queue'[i] = Queue[i]
  BY <1>1, <1>2 DEF Queue
<1>5. Queue'[task_count'] = t
  BY <1>1, <1>3 DEF Queue
<1>6. /\ Queue \in Seq(Tasks \cup {NoTask}) /\ Len(Queue) = task_count
      /\ Queue' \in Seq(Tasks \cup {NoTask}) /\ Len(Queue') = task_count + 1
  BY QueueSeq, QueueSeqNext, <1>1 DEF QueueTyped
<1>7. t \in Tasks
  BY DEF AddTask, Adding, RingInv, TypeOK, Tasks
<1>8. Queue' = Append(Queue, t)
  BY <1>1, <1>4, <1>5, <1>6, <1>7
<1> QED  BY <1>1, <1>6, <1>8 DEF AddTask, Adding, Abstract!Put

\* What is read at head is the oldest task, and the rest moves up.
LEMMA TakeRemoves ==
  ASSUME RingInv, RingInv', NEW w \in Workers, TakeTask(w)
  PROVE  Abstract!Take(w)
<1> USE ThreadPoolAssumption DEF ThreadPoolAssumption
<1>1. /\ head \in 0..(QueueSize - 1)
      /\ task_count \in 1..QueueSize /\ task_count' = task_count - 1
      /\ task_queue' = task_queue
  BY DEF TakeTask, RingInv, TypeOK, Slots
<1>2. head' = IF head + 1 < QueueSize THEN head + 1 ELSE 0
  BY NextSlot DEF TakeTask, RingInv, TypeOK
<1>3. Slot(1) = head /\ \A i \in 1..(task_count - 1) : Slot(i)' = Slot(i + 1)
  BY <1>1, <1>2 DEF Slot
<1>4. Queue[1] = task_queue[head]
  BY <1>1, <1>3 DEF Queue
<1>5. \A i \in 1..(task_count - 1) : Queue'[i] = Queue[i + 1]
  BY <1>1, <1>3 DEF Queue
<1>6. /\ Queue \in Seq(Tasks \cup {NoTask}) /\ Len(Queue) = task_count
      /\ Queue' \in Seq(Tasks \cup {NoTask}) /\ Len(Queue') = task_count - 1
  BY QueueSeq, QueueSeqNext, <1>1 DEF QueueTyped
<1>7. Queue # <<>> /\ Head(Queue) = task_queue[head] /\ Queue' = Tail(Queue)
  BY <1>1, <1>4, <1>5, <1>6
<1> QED  BY <1>7 DEF TakeTask, Taking, Abstract!Take

LEMMA QueueNext ==
  RingInv /\ RingInv' /\ [Next]_vars => [Abstract!TQNext]_(Abstract!tq_vars)
<1> SUFFICES ASSUME RingInv, RingInv', [Next]_vars
             PROVE  [Abstract!TQNext]_(Abstract!tq_vars)
  OBVIOUS
<1>1. ASSUME NEW p \in Producers, AddTask(p) PROVE Abstract!TQNext
  BY <1>1, AddAppends DEF Abstract!TQNext
<1>2. ASSUME NEW w \in Workers, TakeTask(w) PROVE Abstract!TQNext
  BY <1>2, TakeRemoves DEF Abstract!TQNext
<1>3. ASSUME UNCHANGED ring_vars PROVE Queue' = Queue
  BY <1>3 DEF ring_vars, Queue, Slot
<1>4. ASSUME NEW w \in Workers, Execute(w) PROVE Abstract!TQNext
  <2>1. Queue' = Queue
    BY <1>3, <1>4 DEF Execute
  <2> QED  BY <1>4, <2>1 DEF Execute, Abstract!Finish, Abstract!TQNext
<1>5. ASSUME UNCHANGED <<ring_vars, added, current, executed>>
      PROVE  UNCHANGED Abstract!tq_vars
  BY <1>3, <1>5 DEF Abstract!tq_vars
<1> QED  BY <1>1, <1>2, <1>4, <1>5
         DEF Next, ProducerNext, WorkerNext, CreateWorker, WaitForRoom,
             WaitForTask, SpuriousWakeup, Destroy, vars

(***************************************************************************)
(* The pool implements the bounded queue of TaskQueue: each of its steps   *)
(* puts one task in, takes the oldest, finishes one or changes nothing a   *)
(* user of the pool can see.                                               *)
(***************************************************************************)
THEOREM Refinement == Spec => ImplementsQueue
<1>1. Init => Abstract!TQInit
  BY QueueInit
<1>2. RingInv /\ RingInv' /\ [Next]_vars => [Abstract!TQNext]_(Abstract!tq_vars)
  BY QueueNext
<1>3. Spec => []RingInv
  BY RingInit, RingNext, PTL DEF Spec
<1> QED  BY <1>1, <1>2, <1>3, PTL DEF Spec, ImplementsQueue, Abstract!TQSpec

\* What is proved of the bounded queue holds of the ring.
AbstractProofs == INSTANCE TaskQueueProofs WITH queue <- Queue

LEMMA SameSpec == ImplementsQueue => AbstractProofs!TQSpec
<1>1. Abstract!TQInit => AbstractProofs!TQInit
  BY DEF Abstract!TQInit, AbstractProofs!TQInit
<1>2. [Abstract!TQNext]_(Abstract!tq_vars)
        => [AbstractProofs!TQNext]_(AbstractProofs!tq_vars)
  BY DEF Abstract!TQNext, Abstract!Put, Abstract!Take, Abstract!Finish, Abstract!tq_vars,
         AbstractProofs!TQNext, AbstractProofs!Put, AbstractProofs!Take,
         AbstractProofs!Finish, AbstractProofs!tq_vars
<1> QED  BY <1>1, <1>2, PTL DEF ImplementsQueue, Abstract!TQSpec, AbstractProofs!TQSpec

(***************************************************************************)
(* Each task added to the pool is in one slot of the ring, in the hands of *)
(* one worker or executed, and never in two of these places.               *)
(***************************************************************************)
THEOREM PoolOnce == Spec => []OnceInPool
<1>1. AbstractProofs!TQSpec => []AbstractProofs!ExactlyOnce
  BY AbstractProofs!EachTaskOnce, ThreadPoolAssumption
     DEF ThreadPoolAssumption, AbstractProofs!TaskQueueAssumption
<1>2. AbstractProofs!ExactlyOnce => OnceInPool
  BY DEF OnceInPool, Abstract!ExactlyOnce, AbstractProofs!ExactlyOnce,
         Abstract!InHand, AbstractProofs!InHand, Abstract!InQueue,
         AbstractProofs!InQueue, Abstract!Tasks, AbstractProofs!Tasks
<1> QED  BY <1>1, <1>2, Refinement, SameSpec, PTL

(***************************************************************************)
(* The workers take the tasks of one producer in the order it added them.  *)
(***************************************************************************)
THEOREM PoolInOrder == Spec => []OrderInPool
<1>1. AbstractProofs!TQSpec => []AbstractProofs!InOrder
  BY AbstractProofs!TasksInOrder, ThreadPoolAssumption
     DEF ThreadPoolAssumption, AbstractProofs!TaskQueueAssumption
<1>2. AbstractProofs!InOrder => OrderInPool
  BY DEF OrderInPool, Abstract!InOrder, AbstractProofs!InOrder,
         Abstract!InHand, AbstractProofs!InHand, Abstract!Tasks, AbstractProofs!Tasks
<1> QED  BY <1>1, <1>2, Refinement, SameSpec, PTL

-----------------------------------------------------------------------------
(***************************************************************************)
(* No lost wakeup.  SeparateSleepers is inductive together with the types: *)
(* a signal, if anybody sleeps, wakes one of the only kind that sleeps, so *)
(* the number of sleepers and the number of tasks move together.           *)
(***************************************************************************)

SleepInv == TypeOK /\ SeparateSleepers

\* The numbers of sleeping workers and producers, and what a wakeup changes.
LEMMA Sleepers ==
  ASSUME RoomForAll, NEW S, S \subseteq Producers \cup Workers
  PROVE  /\ Cardinality(S \cap Workers) \in 0..Cardinality(Workers)
         /\ Cardinality(S \cap Producers) \in 0..Cardinality(Producers)
         /\ IsFiniteSet(S \cap Workers) /\ IsFiniteSet(S \cap Producers)
         /\ Cardinality(Workers) \in Nat /\ Cardinality(Producers) \in Nat
<1>1. /\ IsFiniteSet(S \cap Workers) /\ IsFiniteSet(S \cap Producers)
      /\ Cardinality(S \cap Workers) <= Cardinality(Workers)
      /\ Cardinality(S \cap Producers) <= Cardinality(Producers)
  BY FS_Subset DEF RoomForAll
<1> QED  BY <1>1, FS_CardinalityType DEF RoomForAll

LEMMA WorkerWakes ==
  ASSUME RoomForAll, NEW S, S \subseteq Producers \cup Workers, NEW w \in Workers, w \in S
  PROVE  /\ Cardinality((S \ {w}) \cap Workers) = Cardinality(S \cap Workers) - 1
         /\ Cardinality((S \ {w}) \cap Producers) = Cardinality(S \cap Producers)
<1>1. /\ (S \ {w}) \cap Workers = (S \cap Workers) \ {w}
      /\ (S \ {w}) \cap Producers = S \cap Producers
      /\ w \in S \cap Workers
  BY ThreadPoolAssumption DEF ThreadPoolAssumption
<1> QED  BY <1>1, Sleepers, FS_RemoveElement

LEMMA ProducerWakes ==
  ASSUME RoomForAll, NEW S, S \subseteq Producers \cup Workers, NEW p \in Producers, p \in S
  PROVE  /\ Cardinality((S \ {p}) \cap Producers) = Cardinality(S \cap Producers) - 1
         /\ Cardinality((S \ {p}) \cap Workers) = Cardinality(S \cap Workers)
<1>1. /\ (S \ {p}) \cap Producers = (S \cap Producers) \ {p}
      /\ (S \ {p}) \cap Workers = S \cap Workers
      /\ p \in S \cap Producers
  BY ThreadPoolAssumption DEF ThreadPoolAssumption
<1>2. IsFiniteSet(S \cap Producers)
  BY Sleepers
<1>3. Cardinality((S \cap Producers) \ {p}) = Cardinality(S \cap Producers) - 1
  BY <1>1, <1>2, FS_RemoveElement
<1> QED  BY <1>1, <1>3

LEMMA SleepInit == RoomForAll /\ Init => SleepInv
<1> SUFFICES ASSUME RoomForAll, Init PROVE SeparateSleepers
  BY TypeInit DEF SleepInv
<1>1. waiting \cap Workers = {} /\ waiting \cap Producers = {}
  BY DEF Init
<1> QED  BY <1>1, FS_EmptySet DEF SeparateSleepers

LEMMA SleepNext == RoomForAll /\ SleepInv /\ [Next]_vars => SleepInv'
<1> SUFFICES ASSUME RoomForAll, SleepInv, [Next]_vars PROVE SeparateSleepers'
  BY TypeNext DEF SleepInv
<1> DEFINE ww == Cardinality(waiting \cap Workers)
           wp == Cardinality(waiting \cap Producers)
           NW == Cardinality(Workers)
           NP == Cardinality(Producers)
<1>1. /\ waiting \subseteq Producers \cup Workers
      /\ task_count \in 0..QueueSize /\ QueueSize \in Nat \ {0}
  BY ThreadPoolAssumption DEF ThreadPoolAssumption, SleepInv, TypeOK
<1>2. /\ ww \in 0..NW /\ wp \in 0..NP /\ NW \in 0..QueueSize /\ NP \in 0..QueueSize
      /\ IsFiniteSet(waiting \cap Workers) /\ IsFiniteSet(waiting \cap Producers)
  BY <1>1, Sleepers DEF RoomForAll
<1>3. /\ ww = 0 \/ wp = 0
      /\ ww > 0 => ww + task_count <= NW
      /\ wp > 0 => wp + (QueueSize - task_count) <= NP
  BY DEF SleepInv, SeparateSleepers
<1>4. SeparateSleepers' <=>
        /\ ww' = 0 \/ wp' = 0
        /\ ww' > 0 => ww' + task_count' <= NW
        /\ wp' > 0 => wp' + (QueueSize - task_count') <= NP
  BY DEF SeparateSleepers
\* A step of Signal wakes a worker, a producer, or nobody because all are awake.
<1>5. ASSUME Signal
      PROVE  /\ ww' \in Nat /\ wp' \in Nat
             /\ \/ ww = 0 /\ wp = 0 /\ ww' = 0 /\ wp' = 0
                \/ ww' = ww - 1 /\ wp' = wp
                \/ wp' = wp - 1 /\ ww' = ww
  <2>1. ASSUME waiting = {}, waiting' = {}
        PROVE  ww = 0 /\ wp = 0 /\ ww' = 0 /\ wp' = 0
    <3>1. /\ waiting \cap Workers = {} /\ waiting \cap Producers = {}
          /\ waiting' \cap Workers = {} /\ waiting' \cap Producers = {}
      BY <2>1
    <3> QED  BY <3>1, FS_EmptySet
  <2>2. ASSUME NEW t \in waiting, waiting' = waiting \ {t}, t \in Workers
        PROVE  ww' = ww - 1 /\ wp' = wp
    BY <1>1, <2>2, WorkerWakes
  <2>3. ASSUME NEW t \in waiting, waiting' = waiting \ {t}, t \in Producers
        PROVE  wp' = wp - 1 /\ ww' = ww
    BY <1>1, <2>3, ProducerWakes
  <2>4. waiting' \subseteq Producers \cup Workers
    BY <1>1, <1>5 DEF Signal
  <2>5. ww' \in 0..NW /\ wp' \in 0..NP
    BY <2>4, Sleepers
  <2>6. ww' \in Nat /\ wp' \in Nat
    BY <1>2, <2>5
  <2>7. ASSUME NEW t \in waiting, waiting' = waiting \ {t}
        PROVE  (ww' = ww - 1 /\ wp' = wp) \/ (wp' = wp - 1 /\ ww' = ww)
    BY <1>1, <2>2, <2>3, <2>7
  <2> QED  BY <1>5, <2>1, <2>6, <2>7 DEF Signal
<1>6. ASSUME NEW p \in Producers, AddTask(p) PROVE SeparateSleepers'
  <2>1. task_count' = task_count + 1 /\ task_count # QueueSize /\ Signal
    BY <1>6 DEF AddTask
  <2> QED  BY <1>1, <1>2, <1>3, <1>4, <1>5, <2>1
<1>7. ASSUME NEW w \in Workers, TakeTask(w) PROVE SeparateSleepers'
  <2>1. task_count' = task_count - 1 /\ task_count # 0 /\ Signal
    BY <1>7 DEF TakeTask
  <2> QED  BY <1>1, <1>2, <1>3, <1>4, <1>5, <2>1
<1>8. ASSUME NEW p \in Producers, WaitForRoom(p) PROVE SeparateSleepers'
  <2>1. /\ task_count = QueueSize /\ task_count' = task_count
        /\ waiting' = waiting \cup {p} /\ p \notin waiting
    BY <1>8 DEF WaitForRoom, Adding, ring_vars
  <2>2. ww = 0
    BY <1>1, <1>2, <1>3, <2>1
  <2>3. waiting' \cap Workers = waiting \cap Workers
    BY <2>1, ThreadPoolAssumption DEF ThreadPoolAssumption
  <2>4. waiting' \subseteq Producers \cup Workers
    BY <1>1, <2>1
  <2>5. ww' = ww /\ wp' \in 0..NP
    BY <2>3, <2>4, Sleepers
  <2> QED  BY <1>1, <1>2, <1>4, <2>1, <2>2, <2>5
<1>9. ASSUME NEW w \in Workers, WaitForTask(w) PROVE SeparateSleepers'
  <2>1. /\ task_count = 0 /\ task_count' = task_count
        /\ waiting' = waiting \cup {w} /\ w \notin waiting
    BY <1>9 DEF WaitForTask, Taking, ring_vars
  <2>2. wp = 0
    BY <1>1, <1>2, <1>3, <2>1
  <2>3. waiting' \cap Producers = waiting \cap Producers
    BY <2>1, ThreadPoolAssumption DEF ThreadPoolAssumption
  <2>4. waiting' \subseteq Producers \cup Workers
    BY <1>1, <2>1
  <2>5. wp' = wp /\ ww' \in 0..NW
    BY <2>3, <2>4, Sleepers
  <2> QED  BY <1>1, <1>2, <1>4, <2>1, <2>2, <2>5
<1>10. ASSUME NEW t \in Producers \cup Workers, SpuriousWakeup(t)
       PROVE  SeparateSleepers'
  <2>1. Signal /\ task_count' = task_count
    BY <1>10 DEF SpuriousWakeup, Signal, ring_vars
  <2> QED  BY <1>1, <1>2, <1>3, <1>4, <1>5, <2>1
<1>11. ASSUME UNCHANGED <<waiting, task_count>> PROVE SeparateSleepers'
  BY <1>11 DEF SleepInv, SeparateSleepers
<1> QED  BY <1>6, <1>7, <1>8, <1>9, <1>10, <1>11
         DEF Next, ProducerNext, WorkerNext, CreateWorker, Execute, Destroy,
             vars, ring_vars

(***************************************************************************)
(* With at least as many slots as producers and as workers, never do a     *)
(* producer and a worker wait on task_available together.  The program's   *)
(* own pool (one producer, 5 workers, 10 slots) is such a pool.            *)
(***************************************************************************)
THEOREM Separation == ASSUME RoomForAll PROVE Spec => []SeparateSleepers
<1>1. Init => SleepInv
  BY SleepInit
<1>2. SleepInv /\ [Next]_vars => SleepInv'
  BY SleepNext
<1>3. SleepInv => SeparateSleepers
  BY DEF SleepInv
<1> QED  BY <1>1, <1>2, <1>3, PTL DEF Spec

\* In such a pool no producer waits for ever: a thread is awake to wake it.
THEOREM NoLostWakeup == ASSUME RoomForAll PROVE Spec => []NoStall
<1>1. Init => SleepInv
  BY SleepInit
<1>2. SleepInv /\ [Next]_vars => SleepInv'
  BY SleepNext
<1>3. SleepInv => NoStall
  <2> SUFFICES ASSUME SleepInv, Live \subseteq waiting, Live \cap Workers # {}
               PROVE  Producers \cap waiting = {}
    BY DEF NoStall
  <2>1. waiting \cap Workers # {}
    OBVIOUS
  <2>2. waiting \subseteq Producers \cup Workers
    BY DEF SleepInv, TypeOK
  <2>3. Cardinality(waiting \cap Workers) # 0
    BY <2>1, <2>2, Sleepers, FS_EmptySet
  <2>4. Cardinality(waiting \cap Producers) = 0
    BY <2>3 DEF SleepInv, SeparateSleepers
  <2>5. waiting \cap Producers = {}
    BY <2>2, <2>4, Sleepers, FS_EmptySet
  <2> QED  BY <2>5
<1> QED  BY <1>1, <1>2, <1>3, PTL DEF Spec

=============================================================================
