--------------------------- MODULE TaskQueueProofs --------------------------
(***************************************************************************)
(* Proofs about TaskQueue for every number of producers, workers, slots    *)
(* and tasks.                                                              *)
(***************************************************************************)
EXTENDS TaskQueue, TLAPS

(***************************************************************************)
(* The three invariants are inductive together: that a task is in one place*)
(* only needs its number to be new when it is added, that numbers are new  *)
(* needs every known task to have a place, and the order of the queue is   *)
(* what orders the tasks already taken before those that wait.             *)
(***************************************************************************)
TQInv == TQTypeOK /\ ExactlyOnce /\ InOrder

LEMMA TQInitInv ==
  ASSUME TaskQueueAssumption PROVE TQInit => TQInv
<1> SUFFICES ASSUME TQInit PROVE TQInv
  OBVIOUS
<1> USE DEF TaskQueueAssumption, TQInit
<1>1. Len(queue) = 0 /\ \A t \in Tasks : ~InQueue(t) /\ ~InHand(t) /\ t \in Producers \X (1..MaxTasks)
  BY DEF InQueue, InHand, Tasks
<1>2. TQTypeOK
  BY DEF TQTypeOK
<1>3. ExactlyOnce
  BY <1>1 DEF ExactlyOnce
<1>4. InOrder
  BY <1>1 DEF InOrder
<1> QED  BY <1>2, <1>3, <1>4 DEF TQInv

LEMMA PutInv ==
  ASSUME TaskQueueAssumption, TQInv, NEW p \in Producers, Put(p)
  PROVE  TQInv'
<1> USE DEF TaskQueueAssumption
<1> DEFINE t == <<p, added[p] + 1>>
           n == Len(queue)
<1>1. /\ t \in Tasks /\ n \in Nat /\ n < QueueSize
      /\ queue \in Seq(Tasks) /\ queue' = Append(queue, t)
      /\ added \in [Producers -> 0..MaxTasks]
      /\ added' = [added EXCEPT ![p] = added[p] + 1]
      /\ added' \in [Producers -> 0..MaxTasks]
      /\ current' = current /\ executed' = executed
  BY DEF TQInv, TQTypeOK, Put, Tasks
<1>2. /\ queue' \in Seq(Tasks) /\ Len(queue') = n + 1
      /\ \A i \in 1..n : queue'[i] = queue[i] /\ queue[i] \in Tasks
      /\ queue'[n + 1] = t
  BY <1>1
<1>len. /\ n \in Nat /\ Len(queue') = n + 1 /\ n + 1 <= QueueSize
       /\ \A i \in 1..Len(queue') : i \in 1..n \/ i = n + 1
  <2>1. n \in Nat /\ Len(queue') = n + 1 /\ n < QueueSize
    BY <1>1, <1>2
  <2> QED  BY <2>1
<1>3. \A u \in Tasks : InQueue(u)' <=> InQueue(u) \/ u = t
  BY <1>1, <1>2 DEF InQueue
<1>4. \A u \in Tasks : InHand(u)' <=> InHand(u)
  BY <1>1 DEF InHand
<1>5. ~InQueue(t) /\ ~InHand(t) /\ t \notin executed
  BY <1>1 DEF TQInv, ExactlyOnce
<1>6. \A u \in Tasks : u[2] <= added'[u[1]] <=> u[2] <= added[u[1]] \/ u = t
  BY <1>1 DEF Tasks
<1>7. TQTypeOK'
  BY <1>1, <1>2, <1>len DEF TQInv, TQTypeOK
<1>8. ExactlyOnce'
  <2>1. \A u \in Tasks : u[2] <= added'[u[1]]
                           <=> InQueue(u)' \/ InHand(u)' \/ u \in executed'
    BY <1>1, <1>3, <1>4, <1>6 DEF TQInv, ExactlyOnce
  <2>2. \A u \in Tasks : /\ ~(InQueue(u)' /\ InHand(u)')
                         /\ ~(InQueue(u)' /\ u \in executed')
                         /\ ~(InHand(u)' /\ u \in executed')
    BY <1>1, <1>3, <1>4, <1>5 DEF TQInv, ExactlyOnce
  <2>3. \A i \in 1..n : queue[i] # t
    BY <1>5 DEF InQueue
  <2>4. ASSUME NEW i \in 1..Len(queue'), NEW j \in 1..Len(queue'),
               queue'[i] = queue'[j]
        PROVE  i = j
    <3>1. (i \in 1..n \/ i = n + 1) /\ (j \in 1..n \/ j = n + 1)
      BY <1>len
    <3> QED  BY <1>2, <2>3, <2>4, <3>1 DEF TQInv, ExactlyOnce
  <2> QED  BY <1>1, <2>1, <2>2, <2>4 DEF TQInv, ExactlyOnce
<1>9. InOrder'
  <2>1. \A u \in Tasks : InQueue(u) /\ u[1] = p => u[2] < t[2]
    BY <1>1 DEF TQInv, ExactlyOnce, Tasks
  <2>2. \A u \in Tasks : (InHand(u) \/ u \in executed) /\ u[1] = p => u[2] < t[2]
    BY <1>1 DEF TQInv, ExactlyOnce, Tasks
  <2>3. \A i \in 1..n : InQueue(queue[i])
    BY DEF InQueue
  <2>4. ASSUME NEW i \in 1..Len(queue'), NEW j \in 1..Len(queue'),
               i < j, queue'[i][1] = queue'[j][1]
        PROVE  queue'[i][2] < queue'[j][2]
    <3>1. i \in 1..n /\ (j \in 1..n \/ j = n + 1)
      BY <1>len, <2>4
    <3>2. CASE j \in 1..n
      BY <1>2, <2>4, <3>1, <3>2 DEF TQInv, InOrder
    <3>3. CASE j = n + 1
      <4>1. /\ InQueue(queue[i]) /\ queue[i] \in Tasks /\ queue[i][1] = p
            /\ queue'[i] = queue[i] /\ queue'[j] = t
        BY <1>2, <2>3, <2>4, <3>1, <3>3
      <4> QED  BY <2>1, <4>1
    <3> QED  BY <3>1, <3>2, <3>3
  <2>5. ASSUME NEW i \in 1..Len(queue'), NEW u \in Tasks,
               InHand(u) \/ u \in executed, u[1] = queue'[i][1]
        PROVE  u[2] < queue'[i][2]
    <3>1. i \in 1..n \/ i = n + 1
      BY <1>len
    <3>2. CASE i \in 1..n
      BY <1>2, <2>5, <3>2 DEF TQInv, InOrder
    <3>3. CASE i = n + 1
      BY <1>2, <2>2, <2>5, <3>3
    <3> QED  BY <3>1, <3>2, <3>3
  <2> QED  BY <1>1, <1>4, <2>4, <2>5 DEF InOrder
<1> QED  BY <1>7, <1>8, <1>9 DEF TQInv

LEMMA TakeInv ==
  ASSUME TaskQueueAssumption, TQInv, NEW w \in Workers, Take(w)
  PROVE  TQInv'
<1> USE DEF TaskQueueAssumption
<1> DEFINE t == queue[1]
           n == Len(queue)
<1>1. /\ queue \in Seq(Tasks) /\ n \in Nat /\ n > 0 /\ t \in Tasks /\ t # NoTask
      /\ queue' = Tail(queue) /\ n <= QueueSize
      /\ current \in [Workers -> Tasks \cup {NoTask}] /\ current[w] = NoTask
      /\ current' = [current EXCEPT ![w] = t]
      /\ added' = added /\ executed' = executed
  BY DEF TQInv, TQTypeOK, Take, Tasks
<1>2. /\ queue' \in Seq(Tasks) /\ Len(queue') = n - 1
      /\ \A i \in 1..(n - 1) : queue'[i] = queue[i + 1] /\ i + 1 \in 1..n
  BY <1>1
<1>3. \A i, j \in 1..n : queue[i] = queue[j] => i = j
  BY DEF TQInv, ExactlyOnce
<1>4. \A u \in Tasks : InQueue(u)' <=> InQueue(u) /\ u # t
  <2>1. ASSUME NEW u \in Tasks, InQueue(u)' PROVE InQueue(u) /\ u # t
    BY <1>1, <1>2, <1>3, <2>1 DEF InQueue
  <2>2. ASSUME NEW u \in Tasks, InQueue(u), u # t PROVE InQueue(u)'
    <3>1. PICK i \in 1..n : queue[i] = u
      BY <2>2 DEF InQueue
    <3>2. i - 1 \in 1..(n - 1) /\ queue'[i - 1] = u
      BY <1>1, <1>2, <2>2, <3>1
    <3> QED  BY <1>2, <3>2 DEF InQueue
  <2> QED  BY <2>1, <2>2
<1>5. \A u \in Tasks : InHand(u)' <=> InHand(u) \/ u = t
  BY <1>1 DEF InHand, Tasks
<1>6. InQueue(t) /\ ~InHand(t) /\ t \notin executed
  BY <1>1 DEF TQInv, ExactlyOnce, InQueue
<1>7. TQTypeOK'
  BY <1>1, <1>2 DEF TQInv, TQTypeOK
<1>8. ExactlyOnce'
  <2>1. \A u \in Tasks : u[2] <= added'[u[1]]
                           <=> InQueue(u)' \/ InHand(u)' \/ u \in executed'
    BY <1>1, <1>4, <1>5, <1>6 DEF TQInv, ExactlyOnce
  <2>2. \A u \in Tasks : /\ ~(InQueue(u)' /\ InHand(u)')
                         /\ ~(InQueue(u)' /\ u \in executed')
                         /\ ~(InHand(u)' /\ u \in executed')
    BY <1>1, <1>4, <1>5, <1>6 DEF TQInv, ExactlyOnce
  <2>3. \A i, j \in 1..Len(queue') : queue'[i] = queue'[j] => i = j
    BY <1>1, <1>2, <1>3
  <2>4. \A u, v \in Workers :
          current'[u] = current'[v] /\ current'[u] # NoTask => u = v
    BY <1>1, <1>6 DEF TQInv, ExactlyOnce, InHand
  <2> QED  BY <2>1, <2>2, <2>3, <2>4 DEF ExactlyOnce
<1>9. InOrder'
  <2>1. ASSUME NEW i \in 1..Len(queue'), NEW j \in 1..Len(queue'),
               i < j, queue'[i][1] = queue'[j][1]
        PROVE  queue'[i][2] < queue'[j][2]
    BY <1>1, <1>2, <2>1 DEF TQInv, InOrder
  <2>2. ASSUME NEW i \in 1..Len(queue'), NEW u \in Tasks,
               InHand(u) \/ u = t \/ u \in executed, u[1] = queue'[i][1]
        PROVE  u[2] < queue'[i][2]
    BY <1>1, <1>2, <2>2 DEF TQInv, InOrder
  <2> QED  BY <1>1, <1>5, <2>1, <2>2 DEF InOrder
<1> QED  BY <1>7, <1>8, <1>9 DEF TQInv

LEMMA FinishInv ==
  ASSUME TaskQueueAssumption, TQInv, NEW w \in Workers, Finish(w)
  PROVE  TQInv'
<1> USE DEF TaskQueueAssumption
<1> DEFINE t == current[w]
<1>1. /\ t \in Tasks /\ t # NoTask
      /\ current \in [Workers -> Tasks \cup {NoTask}]
      /\ current' = [current EXCEPT ![w] = NoTask]
      /\ executed' = executed \cup {t}
      /\ queue' = queue /\ added' = added
  BY DEF TQInv, TQTypeOK, Finish
<1>2. \A u, v \in Workers : current[u] = current[v] /\ current[u] # NoTask => u = v
  BY DEF TQInv, ExactlyOnce
<1>3. \A u \in Tasks : InHand(u)' <=> InHand(u) /\ u # t
  BY <1>1, <1>2 DEF InHand, Tasks
<1>4. \A u \in Tasks : InQueue(u)' <=> InQueue(u)
  BY <1>1 DEF InQueue
<1>5. InHand(t)
  BY DEF InHand
<1>6. TQTypeOK'
  BY <1>1 DEF TQInv, TQTypeOK
<1>7. ExactlyOnce'
  <2>1. \A u \in Tasks : u[2] <= added'[u[1]]
                           <=> InQueue(u)' \/ InHand(u)' \/ u \in executed'
    BY <1>1, <1>3, <1>4, <1>5 DEF TQInv, ExactlyOnce
  <2>2. \A u \in Tasks : /\ ~(InQueue(u)' /\ InHand(u)')
                         /\ ~(InQueue(u)' /\ u \in executed')
                         /\ ~(InHand(u)' /\ u \in executed')
    BY <1>1, <1>3, <1>4, <1>5 DEF TQInv, ExactlyOnce
  <2> QED  BY <1>1, <1>2, <2>1, <2>2 DEF TQInv, ExactlyOnce
<1>8. InOrder'
  BY <1>1, <1>3, <1>5 DEF TQInv, InOrder
<1> QED  BY <1>6, <1>7, <1>8 DEF TQInv

LEMMA TQNextInv ==
  ASSUME TaskQueueAssumption PROVE TQInv /\ [TQNext]_tq_vars => TQInv'
<1> SUFFICES ASSUME TQInv, [TQNext]_tq_vars PROVE TQInv'
  OBVIOUS
<1>1. CASE TQNext
  BY <1>1, PutInv, TakeInv, FinishInv DEF TQNext
<1>2. CASE UNCHANGED tq_vars
  BY <1>2 DEF tq_vars, TQInv, TQTypeOK, ExactlyOnce, InOrder, InQueue, InHand
<1> QED  BY <1>1, <1>2

LEMMA TQInvariant ==
  ASSUME TaskQueueAssumption PROVE TQSpec => []TQInv
BY TQInitInv, TQNextInv, PTL DEF TQSpec

\* The queue keeps its type and never holds more than QueueSize tasks.
THEOREM TQTypeCorrect ==
  ASSUME TaskQueueAssumption PROVE TQSpec => []TQTypeOK
<1>1. TQInv => TQTypeOK
  BY DEF TQInv
<1> QED  BY <1>1, TQInvariant, PTL

\* No task that was added is lost, and none is in two places or done twice.
THEOREM EachTaskOnce ==
  ASSUME TaskQueueAssumption PROVE TQSpec => []ExactlyOnce
<1>1. TQInv => ExactlyOnce
  BY DEF TQInv
<1> QED  BY <1>1, TQInvariant, PTL

\* The tasks of one producer are taken in the order they were added in.
THEOREM TasksInOrder ==
  ASSUME TaskQueueAssumption PROVE TQSpec => []InOrder
<1>1. TQInv => InOrder
  BY DEF TQInv
<1> QED  BY <1>1, TQInvariant, PTL

=============================================================================
