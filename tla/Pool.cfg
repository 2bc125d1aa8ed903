CONSTANTS
  Producers = {p1, p2}
  Workers = {w1, w2, w3}
  QueueSize = 3
  MaxTasks = 3
  ThreadFailures = 3
  NoTask = NoTask
SPECIFICATION FairSpec
INVARIANT TypeOK
INVARIANT NoStall
INVARIANT SeparateSleepers
INVARIANT OnceInPool
INVARIANT OrderInPool
PROPERTY ImplementsQueue
PROPERTY EveryTaskExecuted
CHECK_DEADLOCK FALSE
