CONSTANTS
  Conns = {c1, c2, c3, c4}
  Endures = {c1}
  NoConn = NoConn
  Fds = {1, 2}
  SndBuf = 1
  Cells = {n1, n2}
  NULL = NULL
  ThreadFailures = 1
SPECIFICATION FairSpec
INVARIANT LibraryTypeOK
INVARIANT OwnNode
PROPERTY ClosesOwn
PROPERTY EveryoneServed
CHECK_DEADLOCK FALSE
