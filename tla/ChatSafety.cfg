CONSTANTS
  Conns = {c1, c2, c3}
  Leavers = {c2, c3}
  Typists = {c1, c2}
  NoConn = NoConn
  Fds = {1, 2, 3}
  SndBuf = 1
  MaxLines = 1
  Piped = {c1}
  MaxAtEnd = 1
  MaxShown = 6
  ThreadFailures = 1
SPECIFICATION Spec
SYMMETRY Symmetry
INVARIANT TypeOK
INVARIANT TotalOrder
INVARIANT NoEcho
INVARIANT OwnDescriptor
INVARIANT EntriesMatchHandlers
INVARIANT BroadcastReachesAll
CHECK_DEADLOCK FALSE
