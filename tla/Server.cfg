CONSTANTS
  Conns = {c1, c2}
  Leavers = {c1, c2}
  Typists = {c1, c2}
  NoConn = NoConn
  Fds = {1, 2}
  SndBuf = 1
  MaxLines = 2
  Cells = {n1, n2, n3}
  NULL = NULL
  Piped = {}
  MaxAtEnd = 0
  MaxShown = 2
  ThreadFailures = 1
SPECIFICATION Spec
SYMMETRY Symmetry
INVARIANT TypeOK
INVARIANT NoEcho
INVARIANT HandlersIntact
CHECK_DEADLOCK FALSE
