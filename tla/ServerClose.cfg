CONSTANTS
  Conns = {c1, c2}
  Leavers = {c1, c2}
  Typists = {c1}
  NoConn = NoConn
  Fds = {1}
  SndBuf = 1
  MaxLines = 1
  Cells = {n1, n2}
  NULL = NULL
  Piped = {}
  MaxAtEnd = 0
  MaxShown = 3
  ThreadFailures = 0
SPECIFICATION Spec
PROPERTY ClosesNoOther
CHECK_DEADLOCK FALSE
