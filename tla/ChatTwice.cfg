CONSTANTS
  Conns = {c1, c2, c3}
  Leavers = {c1, c2, c3}
  Typists = {c1, c2, c3}
  NoConn = NoConn
  Fds = {1, 2}
  SndBuf = 2
  MaxLines = 2
  Piped = {}
  MaxAtEnd = 0
  MaxShown = 6
  ThreadFailures = 0
SPECIFICATION Spec
SYMMETRY Symmetry
INVARIANT AtMostOnce
CHECK_DEADLOCK FALSE
