CONSTANTS
  Conns = {c1, c2, c3}
  Leavers = {c3}
  Typists = {c1, c2}
  NoConn = NoConn
  Fds = {1, 2}
  SndBuf = 1
  MaxLines = 2
  Piped = {}
  MaxAtEnd = 0
  MaxShown = 6
  ThreadFailures = 0
SPECIFICATION FairSpec
PROPERTY EveryLineShown
PROPERTY DepartedForgotten
CHECK_DEADLOCK FALSE
