CONSTANTS
  NUM_CLIENTS = 3
  Conns <- MCConns
  Fds = {1, 2}
  NoConn = NoConn
  SndBuf = 1
SPECIFICATION FairSpec
INVARIANT TypeOK
INVARIANT NeverAnEarlierClient
INVARIANT OwnUnlessLate
INVARIANT EveryEllipseKept
PROPERTY EveryThreadEnds
PROPERTY LauncherReturns
CHECK_DEADLOCK FALSE
