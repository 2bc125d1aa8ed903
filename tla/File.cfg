CONSTANTS
  k1 = k1
  k2 = k2
  NoClient = NoClient
  Missing = Missing
  Clients = {k1, k2}
  Paths <- MCPaths
  Requests <- MCRequests
  Target <- MCTarget
  InitialFiles <- MCInitialFiles
  Garbage = {0, 255}
  Failures = 2
SPECIFICATION FairSpec
INVARIANT TypeOK
INVARIANT OkMeansStored
INVARIANT BeginsWithOneText
INVARIANT WholeOrEmpty
INVARIANT GetsWholeOrEmpty
INVARIANT DecodesBack
PROPERTY EveryoneDone
CHECK_DEADLOCK FALSE
