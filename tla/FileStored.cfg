CONSTANTS
  k1 = k1
  k2 = k2
  NoClient = NoClient
  Missing = Missing
  Clients = {k1}
  Paths <- MCPaths
  Requests <- MCRequestsB
  Target <- MCTarget
  InitialFiles <- MCInitialFiles
  Garbage = {0, 255}
  Failures = 0
CHECK_DEADLOCK FALSE
SPECIFICATION Spec
INVARIANT StoresContent
