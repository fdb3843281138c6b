SPECIFICATION FairSpec
CONSTANTS
  c1 = c1  c2 = c2  Clients = {c1, c2}
  Paths <- MCPaths  OldEntries <- MCOldEntries  Misread <- MCMisread
  Contents = {"a", "b"}  OldContent = "a"  NoContent = NoContent  NoPath = NoPath
  TmpIds = {1, 2, 3, 4}  MaxCrashes = 1  MaxFaults = 1
CHECK_DEADLOCK FALSE
PROPERTIES IsATree StartsTidyUp
