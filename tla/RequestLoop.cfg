SPECIFICATION FairSpec
CONSTANTS
  verify = verify
  Entries = {verify}  NoEntry = NoEntry  Undeclared = Undeclared
  Declared <- MCDeclared  AskLimit <- MCAskLimit
  DefaultTimeout = 1  ExecTimeout = 1  Budget = 3  Grace = 1
  Extras = {2}
  MaxToolCalls = 1  MaxFailures = 1  MaxBatch = 1  MaxRequests = 2
CHECK_DEADLOCK FALSE
INVARIANTS CallsEndInBudget BridgeIsSound
PROPERTY LoopComesBack
