SPECIFICATION FairSpec
CONSTANTS
  r1 = r1
  r2 = r2
  Remotes = {r1}
  Requests <- ReqJoin
  NCtx = 1
  AcquireCount = 2
  MaxFaults = 0
  MaxCmds = 2
  MaxWire = 2
  MaxTx = 2
  MaxQueue = 0
PROPERTIES
  JoinSavesContext
