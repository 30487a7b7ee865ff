SPECIFICATION Spec
CONSTANTS
  r1 = r1
  r2 = r2
  Remotes = {r1}
  Requests <- ReqSave
  NCtx = 1
  AcquireCount = 2
  MaxFaults = 1
  MaxCmds = 1
  MaxWire = 2
  MaxTx = 1
  MaxQueue = 1
INVARIANTS
  OneCommandAtATime
  OwnReplies
PROPERTIES
  DiskNotAhead
