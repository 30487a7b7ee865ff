SPECIFICATION FairSpec
CONSTANTS
  r1 = r1
  r2 = r2
  Remotes = {r1, r2}
  Requests <- ReqResetOnly
  NCtx = 1
  AcquireCount = 2
  MaxFaults = 1
  MaxCmds = 1
  MaxWire = 2
  MaxTx = 2
  MaxQueue = 0
PROPERTIES
  Served
  RestoreEnds
