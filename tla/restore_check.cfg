SPECIFICATION Spec
CONSTANTS
  r1 = r1
  r2 = r2
  Remotes = {r1}
  Requests <- ReqReset
  NCtx = 2
  AcquireCount = 2
  MaxFaults = 1
  MaxCmds = 1
  MaxWire = 2
  MaxTx = 2
  MaxQueue = 0
INVARIANTS
  RestoreChecksLiveClient
