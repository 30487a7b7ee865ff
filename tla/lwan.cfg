SPECIFICATION FairSpec
CONSTANTS
  Params = {"CMD_SET_RX1DL"}
  Inputs = {9, 10, 26, 42}
  Word = 16
  Long = 32
  MaxForced = 2
  Types = {0, 1}
  Listings <- SomeListings
  MaxSaves = 2
INVARIANTS
  TypeOK
  InSync
PROPERTIES
  DiskHoldsWhole
  AcquireEnds
