SPECIFICATION FairSpec
CONSTANTS
  NbCards = 2
  NB_CMAC = 2
  Readers = {"main", "producer"}
  Main = "main"
  Reads <- MCReads
  W = 2
  MaxPackets = 2
INVARIANT CmacsUp
INVARIANT NothingLost
INVARIANT OneInstant
PROPERTY InitReturns
CHECK_DEADLOCK FALSE
