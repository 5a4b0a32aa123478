SPECIFICATION FairSpec
CONSTANTS
  NumPorts = 2
  MaxQueues = 3
  BramSize = 9
  PortIds = {0, 1, 2}
  PortArgs <- MCPortArgs
  Queues = {0, 1, 2, 3, 4}
  Addresses <- MCAddresses
  Sizes = {0, 1, 4, 7, 9}
  LoopCounts = {0, 2}
  MaxScripts = 1
INVARIANT FilesClosed
INVARIANT NothingForRemoved
INVARIANT FileMatchesMemory
INVARIANT SplitExact
INVARIANT NeverTooMuch
PROPERTY CommandReturns
