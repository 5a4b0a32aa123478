SPECIFICATION FairSpec
CONSTANTS
  Period = 3
  TxDescs = 2
  PoolSizes = {3, 4}
  Horizon = 16
INVARIANT NeverEarly
INVARIANT MbufsAccounted
INVARIANT CloneSucceeds
INVARIANT NoneSkipped
PROPERTY EveryPeriod
CHECK_DEADLOCK FALSE
