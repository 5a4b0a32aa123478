SPECIFICATION FairSpec
CONSTANTS
  Mbufs = {m1, m2, m3}
  RingCap = 2
  Burst = 2
  TxDescs = 1
  PoolCap = 3
PROPERTY MbufConserved
PROPERTY ImplementsChannel
PROPERTY StopTerminates
PROPERTY RingServed
CHECK_DEADLOCK FALSE
