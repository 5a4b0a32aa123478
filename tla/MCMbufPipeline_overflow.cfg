SPECIFICATION Spec
CONSTANTS
  Mbufs = {m1, m2, m3}
  RingCap = 2
  Burst = 2
  TxDescs = 2
  PoolCap = 4
INVARIANT SingleOwner
CHECK_DEADLOCK FALSE
