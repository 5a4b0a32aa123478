SPECIFICATION Spec
CONSTANTS
  Mbufs <- MCMbufs
  BURST_SIZE = 2
  StatsRoom = 1
  Boot = 6
  End = 8
  Hz = 2
  Giga = 3
  W = 5
INVARIANT StatsRingOwns
CHECK_DEADLOCK FALSE
