SPECIFICATION PathFairSpec
CONSTANTS
  DefaultPeriod = 2
  WordMod = 4
  PowerUp = {1, 3}
  ResetEdges = 4
  Headers <- MCTwoHeaders
INVARIANT SlaveTickStill
 
PROPERTY ImplementsCounter
PROPERTY MasterPulses
