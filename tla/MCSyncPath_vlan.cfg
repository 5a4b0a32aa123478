SPECIFICATION PathSpec
CONSTANTS
  DefaultPeriod = 2
  WordMod = 4
  PowerUp = {3}
  ResetEdges = 4
  Headers <- MCHeaders
INVARIANT AppPacketsDetected
