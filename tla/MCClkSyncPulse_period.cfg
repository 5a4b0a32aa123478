SPECIFICATION Spec
CONSTANTS
  DefaultPeriod = 4
  WordMod = 8
  PowerUp = {1, 7}
  ResetEdges = 4
PROPERTY DocumentedPeriod
