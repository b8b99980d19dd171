SPECIFICATION InputterSpec
CONSTANTS
  InputIndex <- MCInputIndex
  Payload = {p1}
  MaxInspects = 0
  MaxOutputs = 0
  LogsBuffer = 2
  MaxLives = 2
  MaxBroken = 1
CHECK_DEADLOCK FALSE
INVARIANTS
  InputterTypeOK
  DecidedInOrder
  NoLogIsLost
  InputterIInv
PROPERTIES
  DueInputIsStored
