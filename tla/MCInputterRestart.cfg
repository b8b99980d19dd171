SPECIFICATION InputterSpec
CONSTANTS
  InputIndex <- MCInputIndex
  Payload = {p1}
  MaxInspects = 0
  MaxOutputs = 0
  LogsBuffer = 2
  MaxLives = 2
  MaxBroken = 0
CHECK_DEADLOCK FALSE
PROPERTIES
  DeliveredInputIsStored
