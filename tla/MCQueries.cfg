SPECIFICATION QueriesSpec
CONSTANTS
  InputIndex <- MCInputIndex
  Payload = {p1}
  MaxInspects = 0
  MaxOutputs = 2
  Faults = {}
  MaxFaults = 0
  Walks <- MCWalks
  MaxExecutions = 1
INVARIANTS
  QueriesTypeOK
  PageIsFull
  BackwardWalkHasNoHole
  QueriesIInv
PROPERTIES
  ExecutedIsKept
