SPECIFICATION QueriesSpec
CONSTANTS
  InputIndex <- MCInputIndex
  Payload = {p1}
  MaxInspects = 0
  MaxOutputs = 1
  Faults = {"crash", "dberror"}
  MaxFaults = 1
  Walks <- MCFaultyWalks
  MaxExecutions = 0
INVARIANTS
  WalkIsPrefix
  BackwardWalkHasNoHole
  QueriesIInv
PROPERTIES
  WalkCatchesUp
