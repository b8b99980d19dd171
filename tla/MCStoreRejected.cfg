SPECIFICATION StoreSpec
CONSTANTS
  InputIndex <- MCInputIndex
  Payload = {p1}
  MaxInspects = 0
  MaxOutputs = 2
  Faults = {"crash"}
  MaxFaults = 2
INVARIANTS
  RejectedHasNoOutputs
