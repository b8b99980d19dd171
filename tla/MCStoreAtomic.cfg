SPECIFICATION StoreSpec
CONSTANTS
  InputIndex <- MCInputIndex
  Payload = {p1}
  MaxInspects = 1
  MaxOutputs = 2
  Faults = {}
  MaxFaults = 0
INVARIANTS
  StoreTypeOK
  JobAlone
  RejectedHasNoOutputs
PROPERTIES
  ImplementsAppModel
