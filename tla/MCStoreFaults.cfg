SPECIFICATION StoreSpec
CONSTANTS
  InputIndex <- MCInputIndex
  Payload = {p1}
  MaxInspects = 1
  MaxOutputs = 2
  Faults = {"crash", "dberror"}
  MaxFaults = 1
INVARIANTS
  StoredIndicesGapless
  StoreIInv
  JobComplete
PROPERTIES
  StoredVerdictIsFinal
  AcceptedOutputsComplete
