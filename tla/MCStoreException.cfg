SPECIFICATION StoreSpec
CONSTANTS
  InputIndex <- MCInputIndex
  Payload = {p1}
  MaxInspects = 0
  MaxOutputs = 2
  Faults = {"dberror"}
  MaxFaults = 2
PROPERTIES
  ExceptionIsFinal
