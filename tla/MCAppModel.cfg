SPECIFICATION Spec
CONSTANTS
  InputIndex <- MCInputIndex
  Payload = {p1}
  MaxInspects = 2
  MaxOutputs = 2
INVARIANTS
  TypeOK
  OutputsOnlyOfAccepted
  OutputIndicesGapless
  InspectCountsOrdered
  IInv
PROPERTIES
  VerdictIsFinal
  ImplementsLifecycle
