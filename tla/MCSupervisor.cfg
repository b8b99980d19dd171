SPECIFICATION Spec
CONSTANTS
  N = 4
  Server <- MCServer
CHECK_DEADLOCK FALSE
INVARIANTS
  IInv
  EarlierAreUp
  StrandedOnlyAtTheEnd
PROPERTIES
  ExitEndsSupervisor
