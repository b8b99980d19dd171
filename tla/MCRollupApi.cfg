SPECIFICATION ApiSpec
CONSTANTS
  EpochDuration = 2
  InputIndex <- MCInputIndex
  Payload = {p1}
  MaxInspects = 0
  MaxOutputs = 1
  Handler = {h1, h2}
  FinishRetries = 2
  Breaks = {"relaunch", "disconnect"}
  MaxBreaks = 1
INVARIANTS
  ApiTypeOK
  WorkingMatchesState
  ApiIInv
PROPERTIES
  HolderDecides
  EveryInputDecided
