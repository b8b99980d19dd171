SPECIFICATION ApiSpec
CONSTANTS
  EpochDuration = 2
  InputIndex <- MCInputIndex
  Payload = {p1}
  MaxInspects = 1
  MaxOutputs = 0
  Handler = {h1, h2}
  FinishRetries = 2
  Breaks = {"relaunch", "disconnect"}
  MaxBreaks = 1
PROPERTIES
  FirstFinishStatusIgnored
