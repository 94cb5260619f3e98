SPECIFICATION Spec
CONSTANTS
  emedia = emedia
  eeffects = eeffects
  Sinks <- MCSinks
  NeverMuted <- MCNeverMuted
  MaxVolume = 2
  MaxStreams = 2
  MaxWire = 3
  MinTimeout = 1
  MaxTimeout = 3
  SendMayFail = FALSE
  ApiMayFail = FALSE
INVARIANTS
  CountsConverge
  HeardAtWantedVolume
PROPERTIES
  ReconnectsForGood
