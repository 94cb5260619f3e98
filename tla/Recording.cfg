SPECIFICATION RecordingSpec
CONSTANTS
  erecord = erecord
  evoipsource = evoipsource
  evoiceactivator = evoiceactivator
  Counted <- MCCounted
  MaxInputs = 2
  Hold = 2
  MaxTimers = 4
PROPERTIES
  ImplementsMicrophone
  LastCloseIsSeen
  MicrophoneReleased
