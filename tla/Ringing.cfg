SPECIFICATION RingSpec
CONSTANTS
  l1 = l1
  l2 = l2
  l3 = l3
  Lines <- MCLines
  eringtones = eringtones
  etts = etts
  MaxBuzzes = 2
INVARIANTS
  TalkerHasFocus
  QuietAfterCalls
  RingIsHeard
  MuteLastsOneRing
  VibrationFollowsRing
