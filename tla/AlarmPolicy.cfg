SPECIFICATION Spec
CONSTANTS
  emedia = emedia
  ealarm = ealarm
  etimer = etimer
  ealerts = ealerts
  MaxPending = 2
  Overridable <- MCOverridable
INVARIANTS
  AlarmFollowsPolicy
  VibrationIsStopped
PROPERTIES
  MediaComesBack
