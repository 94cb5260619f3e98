SPECIFICATION Spec
CONSTANTS
  r1 = r1
  r2 = r2
  r3 = r3
  media = media
  phone = phone
  Requests <- MCRequests
  Modules <- MCModules
  Media = media
  NoModule = NoModule
  Free = Free
  Stuck = Stuck
INVARIANTS
  HolderHasTheKeys
  OverridesCounted
PROPERTIES
  ImplementsVolumeLock
