SPECIFICATION Spec
CONSTANTS
  media = media
  phone = phone
  vvm = vvm
  media_back = media_back
  media_headset = media_headset
  media_headset_mic = media_headset_mic
  phone_back = phone_back
  phone_front = phone_front
  phone_sco = phone_sco
  vvm_back = vvm_back
  NoScenario = NoScenario
  Media = media
  Modules <- MCModules
  FocusModules <- MCModules
  Scenarios <- MCScenarios
  OwnerOf <- MCOwnerOf
  Priority <- MCPriority
  NameOrder <- MCNameOrder
  InitiallyEnabled <- MCInitiallyEnabled
  Hardwired <- MCHardwired
  RouteMayFail = TRUE
INVARIANTS
  HighestUnlessChosen
  RouteFollowsFocus
  MixFollowsFocus
PROPERTIES
  OnlyHigherPrioritySteals
