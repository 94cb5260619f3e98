SPECIFICATION DevicesSpec
CONSTANTS
  media = media
  phone = phone
  media_back = media_back
  phone_back = phone_back
  c1 = c1
  NoScenario = NoScenario
  Media = media
  Phone = phone
  PhoneBackSpeaker = phone_back
  Modules <- MCModules
  FocusModules <- MCModules
  Scenarios <- MCScenarios
  OwnerOf <- MCOwnerOf
  Priority <- MCPriority
  NameOrder <- MCNameOrder
  InitiallyEnabled <- MCScenarios
  Hardwired <- MCHardwired
  RouteMayFail = FALSE
  Cards <- MCCards
  MaxCalls = 2
  MaxReplies = 2
INVARIANTS
  HeadsetIsKnown
  RouteFollowsHeadset
  CardsFollowPlugs
  RtpIsKnown
