SPECIFICATION Spec
CONSTANTS
  c1 = c1
  c2 = c2
  v0 = v0
  v1 = v1
  Clients <- MCClients
  Values <- MCValues
  Default = v0
  Unheard = Unheard
  MaxQueue = 2
  MaxUp = 1
INVARIANTS
  HeardOrUnderWay
PROPERTIES
  BackInTouch
