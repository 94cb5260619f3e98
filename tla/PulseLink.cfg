SPECIFICATION Spec
CONSTANTS
  s1 = s1
  t1 = t1
  t2 = t2
  g1 = g1
  g2 = g2
  u1 = u1
  Samples <- MCSamples
  Tones <- MCTones
  Gens <- MCGens
  Uploads <- MCUploads
  None = None
INVARIANTS
  HeldIsReferenced
  LoadedIsCached
  TonesCanBeStopped
PROPERTIES
  GeneratorsEnd
