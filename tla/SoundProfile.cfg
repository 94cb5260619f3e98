SPECIFICATION Spec
CONSTANTS
  Requested <- MCRequested
  MaxFailures = 1
  Unknown = Unknown
INVARIANTS
  PropertyIsPreference
  DndGivesBack
  SubscribersKnowProfile
