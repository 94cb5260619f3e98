SPECIFICATION StoreSpec
CONSTANTS
  Requested <- MCRequested
  Steps <- MCSteps
  Percents <- MCPercents
  Default = 65
  Legacy <- MCLegacy
  Hardwired = FALSE
INVARIANTS
  StoredOrPending
PROPERTIES
  StepsMoveTics
  ChangesAreStored
