CONSTANTS
  Updates <- MCUpdates
  Libraries <- MCLibraries
  Policies = {"size"}
  Target = 3
  Period = 2
  ByName = FALSE
  MaxClock = 1
  MaxStops = 0
SPECIFICATION Spec
INVARIANTS
  FinalizedAtTarget
