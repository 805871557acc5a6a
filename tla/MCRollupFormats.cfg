CONSTANTS
  Updates <- MCFormats
  Libraries <- MCEmptyLibrary
  Policies = {"size"}
  Target = 3
  Period = 2
  ByName = TRUE
  MaxClock = 1
  MaxStops = 0
SPECIFICATION Spec
INVARIANTS
  FormatsKept
