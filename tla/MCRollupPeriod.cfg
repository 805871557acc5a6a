CONSTANTS
  Updates <- MCShortUpdates
  Libraries <- MCPeriodLibraries
  Policies = {"size", "rolling", "calendar"}
  Target = 3
  Period = 2
  ByName = FALSE
  MaxClock = 5
  MaxStops = 2
SPECIFICATION Spec
INVARIANTS
  RefusesOnlyTorn
PROPERTIES
  DeadlineStays
  FinalizedWhenDue
  OverdueFinalized
