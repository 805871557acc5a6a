CONSTANTS
  Updates <- MCUpdates
  Libraries <- MCLibraries
  Policies = {"size"}
  Target = 3
  Period = 2
  ByName = FALSE
  MaxClock = 1
  MaxStops = 2
  Layouts = {"apart", "together"}
SPECIFICATION LibrarySpec
INVARIANTS
  NothingDropped
  StoredOnce
  RangesTell
PROPERTIES
  KeepsArchived
  FullArchivesStay
  FinalizedFull
  EventuallyArchived
