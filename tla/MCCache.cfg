CONSTANTS
  Settings <- MCSettings
  MaxClock = 1
  MaxStops = 1
  Time <- MCTime
  Scope <- MCScope
  DumpSets <- MCDumpSets
  FirstDumps <- MCFirstDumps
  DumpTime <- MCDumpTime
  Declared <- MCDeclared
  Persistent = TRUE
  AllowMismatch = FALSE
  MaxSwitches = 1
SPECIFICATION Spec
INVARIANTS
  FreshDescribes
  VerifiedDescribes
PROPERTIES
  OnlyImproved
  EventuallyReady
