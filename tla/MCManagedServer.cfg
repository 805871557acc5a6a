CONSTANTS
  Dumps <- MCDumps
  Workers = 2
  MaxRuns = 2
SPECIFICATION Spec
INVARIANTS
  DirectoryOutlivesServer
  OwnServer
  ImportedOrStopped
PROPERTIES
  EventuallyReturns
CHECK_DEADLOCK FALSE
