CONSTANTS
  Titles <- MCTitles
  ArchiveNames <- MCNames
  ArchiveVersions <- MCArchives
  DatabaseVersions <- MCDatabase
  MaxChanges = 2
  MaxRuns = 2
SPECIFICATION Spec
INVARIANTS PublishedAccepted EntriesKept
PROPERTY OwnersWin
CHECK_DEADLOCK FALSE
