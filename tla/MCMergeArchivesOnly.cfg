CONSTANTS
  Titles <- MCTitles
  ArchiveNames <- MCNames
  ArchiveVersions <- MCArchives
  DatabaseVersions <- MCDatabase
  MaxChanges = 0
  MaxRuns = 1
SPECIFICATION Spec
INVARIANT ArchivesOnlyAccepted
CHECK_DEADLOCK FALSE
