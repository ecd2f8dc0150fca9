SPECIFICATION Spec
CONSTANTS
  Files <- MCFiles
  Commits <- MCCommits
  VersionOf <- MCVersionOf
  Orderly = TRUE
  Patient = TRUE
  MayFail = TRUE
  MaxRuns = 4
INVARIANTS NothingIsLost MigrateFindsItsPath
PROPERTIES MigrationsRunInOrder PostUpdateFindsNewStack EveryCommandEnds
\* The last command has ended and the stack is at rest.
CHECK_DEADLOCK FALSE
