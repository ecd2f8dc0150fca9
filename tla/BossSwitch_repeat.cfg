SPECIFICATION Spec
CONSTANTS
  Order <- MCOrder
  Unswitched <- NoRds
  Sizes <- MCSizes
  MayFail = TRUE
  MaxRuns = 4
  MaxWrites = 1
  MaxRescales = 1
INVARIANT TagsRemember
PROPERTIES OthersWaitForVault ReportIsTrue
\* The runs are over.
CHECK_DEADLOCK FALSE
