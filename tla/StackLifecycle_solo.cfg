SPECIFICATION Spec
CONSTANTS
  Configs <- MCConfigs
  Deps <- MCDeps
  Requests <- MCRequests
  Commands = {"create", "delete", "post_init", "update"}
  Operators = {"o1"}
  MaxRuns = 3
INVARIANTS TypeOK SuccessIsReal
PROPERTIES LaunchNeedsSettledDependencies DependentsGoFirst EveryRunEnds
\* Every run has ended and no other is started.
CHECK_DEADLOCK FALSE
