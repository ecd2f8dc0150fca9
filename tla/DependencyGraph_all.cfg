SPECIFICATION Scenarios
CONSTANTS
  Configs <- Shipped
  DepGraphs <- Graphs
  ArgLists <- Requests
  Actions <- ThreeActions
  StackViews <- Views
INVARIANTS ResolvedInOrder NothingTooEarly AllCanBeResumed
PROPERTY AnswersAsPromised
\* The function returns.
CHECK_DEADLOCK FALSE
