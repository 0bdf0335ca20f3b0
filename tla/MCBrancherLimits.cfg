CONSTANTS
  NumVars = 3
  Fn = {0, 1, 2}
  Problems <- MCProblems
  FnPriority <- MixedPriorities
  MaxSolutions = 1
  BacktracksPerReport = 2
  Limits = TRUE

SPECIFICATION Spec

INVARIANT ListsMatchMarks
PROPERTY FindsModels
