CONSTANTS
  NumVars = 3
  Fn = {0, 1, 2}
  Problems <- MCProblems
  FnPriority <- SamePriority
  MaxSolutions = 0
  BacktracksPerReport = 1
  Limits = FALSE

SPECIFICATION Spec

INVARIANT ListsMatchMarks
INVARIANT QueueIsEndOfTrail
INVARIANT UnresolvedExact
INVARIANT DeductionComplete
PROPERTY UsesFnStack
PROPERTY FindsModels
PROPERTY Terminates
