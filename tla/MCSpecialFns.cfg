CONSTANTS
  NumVars = 4
  Fn = {0, 1}
  Problems <- OfTwo

SPECIFICATION Spec

INVARIANT CreatedRight
INVARIANT CountersExact
INVARIANT ResolvedExact
PROPERTY UpdatesRight
PROPERTY FindsModels
