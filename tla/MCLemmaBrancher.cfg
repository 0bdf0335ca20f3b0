CONSTANTS
  NumVars = 4
  Fn = {0, 1, 2}
  Problems <- OfAll

SPECIFICATION Spec

INVARIANT ReasonsRight
INVARIANT LemmasImplied
INVARIANT FlagsExact
INVARIANT UnitLemmasInUse
PROPERTY InfersUnknown
PROPERTY FindsModels
