CONSTANTS
  NumVars = 4
  Fn = {0, 1, 2}
  Problems <- OfFour

SPECIFICATION Spec

PROPERTY Terminates
