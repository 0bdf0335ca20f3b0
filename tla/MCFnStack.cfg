CONSTANTS
  Fn = {0, 1}
  State = {s0, s1}
  BlankState = s0
  MaxVersion = 3

SPECIFICATION Spec

INVARIANT TypeOK
INVARIANT ChangedIsSaved
PROPERTY PopClearsMarks
PROPERTY ImplementsHistory
