CONSTANTS
  NumVars = 4
  Lemma = {11, 12}
  Contents <- OfLong

SPECIFICATION Spec

INVARIANT ListsIntact
INVARIANT WatchesSound
INVARIANT LemmasComplete
