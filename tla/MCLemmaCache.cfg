CONSTANTS
  Lemma = {l1, l2, l3, l4, l5}
  NULL = NULL
  MAX_NUM_CACHED_LEMMAS = 1
  MaxPinned = 2

SPECIFICATION Spec

VIEW Live

SYMMETRY Symmetry

INVARIANT QueuesLinked
INVARIANT OnePlace
INVARIANT CacheBounded
PROPERTY InUseKept
