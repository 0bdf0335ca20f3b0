CONSTANTS
  Lemma = {l1, l2, l3}
  NULL = NULL
  MAX_NUM_CACHED_LEMMAS = 1
  MaxPinned = 1

SPECIFICATION Spec

INVARIANT StopsOnlyIfNoneFreeable
