CONSTANTS
  Lemma = {l1, l2, l3}
  NULL = NULL
  MAX_NUM_CACHED_LEMMAS = 1
  MaxPinned = 2

SPECIFICATION FairSpec

PROPERTY CallsEnd
