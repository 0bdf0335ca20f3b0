---------------------------- MODULE MCLemmaCache ----------------------------
(* Bounds for LemmaCache.  With MAX_NUM_CACHED_LEMMAS = 1 the queues are     *)
(* bounded by 0, 1 and 0, so the second lemma that comes to any of them has  *)
(* to displace one.  Five lemmas are what three nested calls that each       *)
(* remove a lemma need.                                                      *)
EXTENDS LemmaCache, TLC

Symmetry == Permutations(Lemma)

(* What a lemma outside the queues was is not read before it is written     *)
(* again: states that differ only there are the same for the checks. *)
Live ==
  LET At(f, S, x) == [l \in Lemma |-> IF l \in S THEN f[l] ELSE x]
      queued == Cached \cup Enqueuing
  IN  <<pLPQFirst, pLPQLast, nNumCachedLemmas,
        At(pLPQPrev, Cached, NULL), At(pLPQNext, Cached, NULL),
        At(cache, Cached, 0), nBacktrackStackReferences,
        At(lastUsed, queued, FALSE), At(short, Lemma \ freeLemmas, FALSE),
        freeLemmas, unitLemmas, calls>>
=============================================================================
