--------------------------- MODULE MCWatchedLits ---------------------------
(* A lemma of four literals, where both watches move at once, and one that  *)
(* shares literals with it, so that lists have two members.                *)
EXTENDS WatchedLits, TLC

Long == (11 :> <<1, 2, 3, 4>>) @@ (12 :> <<1, -2, 4>>)

OfLong == {Long}
=============================================================================
