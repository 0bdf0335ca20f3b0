----------------------------- MODULE MCBddTable -----------------------------
(* Bounds for BddTable: two variables, three nodes to a pool, so that pairs  *)
(* of a node and its negation lie across pools, and more functions than the  *)
(* pools have room for.                                                      *)
EXTENDS BddTable

Var1 == {m \in B!Assignment : m[1] = B!BOOL_TRUE}
Var2 == {m \in B!Assignment : m[2] = B!BOOL_TRUE}

ThreeFunctions == {Var1, Var1 \cap Var2, B!Assignment \ (Var1 \cup Var2)}
=============================================================================
