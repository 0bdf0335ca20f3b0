----------------------------- MODULE MCBrancher -----------------------------
(* Inputs for Brancher: three variables, and as input every choice of three  *)
(* different functions from a pool with clauses, equivalences, parities and  *)
(* an AND gate, in an order that puts functions which stay open before       *)
(* functions that infer; many inputs are unsatisfiable, some only by search. *)
EXTENDS Brancher

Pos(m, v) == m[v] = BOOL_TRUE

Pool ==
  << {m \in Assignment : Pos(m, 1) # (Pos(m, 2) # Pos(m, 3))},
     {m \in Assignment : ~Pos(m, 2) \/ ~Pos(m, 3) \/ Pos(m, 1)},
     {m \in Assignment : Pos(m, 1) \/ Pos(m, 2)},
     {m \in Assignment : Pos(m, 1) # Pos(m, 2)},
     {m \in Assignment : Pos(m, 1) = (Pos(m, 2) /\ Pos(m, 3))},
     {m \in Assignment : Pos(m, 2) # Pos(m, 3)},
     {m \in Assignment : Pos(m, 1) = Pos(m, 3)},
     {m \in Assignment : ~Pos(m, 1) \/ Pos(m, 3)} >>

MCProblems ==
  {[f \in Fn |-> Pool[i[f]]] :
     i \in {j \in [Fn -> DOMAIN Pool] : \A f, g \in Fn : f < g => j[f] < j[g]}}

(* In this code every function has priority 0; only SmurfAuCreateFunction   *)
(* sets another one, MAX_FN_PRIORITY - 1, which MixedPriorities gives to the *)
(* last function.                                                            *)
SamePriority == [f \in Fn |-> 0]

MixedPriorities ==
  [f \in Fn |-> IF \E g \in Fn : g > f THEN 0 ELSE MAX_FN_PRIORITY - 1]
=============================================================================
