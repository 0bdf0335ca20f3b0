------------------------------- MODULE BoolFn -------------------------------
(***************************************************************************)
(* Boolean functions of the solver's variables, which the code represents  *)
(* as BDDs (src/src/utils/bdd.cc).  A reduced BDD is canonical, so a       *)
(* function is the set of the assignments that satisfy it.                 *)
(***************************************************************************)
EXTENDS Integers, FiniteSets

CONSTANT NumVars

ASSUME NumVarsAssumption == NumVars \in Nat \ {0}

Var == 1..NumVars

BOOL_FALSE   == 0
BOOL_TRUE    == 1
BOOL_UNKNOWN == 2

Value == {BOOL_FALSE, BOOL_TRUE}

Assignment == [Var -> Value]
Partial    == [Var -> Value \cup {BOOL_UNKNOWN}]  \* arrSolution
Function   == SUBSET Assignment
Literal    == Var \X Value

true_ptr  == Assignment
false_ptr == {}

set_variable(F, v, val) == {m \in Assignment : [m EXCEPT ![v] = val] \in F}

(* The support, unravelBDD. *)
Vbles(F) == {v \in Var : set_variable(F, v, BOOL_TRUE)
                           # set_variable(F, v, BOOL_FALSE)}

(* F->inferences with nums[1] = 0: the literals F implies. *)
Inferences(F) == {l \in Literal : \A m \in F : m[l[1]] = l[2]}

(* m changed to agree with the partial assignment p. *)
Override(m, p) == [v \in Var |-> IF p[v] = BOOL_UNKNOWN THEN m[v] ELSE p[v]]

(* F once all values of p are set in it. *)
Restricted(F, p) == {m \in Assignment : Override(m, p) \in F}

AsPartial(lits) ==
  [v \in Var |-> IF <<v, BOOL_TRUE>> \in lits THEN BOOL_TRUE
                 ELSE IF <<v, BOOL_FALSE>> \in lits THEN BOOL_FALSE
                 ELSE BOOL_UNKNOWN]

set_variable_all_infs(F) == Restricted(F, AsPartial(Inferences(F)))

(* The assignments a partial assignment stands for. *)
Cube(p) == {m \in Assignment : Override(m, p) = m}

(* "Normalized" in the words of ComputeSmurfOfNormalized. *)
Normalized(F) == F # false_ptr /\ Inferences(F) = {}
=============================================================================
