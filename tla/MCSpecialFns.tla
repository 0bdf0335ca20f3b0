---------------------------- MODULE MCSpecialFns ----------------------------
(* Inputs for SpecialFns, two functions each: every special one of all but   *)
(* the last variable and the equations, parities and bounds of all variables *)
(* with a clause that feeds it, and every two of a sample.                   *)
EXTENDS SpecialFns

Special(F) == \A t \in FunctionTypes(F) : t.nType \notin {"UNSURE", "NEG_MINMAX"}

Pos(v) == ite_var(v)
Neg(v) == Assignment \ ite_var(v)

TrueVars(m) == Cardinality({v \in Var : m[v] = BOOL_TRUE})

OfSome == {{m \in Assignment : [v \in 1..NumVars - 1 |-> m[v]] \in F} :
             F \in SUBSET [1..NumVars - 1 -> Value]}

OfAll ==
  LET Conj(p, vs) == {m \in Assignment : \A v \in vs : m[v] = p[v]}
  IN  UNION { {ite_equ(ite_var(NumVars), Conj(p, 1..NumVars - 1)),
               ite_equ(Neg(1), Conj(p, 2..NumVars)),
               Assignment \ Conj(p, Var)} : p \in Assignment }
      \cup {{m \in Assignment : TrueVars(m) % 2 = r} : r \in {0, 1}}
      \cup {{m \in Assignment : TrueVars(m) \in i..j} :
              i \in 0..NumVars - 1, j \in 1..NumVars - 1}

Specials == {F \in OfSome \cup OfAll : Normalized(F) /\ Special(F)}

(* Functions with both polarities on each side, that leave variables open. *)
Sample ==
  << ite_equ(Pos(1), Pos(2) \cap Neg(3)),
     ite_equ(Neg(4), Pos(1) \cup Pos(3)),
     Neg(1) \cup Neg(2) \cup Neg(3),
     ite_equ(Pos(1), ite_equ(Pos(2), Neg(4))),
     ite_equ(Pos(2), Pos(3)),
     {m \in Assignment : TrueVars(m) \in {1, 2}},
     {m \in Assignment : TrueVars(m) = 2} >>

AsProblem(F, G) == [f \in Fn |-> IF f = 0 THEN F ELSE G]

OfTwo == {AsProblem(F, Neg(2) \cup Pos(NumVars)) : F \in Specials}
         \cup {AsProblem(Sample[i], Sample[j]) : i, j \in DOMAIN Sample}
=============================================================================
