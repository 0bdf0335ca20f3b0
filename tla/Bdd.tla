-------------------------------- MODULE Bdd ---------------------------------
(***************************************************************************)
(* The structure of reduced BDDs (highest variable on top) and the tests   *)
(* on it by which a function becomes a special function of the solver      *)
(* (src/src/utils/bdd.cc).  A node is the function it represents.          *)
(***************************************************************************)
EXTENDS BoolFn, FiniteSetsExt, Sequences

IS_TRUE_FALSE(F) == F \in {true_ptr, false_ptr}

variable(F) == Max(Vbles(F))
thenCase(F) == set_variable(F, variable(F), BOOL_TRUE)
elseCase(F) == set_variable(F, variable(F), BOOL_FALSE)
notCase(F)  == Assignment \ F

find_or_add_node(v, r, e) ==
  {m \in Assignment : IF m[v] = BOOL_TRUE THEN m \in r ELSE m \in e}

Length(F) == Cardinality(Vbles(F))

-----------------------------------------------------------------------------
(* Clauses, conjunctions of literals, and equations v = conjunction *)

RECURSIVE OrChain(_)
OrChain(F) ==
  \/ F = false_ptr
  \/ /\ F # true_ptr
     /\ IF thenCase(F) = true_ptr
        THEN OrChain(elseCase(F))
        ELSE elseCase(F) = true_ptr /\ OrChain(thenCase(F))

isOR(F) == ~IS_TRUE_FALSE(F) /\ OrChain(F) /\ Length(F) > 1

isAND(F) == isOR(notCase(F))

ite_equ(F, G) == {m \in Assignment : m \in F <=> m \in G}

ite_var(v) == {m \in Assignment : m[v] = BOOL_TRUE}

(* The sides of an equation may change places: an OR instead of an AND. *)
Equated(F, v) == F = ite_equ(ite_var(v), set_variable(F, v, BOOL_TRUE))

EquAND(F) == {v \in Vbles(F) : /\ isAND(set_variable(F, v, BOOL_TRUE))
                               /\ isOR(set_variable(F, v, BOOL_FALSE))
                               /\ Equated(F, v)}

EquOR(F) == {v \in Vbles(F) : /\ isOR(set_variable(F, v, BOOL_TRUE))
                              /\ isAND(set_variable(F, v, BOOL_FALSE))
                              /\ Equated(F, v)}

-----------------------------------------------------------------------------
(* Parities *)

RECURSIVE isXORChain(_)
isXORChain(F) ==
  \/ IS_TRUE_FALSE(F)
  \/ thenCase(F) = notCase(elseCase(F)) /\ isXORChain(thenCase(F))

isXOR(F) == ~IS_TRUE_FALSE(F) /\ isXORChain(F) /\ Length(F) > 1

-----------------------------------------------------------------------------
(* Numbers of true variables between two bounds *)

(* Where the then (or else) links lead, and after how many nodes. *)
RECURSIVE Chain(_, _)
Chain(F, val) ==
  IF IS_TRUE_FALSE(F) THEN [end |-> F, length |-> 0]
  ELSE LET rest == Chain(set_variable(F, variable(F), val), val)
       IN  [rest EXCEPT !.length = @ + 1]

ThenChain(F) == Chain(F, BOOL_TRUE)
ElseChain(F) == Chain(F, BOOL_FALSE)

(* The table of MinMaxBDD: entry (i, j) is the function left when i of the *)
(* first j variables of vs are true. *)
MinMaxBDD(vs, min, max) ==
  LET n == Len(vs)
      arr[i \in 0..n + 1, j \in 0..n] ==
        IF j = n THEN IF i \in min..max THEN true_ptr ELSE false_ptr
        ELSE find_or_add_node(vs[j + 1], arr[i + 1, j + 1], arr[i, j + 1])
  IN  IF max < min THEN false_ptr ELSE arr[0, 0]

Descending(S) ==
  [i \in 1..Cardinality(S) |-> CHOOSE v \in S : Cardinality({w \in S : w > v}) = i - 1]

(* isMIN_MAX; its minimum for a chain that ends in true is 0. *)
ChainMax(F) == ThenChain(F).length - 1
ChainMin(F, end) == IF ElseChain(F).end = end THEN Length(F) - ElseChain(F).length + 1
                                              ELSE 0

IsBetween(F, outside, G) ==
  /\ ~IS_TRUE_FALSE(F)
  /\ ThenChain(F).end = outside
  /\ ChainMin(F, outside) <= ChainMax(F)
  /\ G = MinMaxBDD(Descending(Vbles(F)), ChainMin(F, outside), ChainMax(F))

isMIN_MAX(F)     == IsBetween(F, false_ptr, F)
isNEG_MIN_MAX(F) == IsBetween(F, true_ptr, notCase(F))

-----------------------------------------------------------------------------
(* findandset_fnType, with the limits on the length of params.cc; the      *)
(* equality variable is the first one found, in whatever order the list of *)
(* variables has. *)
FunctionTypes(F) ==
  IF isOR(F) THEN {[nType |-> "PLAINOR", equ |-> 0]}
  ELSE IF isXOR(F) THEN {[nType |-> "PLAINXOR", equ |-> 0]}
  ELSE IF EquAND(F) \cup EquOR(F) # {}
  THEN {[nType |-> "AND", equ |-> v] : v \in EquAND(F)}
         \cup {[nType |-> "OR", equ |-> v] : v \in EquOR(F)}
  ELSE IF Length(F) >= 3 /\ isMIN_MAX(F) THEN {[nType |-> "MINMAX", equ |-> 0]}
  ELSE IF Length(F) >= 3 /\ isNEG_MIN_MAX(F) THEN {[nType |-> "NEG_MINMAX", equ |-> 0]}
  ELSE {[nType |-> "UNSURE", equ |-> 0]}
=============================================================================
