--------------------------- MODULE BoolFn_proofs ----------------------------
(***************************************************************************)
(* Lemmas about the operations on Boolean functions, for any number of     *)
(* variables: what setting variables preserves, and what is left of a      *)
(* function once its inferences are taken out.  The proofs about the       *)
(* search rest on these alone.                                             *)
(***************************************************************************)
EXTENDS BoolFn, WellFoundedInduction, TLAPS

(* m satisfies every literal of L. *)
Satisfies(m, L) == \A l \in L : m[l[1]] = l[2]

(* F changes with no variable that p assigns. *)
Settled(F, p) == \A v \in Vbles(F) : p[v] = BOOL_UNKNOWN

-----------------------------------------------------------------------------
(* The three values are different. *)
LEMMA Values ==
  /\ BOOL_UNKNOWN \notin Value
  /\ BOOL_TRUE \in Value /\ BOOL_FALSE \in Value /\ BOOL_TRUE # BOOL_FALSE
  /\ \A b \in Value : b = BOOL_TRUE \/ b = BOOL_FALSE
BY DEF BOOL_UNKNOWN, BOOL_TRUE, BOOL_FALSE, Value

(* Two assignments are equal if they agree everywhere. *)
LEMMA SameAssignment ==
  ASSUME NEW m \in Assignment, NEW k \in Assignment, \A v \in Var : m[v] = k[v]
  PROVE  m = k
BY DEF Assignment

(* Changing the value of one variable. *)
LEMMA FlipType ==
  ASSUME NEW m \in Assignment, NEW v \in Var, NEW b \in Value
  PROVE  /\ [m EXCEPT ![v] = b] \in Assignment
         /\ [m EXCEPT ![v] = b][v] = b
         /\ \A w \in Var : w # v => [m EXCEPT ![v] = b][w] = m[w]
BY DEF Assignment

LEMMA FlipSame ==
  ASSUME NEW m \in Assignment, NEW v \in Var, NEW b \in Value, m[v] = b
  PROVE  [m EXCEPT ![v] = b] = m
BY DEF Assignment

LEMMA FlipTwice ==
  ASSUME NEW m \in Assignment, NEW v \in Var, NEW b \in Value, NEW c \in Value
  PROVE  [[m EXCEPT ![v] = b] EXCEPT ![v] = c] = [m EXCEPT ![v] = c]
BY DEF Assignment

LEMMA FlipOther ==
  ASSUME NEW m \in Assignment, NEW v \in Var, NEW w \in Var, v # w,
         NEW b \in Value, NEW c \in Value
  PROVE  [[m EXCEPT ![w] = c] EXCEPT ![v] = b] = [[m EXCEPT ![v] = b] EXCEPT ![w] = c]
BY DEF Assignment

LEMMA OverrideType ==
  ASSUME NEW m \in Assignment, NEW p \in Partial
  PROVE  /\ Override(m, p) \in Assignment
         /\ \A v \in Var : Override(m, p)[v] = IF p[v] = BOOL_UNKNOWN THEN m[v] ELSE p[v]
<1>1. \A v \in Var : m[v] \in Value /\ (p[v] # BOOL_UNKNOWN => p[v] \in Value)
  BY DEF Assignment, Partial
<1> QED
  BY <1>1 DEF Override, Assignment

(* An assignment is in the cube of p if it agrees with p. *)
LEMMA CubeIs ==
  ASSUME NEW p \in Partial, NEW m \in Assignment
  PROVE  m \in Cube(p) <=> \A v \in Var : p[v] # BOOL_UNKNOWN => m[v] = p[v]
<1>1. /\ Override(m, p) \in Assignment
      /\ \A v \in Var : Override(m, p)[v] = IF p[v] = BOOL_UNKNOWN THEN m[v] ELSE p[v]
  BY OverrideType
<1>2. m \in Cube(p) <=> Override(m, p) = m
  BY DEF Cube
<1>3. Override(m, p) = m <=> \A v \in Var : Override(m, p)[v] = m[v]
  BY <1>1, SameAssignment
<1> QED
  BY <1>1, <1>2, <1>3

(* No cube is empty. *)
LEMMA OverrideInCube ==
  ASSUME NEW p \in Partial, NEW m \in Assignment
  PROVE  Override(m, p) \in Cube(p)
BY OverrideType, CubeIs

(* Assigning one more variable halves a cube. *)
LEMMA CubeGrows ==
  ASSUME NEW p \in Partial, NEW v \in Var, p[v] = BOOL_UNKNOWN, NEW b \in Value
  PROVE  /\ [p EXCEPT ![v] = b] \in Partial
         /\ \A m : m \in Cube([p EXCEPT ![v] = b]) <=> m \in Cube(p) /\ m[v] = b
<1>1. PICK q : q = [p EXCEPT ![v] = b]
  OBVIOUS
<1>2. q \in Partial /\ q[v] = b /\ \A w \in Var : w # v => q[w] = p[w]
  BY <1>1 DEF Partial
<1>3. ASSUME NEW m \in Assignment
      PROVE  m \in Cube(q) <=> m \in Cube(p) /\ m[v] = b
  <2>1. m \in Cube(q) <=> \A w \in Var : q[w] # BOOL_UNKNOWN => m[w] = q[w]
    BY <1>2, CubeIs
  <2>2. m \in Cube(p) <=> \A w \in Var : p[w] # BOOL_UNKNOWN => m[w] = p[w]
    BY CubeIs
  <2>3. b # BOOL_UNKNOWN
    BY Values
  <2> QED
    BY <1>2, <2>1, <2>2, <2>3
<1>4. \A m : m \in Cube(q) => m \in Assignment
  BY DEF Cube
<1>5. \A m : m \in Cube(p) => m \in Assignment
  BY DEF Cube
<1> QED
  BY <1>1, <1>2, <1>3, <1>4, <1>5

LEMMA SomeAssignment == \E m : m \in Assignment
<1>1. [v \in Var |-> BOOL_TRUE] \in Assignment
  BY Values DEF Assignment
<1> QED
  BY <1>1

-----------------------------------------------------------------------------
(* A variable outside the support makes no difference. *)
LEMMA Independent ==
  ASSUME NEW F \in Function, NEW v \in Var, v \notin Vbles(F),
         NEW m \in Assignment, NEW b \in Value
  PROVE  [m EXCEPT ![v] = b] \in F <=> m \in F
<1>1. set_variable(F, v, BOOL_TRUE) = set_variable(F, v, BOOL_FALSE)
  BY DEF Vbles
<1>2. [m EXCEPT ![v] = BOOL_TRUE] \in F <=> [m EXCEPT ![v] = BOOL_FALSE] \in F
  BY <1>1 DEF set_variable
<1>3. m = [m EXCEPT ![v] = BOOL_TRUE] \/ m = [m EXCEPT ![v] = BOOL_FALSE]
  <2>1. m[v] \in Value
    BY DEF Assignment
  <2>2. m = [m EXCEPT ![v] = m[v]]
    BY DEF Assignment
  <2> QED
    BY <2>1, <2>2, Values
<1> QED
  BY <1>2, <1>3, Values

(* ... and one that makes none is outside. *)
LEMMA NotInSupport ==
  ASSUME NEW F \in Function, NEW v \in Var,
         \A m \in Assignment :
           [m EXCEPT ![v] = BOOL_TRUE] \in F <=> [m EXCEPT ![v] = BOOL_FALSE] \in F
  PROVE  v \notin Vbles(F)
BY DEF Vbles, set_variable

(* Setting a variable gives a function of the others. *)
LEMMA SetVariable ==
  ASSUME NEW F \in Function, NEW v \in Var, NEW b \in Value
  PROVE  /\ set_variable(F, v, b) \in Function
         /\ Vbles(set_variable(F, v, b)) \subseteq Vbles(F)
         /\ \A m \in Assignment : m[v] = b => (m \in set_variable(F, v, b) <=> m \in F)
         /\ v \notin Vbles(set_variable(F, v, b))
<1> DEFINE G == set_variable(F, v, b)
<1>1. G \in Function /\ \A m \in Assignment : m \in G <=> [m EXCEPT ![v] = b] \in F
  BY DEF set_variable, Function
<1> HIDE DEF G
<1>2. \A m \in Assignment : m[v] = b => (m \in G <=> m \in F)
  <2> SUFFICES ASSUME NEW m \in Assignment, m[v] = b PROVE m \in G <=> m \in F
    OBVIOUS
  <2>1. [m EXCEPT ![v] = b] = m
    BY FlipSame
  <2> QED
    BY <1>1, <2>1
<1>3. v \notin Vbles(G)
  <2> SUFFICES ASSUME NEW m \in Assignment
               PROVE  [m EXCEPT ![v] = BOOL_TRUE] \in G
                        <=> [m EXCEPT ![v] = BOOL_FALSE] \in G
    BY <1>1, NotInSupport
  <2>1. \A c \in Value : /\ [m EXCEPT ![v] = c] \in Assignment
                         /\ [[m EXCEPT ![v] = c] EXCEPT ![v] = b] = [m EXCEPT ![v] = b]
    BY FlipType, FlipTwice
  <2> QED
    BY <1>1, <2>1, Values
<1>4. ASSUME NEW w \in Var, w \notin Vbles(F) PROVE w \notin Vbles(G)
  <2>1. CASE w = v
    BY <1>3, <2>1
  <2>2. CASE w # v
    <3> SUFFICES ASSUME NEW m \in Assignment
                 PROVE  [m EXCEPT ![w] = BOOL_TRUE] \in G
                          <=> [m EXCEPT ![w] = BOOL_FALSE] \in G
      BY <1>1, NotInSupport
    <3>1. PICK k \in Assignment : k = [m EXCEPT ![v] = b]
      BY FlipType
    <3>2. \A c \in Value : /\ [m EXCEPT ![w] = c] \in Assignment
                           /\ [[m EXCEPT ![w] = c] EXCEPT ![v] = b] = [k EXCEPT ![w] = c]
      BY <2>2, <3>1 DEF Assignment
    <3>3. \A c \in Value : [k EXCEPT ![w] = c] \in F <=> k \in F
      BY <1>4, Independent
    <3> QED
      BY <1>1, <3>2, <3>3, Values
  <2> QED
    BY <2>1, <2>2
<1>5. Vbles(G) \subseteq Vbles(F)
  BY <1>4 DEF Vbles
<1> QED
  BY <1>1, <1>2, <1>3, <1>5 DEF G

(* A nonempty set of numbers has a least one. *)
LEMMA LeastNumber ==
  ASSUME NEW T, T \subseteq Nat, T # {}
  PROVE  \E k \in T : \A j \in T : k <= j
<1>1. PICK k \in T : \A j \in T : ~(<<j, k>> \in OpToRel(<, Nat))
  BY NatLessThanWellFounded, WFMin
<1>2. ASSUME NEW j \in T PROVE k <= j
  <2>1. ~(j < k)
    BY <1>1 DEF OpToRel
  <2> QED
    BY <2>1
<1> QED
  BY <1>2

(* What a function depends on with no variable that p assigns may be       *)
(* overridden all at once: one variable after the other makes no difference*)
LEMMA OverrideIndependent ==
  ASSUME NEW F \in Function, NEW p \in Partial, Settled(F, p),
         NEW m \in Assignment
  PROVE  Override(m, p) \in F <=> m \in F
<1>1. PICK o \in Assignment :
        o = Override(m, p) /\ \A v \in Var : p[v] = BOOL_UNKNOWN => o[v] = m[v]
  BY OverrideType
<1> DEFINE part(k) == [v \in Var |-> IF v <= k THEN o[v] ELSE m[v]]
           T == {k \in 0..NumVars : ~(part(k) \in F <=> m \in F)}
<1>2. NumVars \in Nat /\ Var = 1..NumVars
  BY NumVarsAssumption DEF Var
<1>3. part(0) = m
  BY <1>2 DEF Assignment
<1>4. part(NumVars) = o
  BY <1>2 DEF Assignment
<1>5. ASSUME NEW k \in 1..NumVars
      PROVE  part(k) \in F <=> part(k - 1) \in F
  <2>1. k \in Var /\ \A v \in Var : v <= k <=> (v <= k - 1 \/ v = k)
    BY <1>2
  <2>2. part(k - 1) \in Assignment
    BY DEF Assignment
  <2>3. o[k] \in Value
    BY <2>1 DEF Assignment
  <2>4. part(k) = [part(k - 1) EXCEPT ![k] = o[k]]
    BY <2>1
  <2>5. part(k - 1)[k] = m[k]
    BY <1>2, <2>1
  <2> HIDE DEF part
  <2>8. PICK r \in Assignment : r = part(k - 1)
    BY <2>2
  <2>6. CASE p[k] = BOOL_UNKNOWN
    <3>1. r[k] = o[k]
      BY <1>1, <2>1, <2>5, <2>6, <2>8
    <3>2. [r EXCEPT ![k] = o[k]] = r
      BY <2>1, <2>3, <3>1, FlipSame
    <3> QED
      BY <2>4, <2>8, <3>2
  <2>7. CASE p[k] # BOOL_UNKNOWN
    <3>1. k \notin Vbles(F)
      BY <2>7 DEF Settled
    <3>2. [r EXCEPT ![k] = o[k]] \in F <=> r \in F
      BY <2>1, <2>3, <3>1, Independent
    <3> QED
      BY <2>4, <2>8, <3>2
  <2> QED
    BY <2>6, <2>7
<1> HIDE DEF part
<1>6. T = {}
  <2> SUFFICES ASSUME T # {} PROVE FALSE
    OBVIOUS
  <2>5. T \subseteq Nat
    BY <1>2
  <2>1. PICK k \in T : \A j \in T : k <= j
    <3> HIDE DEF T
    <3> QED
      BY <2>5, LeastNumber
  <2>2. k # 0
    BY <1>3
  <2>3. k \in 1..NumVars /\ k - 1 \in 0..NumVars /\ k - 1 < k
    BY <1>2, <2>2
  <2>4. k - 1 \notin T
    BY <2>1, <2>3
  <2> QED
    BY <1>5, <2>3, <2>4
<1>7. NumVars \notin T
  BY <1>6
<1> QED
  BY <1>1, <1>2, <1>4, <1>7

(* So a settled function is what it was made from, restricted. *)
LEMMA SettledIsRestricted ==
  ASSUME NEW s \in Function, NEW F \in Function, NEW p \in Partial, Settled(s, p),
         \A m \in Cube(p) : m \in s <=> m \in F
  PROVE  s = Restricted(F, p)
<1>1. ASSUME NEW m \in Assignment PROVE m \in s <=> m \in Restricted(F, p)
  <2>1. Override(m, p) \in s <=> m \in s
    BY OverrideIndependent
  <2>2. Override(m, p) \in s <=> Override(m, p) \in F
    BY OverrideInCube
  <2> QED
    BY <2>1, <2>2 DEF Restricted
<1>2. s \subseteq Assignment /\ Restricted(F, p) \subseteq Assignment
  BY DEF Function, Restricted
<1> QED
  BY <1>1, <1>2

-----------------------------------------------------------------------------
(* Restricting a function depends on no further variables. *)
LEMMA RestrictedType ==
  ASSUME NEW F \in Function, NEW p \in Partial
  PROVE  /\ Restricted(F, p) \in Function
         /\ Vbles(Restricted(F, p)) \subseteq Vbles(F)
         /\ \A v \in Var : p[v] # BOOL_UNKNOWN => v \notin Vbles(Restricted(F, p))
<1> DEFINE G == Restricted(F, p)
<1>1. G \in Function /\ \A m \in Assignment : m \in G <=> Override(m, p) \in F
  BY DEF Restricted, Function
<1> HIDE DEF G
<1>2. ASSUME NEW v \in Var, p[v] # BOOL_UNKNOWN PROVE v \notin Vbles(G)
  <2> SUFFICES ASSUME NEW m \in Assignment
               PROVE  [m EXCEPT ![v] = BOOL_TRUE] \in G
                        <=> [m EXCEPT ![v] = BOOL_FALSE] \in G
    BY <1>1, NotInSupport
  <2>1. ASSUME NEW b \in Value
        PROVE  /\ [m EXCEPT ![v] = b] \in Assignment
               /\ Override([m EXCEPT ![v] = b], p) = Override(m, p)
    <3>1. PICK k \in Assignment : k = [m EXCEPT ![v] = b]
      BY FlipType
    <3>2. \A w \in Var : w # v => k[w] = m[w]
      BY <3>1, FlipType
    <3>3. Override(k, p) = Override(m, p)
      BY <1>2, <3>2, OverrideType, SameAssignment
    <3> QED
      BY <3>1, <3>3
  <2> QED
    BY <1>1, <2>1, Values
<1>3. ASSUME NEW v \in Var, v \notin Vbles(F), p[v] = BOOL_UNKNOWN PROVE v \notin Vbles(G)
  <2> SUFFICES ASSUME NEW m \in Assignment
               PROVE  [m EXCEPT ![v] = BOOL_TRUE] \in G
                        <=> [m EXCEPT ![v] = BOOL_FALSE] \in G
    BY <1>1, NotInSupport
  <2>1. PICK o \in Assignment : o = Override(m, p)
    BY OverrideType
  <2>2. ASSUME NEW b \in Value
        PROVE  /\ [m EXCEPT ![v] = b] \in Assignment
               /\ Override([m EXCEPT ![v] = b], p) = [o EXCEPT ![v] = b]
    <3>1. PICK k \in Assignment : k = [m EXCEPT ![v] = b]
      BY FlipType
    <3>2. k[v] = b /\ \A w \in Var : w # v => k[w] = m[w]
      BY <3>1, FlipType
    <3>3. PICK r \in Assignment : r = [o EXCEPT ![v] = b]
      BY FlipType
    <3>4. r[v] = b /\ \A w \in Var : w # v => r[w] = o[w]
      BY <3>3, FlipType
    <3>5. \A w \in Var : Override(k, p)[w] = r[w]
      BY <1>3, <2>1, <3>2, <3>4, OverrideType
    <3>6. Override(k, p) = r
      BY <3>5, OverrideType, SameAssignment
    <3> QED
      BY <3>1, <3>3, <3>6
  <2>3. \A b \in Value : [o EXCEPT ![v] = b] \in F <=> o \in F
    BY <1>3, Independent
  <2> QED
    BY <1>1, <2>2, <2>3, Values
<1>4. Vbles(G) \subseteq Vbles(F)
  BY <1>2, <1>3 DEF Vbles
<1> QED
  BY <1>1, <1>2, <1>4 DEF G

-----------------------------------------------------------------------------
(* The literals that a satisfiable function implies, as an assignment. *)
LEMMA InferencesType ==
  ASSUME NEW G \in Function
  PROVE  /\ AsPartial(Inferences(G)) \in Partial
         /\ Inferences(G) \subseteq Literal
         /\ \A m \in G : Satisfies(m, Inferences(G))
<1>1. AsPartial(Inferences(G)) \in Partial
  BY Values DEF AsPartial, Partial
<1> QED
  BY <1>1 DEF Inferences, Satisfies

LEMMA AsPartialIs ==
  ASSUME NEW L, L \subseteq Literal, NEW m \in Assignment, Satisfies(m, L)
  PROVE  Override(m, AsPartial(L)) = m
<1>1. ASSUME NEW v \in Var
      PROVE  AsPartial(L)[v] = BOOL_UNKNOWN \/ AsPartial(L)[v] = m[v]
  <2>1. <<v, BOOL_TRUE>> \in L => m[v] = BOOL_TRUE
    BY DEF Satisfies
  <2>2. <<v, BOOL_FALSE>> \in L => m[v] = BOOL_FALSE
    BY DEF Satisfies
  <2> QED
    BY <2>1, <2>2 DEF AsPartial
<1>2. AsPartial(L) \in Partial
  BY Values DEF AsPartial, Partial
<1>3. \A v \in Var : Override(m, AsPartial(L))[v] = m[v]
  BY <1>1, <1>2, OverrideType
<1> QED
  BY <1>2, <1>3, OverrideType, SameAssignment

(* Taking the inferences out keeps what a function says about assignments  *)
(* that satisfy them, and leaves none: the state that Smurf transitions go *)
(* to. *)
LEMMA WithoutInferences ==
  ASSUME NEW G \in Function
  PROVE  /\ set_variable_all_infs(G) \in Function
         /\ Vbles(set_variable_all_infs(G)) \subseteq Vbles(G)
         /\ \A m \in Assignment : Satisfies(m, Inferences(G)) =>
              (m \in set_variable_all_infs(G) <=> m \in G)
         /\ G # false_ptr => Normalized(set_variable_all_infs(G))
         /\ G = false_ptr => /\ set_variable_all_infs(G) = false_ptr
                             /\ Inferences(G) = Literal
<1> DEFINE p == AsPartial(Inferences(G))
           H == set_variable_all_infs(G)
<1>1. p \in Partial /\ Inferences(G) \subseteq Literal
      /\ \A m \in G : Satisfies(m, Inferences(G))
  BY InferencesType
<1>2. H = Restricted(G, p)
  BY DEF set_variable_all_infs
<1>3. H \in Function /\ Vbles(H) \subseteq Vbles(G)
  BY <1>1, <1>2, RestrictedType
<1>4. \A m \in Assignment : m \in H <=> Override(m, p) \in G
  BY <1>2 DEF Restricted
<1>5. \A m \in Assignment : Satisfies(m, Inferences(G)) => (m \in H <=> m \in G)
  BY <1>1, <1>4, AsPartialIs
<1>6. G \subseteq Assignment
  BY DEF Function
<1>7. ASSUME G # false_ptr PROVE Normalized(H)
  <2>1. PICK g \in G : TRUE
    BY <1>7 DEF false_ptr
  <2>2. g \in H /\ G \subseteq H
    BY <1>1, <1>5, <1>6
  <2>3. ASSUME NEW l \in Inferences(H) PROVE FALSE
    <3>1. PICK v \in Var, b \in Value : l = <<v, b>>
      BY DEF Inferences, Literal
    <3>2. \A m \in H : m[v] = b
      BY <2>3, <3>1 DEF Inferences
    <3>3. <<v, b>> \in Inferences(G)
      BY <2>2, <3>2 DEF Inferences, Literal
    <3>4. p[v] # BOOL_UNKNOWN
      BY <3>3, Values DEF AsPartial
    <3>5. v \notin Vbles(H)
      BY <1>1, <1>2, <3>4, RestrictedType
    <3>6. PICK c \in Value : c # b
      BY Values
    <3>9. g \in Assignment /\ H \in Function
      BY <1>3, <1>6
    <3>7. [g EXCEPT ![v] = c] \in H <=> g \in H
      BY ONLY <3>5, <3>9, Independent
    <3>8. [g EXCEPT ![v] = c][v] = c
      BY <3>9 DEF Assignment
    <3> QED
      BY <2>2, <3>2, <3>6, <3>7, <3>8
  <2> QED
    BY <2>2, <2>3 DEF Normalized, false_ptr
<1>8. ASSUME G = false_ptr PROVE H = false_ptr /\ Inferences(G) = Literal
  <2>1. H \subseteq Assignment
    BY <1>3 DEF Function
  <2>2. H = false_ptr
    BY <1>4, <1>8, <2>1 DEF false_ptr
  <2>3. Inferences(G) = Literal
    BY <1>8 DEF Inferences, false_ptr
  <2> QED
    BY <2>2, <2>3
<1> HIDE DEF p, H
<1>9. set_variable_all_infs(G) = H
  BY DEF H
<1> QED
  BY <1>3, <1>5, <1>7, <1>8, <1>9

(* The true function depends on nothing. *)
LEMMA TrueSettled == Vbles(true_ptr) = {} /\ true_ptr \in Function /\ true_ptr # false_ptr
<1>1. \A v \in Var, b \in Value : set_variable(true_ptr, v, b) = Assignment
  BY FlipType DEF set_variable, true_ptr
<1>2. Vbles(true_ptr) = {}
  BY <1>1, Values DEF Vbles
<1> QED
  BY <1>2, SomeAssignment DEF true_ptr, false_ptr, Function
=============================================================================
