------------------------ MODULE LemmaBrancher_proofs ------------------------
(***************************************************************************)
(* Theorems about conflict analysis, backjumping and the search with       *)
(* lemmas, for any number of variables and any functions of them.          *)
(***************************************************************************)
EXTENDS LemmaBrancher, BoolFn_proofs, SequenceTheorems, FiniteSetTheorems,
        FunctionTheorems

-----------------------------------------------------------------------------
(* The inductive invariant *)

Level == [nBranchVble : Var, state : [Fn -> Function], path : [Fn -> Lemma]]
Entry == [atom : Var, bWasChoicePoint : BOOLEAN, lemma : Lemma]

Depth == Len(arrBacktrackStack)

At(v)    == arrBacktrackStackIndex[v]
Known(v) == arrSolution[v] # BOOL_UNKNOWN

ChoiceVar(k) == arrChoicePointStack[k].nBranchVble
ChoiceAt(k)  == At(ChoiceVar(k))

TrailOk ==
  /\ arrSolution \in Partial /\ arrBacktrackStack \in Seq(Entry)
  /\ arrBacktrackStackIndex \in [0..NumVars -> Nat] /\ At(0) = 0
  /\ \A v \in Var : IF Known(v) THEN At(v) \in 1..Depth /\ arrBacktrackStack[At(v)].atom = v
                                 ELSE At(v) = NOT_ON_STACK
  /\ \A i \in 1..Depth : /\ At(arrBacktrackStack[i].atom) = i
                         /\ Known(arrBacktrackStack[i].atom)

(* The atom at i follows from its lemma. *)
Reason(i) ==
  LET e == arrBacktrackStack[i]
      this == <<e.atom, arrSolution[e.atom]>>
  IN  this \in e.lemma /\ \A l \in e.lemma \ {this} : IsFalse(l) /\ At(l[1]) < i

ReasonsOk == \A i \in 1..Depth : Chosen(i) \/ Reason(i)

FalseBelow(lits, b)  == \A l \in lits : IsFalse(l) /\ At(l[1]) < b
AgreesBelow(m, b) == \A v \in Var : At(v) < b => m[v] = arrSolution[v]

(* States of the Smurfs and the paths to them are right for the part of    *)
(* the trail before b. *)
StateOk(F, s, path, b) ==
  /\ FalseBelow(path, b)
  /\ \A m \in F : (\A l \in path : m[l[1]] # l[2]) => m \in s
  /\ \A m \in s : AgreesBelow(m, b) => m \in F

StatesOk ==
  LET b == IF pc = "pop" THEN ChoiceAt(Slot) ELSE Depth + 1
  IN  \A f \in Fn : StateOk(problem[f], pCurrentState[f], arrSmurfPath[f], b)

(* Solutions found while a choice holds are found in its branch.           *)
LevelOk(k) ==
  LET c == arrChoicePointStack[k]
      v == c.nBranchVble
  IN  /\ Known(v)
      /\ \A f \in Fn : StateOk(problem[f], c.state[f], c.path[f], At(v))
      /\ \A m \in found : AgreesBelow(m, At(v)) => m[v] = arrSolution[v]

LevelsOk ==
  /\ arrChoicePointStack \in Seq(Level)
  /\ \A k \in 1..Slot : LevelOk(k)
  /\ \A j, k \in 1..Slot : j < k => ChoiceAt(j) < ChoiceAt(k)

Implied(lemma) == \A m \in Models \ found : \E l \in lemma : m[l[1]] = l[2]

ImpliedOk ==
  /\ \A lemma \in cache : Implied(lemma)
  /\ \A i \in 1..Depth : arrBacktrackStack[i].lemma # NO_LEMMA =>
                           Implied(arrBacktrackStack[i].lemma)
  /\ \A i \in 1..Len(pUnitLemmaList) : Implied(pUnitLemmaList[i].lemma)
  /\ \A s \in 0..NumVars : \A i \in 1..Len(unitLemmas[s]) : Implied(unitLemmas[s][i].lemma)

Other(p, l) == l \in p.lemma /\ l[1] # p.nWatchedVble0

(* As long as its second watch was assigned before b, the lemma is unit.   *)
InfoOk(p, b) ==
  /\ \E val \in Value : /\ <<p.nWatchedVble0, val>> \in p.lemma
                        /\ <<p.nWatchedVble0, NEG(val)>> \notin p.lemma
  /\ At(p.nWatchedVble1) < b =>
       \A l \in Literal : Other(p, l) => IsFalse(l) /\ At(l[1]) <= At(p.nWatchedVble1)

(* The lemma made the inference of its first watch. *)
InUse(p) ==
  /\ Known(p.nWatchedVble0)
  /\ arrBacktrackStack[At(p.nWatchedVble0)].lemma = p.lemma
  /\ InfoOk(p, At(p.nWatchedVble0))

Placed(p, s) ==
  /\ InUse(p)
  /\ s > 0 => ChoiceAt(s) < At(p.nWatchedVble0)
  /\ s < Slot => At(p.nWatchedVble0) < ChoiceAt(s + 1)

Distinct(list) ==
  \A i, j \in 1..Len(list) : list[i].nWatchedVble0 = list[j].nWatchedVble0 => i = j

ListOk(s) ==
  /\ s > Slot \/ (s = Slot /\ pc = "pop") => unitLemmas[s] = <<>>
  /\ \A i \in 1..Len(unitLemmas[s]) : Placed(unitLemmas[s][i], s)
  /\ Distinct(unitLemmas[s])

ListsOk ==
  /\ unitLemmas \in [0..NumVars -> Seq(LemmaInfo)]
  /\ \A s \in 0..NumVars : ListOk(s)

(* The lemma of a reversed choice is listed. *)
Made(p, e) == p.nWatchedVble0 = e.atom /\ p.lemma = e.lemma

InLists(e, lists, list) ==
  \/ \E s \in 0..NumVars : \E j \in 1..Len(lists[s]) : Made(lists[s][j], e)
  \/ \E j \in 1..Len(list) : Made(list[j], e)

ReversedOk ==
  \A i \in 1..Depth : arrBacktrackStack[i].bWasChoicePoint =>
                         InLists(arrBacktrackStack[i], unitLemmas, pUnitLemmaList)

(* The literals of the conflict lemma that are yet to be popped.           *)
Live == {l \in arrTempLemma : Known(l[1])}

OnLevelFlagged ==
  {v \in arrLemmaFlag : At(v) \in ChoiceAt(Slot)..Depth}

ConflictOk ==
  /\ arrTempLemma \in Lemma /\ arrUnsetLemmaFlagVars \subseteq Var
  /\ nNumForcedInfsBelowCurrentCP \in 0..NumVars
  /\ arrLemmaFlag = IF pc \in {"backjump", "pop", "flip"}
                    THEN Atoms(arrTempLemma) \cup arrUnsetLemmaFlagVars
                    ELSE IF pc = "done" THEN arrLemmaFlag ELSE {}
  /\ arrLemmaFlag \subseteq Var
  /\ pc \in {"backjump", "pop"} =>
       /\ \A l \in Live : IsFalse(l)
       /\ \A v \in arrUnsetLemmaFlagVars : ~Known(v)
       /\ Implied(Live)
  /\ pc = "backjump" => \/ nOldBacktrackStackIndex = 0 /\ Live = arrTempLemma
                        \/ nOldBacktrackStackIndex = Depth + 1
  /\ pc = "pop" => /\ Slot > 0
                   /\ nOldBacktrackStackIndex = ChoiceAt(Slot)
                   /\ nNumForcedInfsBelowCurrentCP = Cardinality(OnLevelFlagged)

Missed(p) == At(p.nWatchedVble1) > Depth

(* Of two lemmas that could make the same inference one will not be unit:  *)
(* every literal on which the conflict may end is in one of the two.       *)
PairOk(p, r) ==
  \/ Missed(p) \/ Missed(r)
  \/ pc # "flip" /\ \A l \in Live : Other(p, <<l[1], NEG(arrSolution[l[1]])>>)
                                    \/ Other(r, <<l[1], NEG(arrSolution[l[1]])>>)

PendingOne(p) ==
  \/ ~Known(p.nWatchedVble0) /\ InfoOk(p, Depth + 1)
  \/ pc = "pop" /\ InUse(p) /\ ChoiceAt(Slot) < At(p.nWatchedVble0)

PendingOk ==
  /\ pUnitLemmaList \in Seq(LemmaInfo)
  /\ pc = "deduce" => pUnitLemmaList = <<>>
  /\ pc \in {"backjump", "pop", "flip"} =>
       /\ \A i \in 1..Len(pUnitLemmaList) : PendingOne(pUnitLemmaList[i])
       /\ \A i, j \in 1..Len(pUnitLemmaList) :
            i # j /\ pUnitLemmaList[i].nWatchedVble0 = pUnitLemmaList[j].nWatchedVble0 =>
              /\ ~Known(pUnitLemmaList[i].nWatchedVble0)
              /\ PairOk(pUnitLemmaList[i], pUnitLemmaList[j])

FlipOk ==
  pc = "flip" =>
    /\ Len(pUnitLemmaList) > 0 /\ nFlipped \in pUnitLemmaList[1].lemma
    /\ pUnitLemmaList[1].nWatchedVble0 = nFlipped[1]
    /\ ~Missed(pUnitLemmaList[1])
    /\ \A m \in found : AgreesBelow(m, Depth + 1) => m[nFlipped[1]] # nFlipped[2]

FlippedAt == At(nFlipped[1])

(* The first nKept lemmas of the list are those of the atoms from the      *)
(* reversed choice on. *)
KeptOk(i) ==
  /\ At(pUnitLemmaList[i].nWatchedVble0) = FlippedAt + i - 1
  /\ arrBacktrackStack[FlippedAt + i - 1].lemma = pUnitLemmaList[i].lemma
  /\ At(pUnitLemmaList[i].nWatchedVble1) < FlippedAt

UnitOk ==
  pc = "unit" =>
    /\ nFlipped \in Literal /\ Known(nFlipped[1])
    /\ nKept \in 1..Len(pUnitLemmaList) /\ Depth = FlippedAt + nKept - 1
    /\ \A i \in 1..nKept : KeptOk(i)
    /\ \A i \in 1..Len(pUnitLemmaList) :
         InfoOk(pUnitLemmaList[i], FlippedAt) /\ At(pUnitLemmaList[i].nWatchedVble0) >= FlippedAt
    /\ \A i, j \in 1..Len(pUnitLemmaList) :
         i # j /\ pUnitLemmaList[i].nWatchedVble0 = pUnitLemmaList[j].nWatchedVble0 =>
           \/ At(pUnitLemmaList[i].nWatchedVble1) >= FlippedAt
           \/ At(pUnitLemmaList[j].nWatchedVble1) >= FlippedAt
    /\ \A k \in 1..Slot : ChoiceAt(k) < FlippedAt
    /\ \A s \in 0..NumVars : \A i \in 1..Len(unitLemmas[s]) :
         At(unitLemmas[s][i].nWatchedVble0) < FlippedAt

FoundOk ==
  /\ found \subseteq Models
  /\ pc \in {"deduce", "unit"} => \A m \in found : ~AgreesBelow(m, Depth + 1)
  /\ pc # "done" => ret = SOLV_UNKNOWN

TypesOk ==
  /\ problem \in Problems
  /\ pCurrentState \in [Fn -> Function] /\ arrSmurfPath \in [Fn -> Lemma]
  /\ cache \subseteq Lemma
  /\ pc \in {"deduce", "backjump", "pop", "flip", "unit", "done"}

IInv ==
  /\ TypesOk /\ TrailOk /\ ReasonsOk /\ StatesOk /\ LevelsOk /\ ImpliedOk
  /\ ListsOk /\ ReversedOk /\ ConflictOk /\ PendingOk /\ FlipOk /\ UnitOk /\ FoundOk

-----------------------------------------------------------------------------
(* The trail *)

LEMMA Literals ==
  /\ \A l \in Literal : /\ l = <<l[1], l[2]>> /\ l[1] \in Var /\ l[2] \in Value
                        /\ NEG(l[2]) \in Value /\ NEG(l[2]) # l[2]
                        /\ NEG(NEG(l[2])) = l[2]
  /\ \A v \in Var, b \in Value : /\ <<v, b>> \in Literal /\ NEG(b) \in Value
                                 /\ NEG(b) # b /\ NEG(NEG(b)) = b
                                 /\ b # BOOL_UNKNOWN
  /\ \A a, b \in Value : a # b => a = NEG(b)
BY DEF Literal, Value, BOOL_TRUE, BOOL_FALSE, BOOL_UNKNOWN, NEG

LEMMA Vars == Var \subseteq 0..NumVars /\ Var \subseteq Nat /\ 0 \notin Var
BY NumVarsAssumption DEF Var

LEMMA EntryIs ==
  ASSUME NEW e \in Entry
  PROVE  e.atom \in Var /\ e.bWasChoicePoint \in BOOLEAN /\ e.lemma \in Lemma
BY DEF Entry

LEMMA EntryOnTrail ==
  ASSUME TrailOk, NEW i \in 1..Depth
  PROVE  arrBacktrackStack[i] \in Entry /\ arrBacktrackStack[i].atom \in Var
<1>1. arrBacktrackStack \in Seq(Entry)
  BY DEF TrailOk
<1>2. arrBacktrackStack[i] \in Entry
  BY <1>1 DEF Depth
<1> QED
  BY <1>2, EntryIs

LEMMA TrailLength ==
  ASSUME TrailOk
  PROVE  Depth \in Nat /\ Depth <= NumVars
<1>1. Depth \in Nat
  BY DEF TrailOk, Depth
<1> DEFINE atoms == [i \in 1..Depth |-> arrBacktrackStack[i].atom]
<1>2. \A i \in 1..Depth : arrBacktrackStack[i].atom \in Var
  BY EntryOnTrail
<1>3. \A i, j \in 1..Depth : atoms[i] = atoms[j] => i = j
  BY DEF TrailOk
<1>4. atoms \in Injection(1..Depth, Var)
  BY <1>2, <1>3, Fun_IsInj
<1>5. IsFiniteSet(Var) /\ Cardinality(Var) = NumVars
  <2>1. 1 \in Int /\ NumVars \in Int /\ NumVars >= 1
    BY NumVarsAssumption
  <2>2. /\ IsFiniteSet(1..NumVars)
        /\ Cardinality(1..NumVars) = IF 1 > NumVars THEN 0 ELSE NumVars - 1 + 1
    BY <2>1, FS_Interval
  <2> QED
    BY <2>1, <2>2 DEF Var
<1>6. IsFiniteSet(1..Depth) /\ Cardinality(1..Depth) = Depth
  <2>1. /\ IsFiniteSet(1..Depth)
        /\ Cardinality(1..Depth) = IF 1 > Depth THEN 0 ELSE Depth - 1 + 1
    BY <1>1, FS_Interval
  <2> QED
    BY <1>1, <2>1
<1>7. Cardinality(1..Depth) <= Cardinality(Var)
  <2> HIDE DEF atoms
  <2> QED
    BY <1>4, <1>5, FS_Injection
<1> QED
  BY <1>1, <1>5, <1>6, <1>7

LEMMA TrailIs ==
  ASSUME TrailOk
  PROVE  /\ Depth \in Nat /\ Depth <= NumVars
         /\ \A v \in Var : /\ At(v) \in Nat
                           /\ Known(v) <=> At(v) <= Depth
                           /\ Known(v) => /\ At(v) \in 1..Depth /\ arrSolution[v] \in Value
                                          /\ arrBacktrackStack[At(v)].atom = v
                           /\ ~Known(v) => At(v) = NOT_ON_STACK
         /\ \A i \in 1..Depth : /\ arrBacktrackStack[i] \in Entry
                                /\ arrBacktrackStack[i].atom \in Var
                                /\ Known(arrBacktrackStack[i].atom)
                                /\ At(arrBacktrackStack[i].atom) = i
         /\ At(0) = 0 /\ \A v \in 0..NumVars : At(v) \in Nat
<1>1. Depth \in Nat /\ Depth <= NumVars
  BY TrailLength
<1>2. \A v \in 0..NumVars : At(v) \in Nat
  BY DEF TrailOk, At
<1>3. \A i \in 1..Depth : /\ arrBacktrackStack[i] \in Entry
                          /\ arrBacktrackStack[i].atom \in Var
                          /\ Known(arrBacktrackStack[i].atom)
                          /\ At(arrBacktrackStack[i].atom) = i
  BY EntryOnTrail DEF TrailOk
<1>4. NOT_ON_STACK > Depth
  BY <1>1, NumVarsAssumption DEF NOT_ON_STACK
<1>5. \A v \in Var : /\ arrSolution[v] \in Value \cup {BOOL_UNKNOWN}
                     /\ At(v) \in Nat
                     /\ Known(v) => At(v) \in 1..Depth /\ arrBacktrackStack[At(v)].atom = v
                     /\ ~Known(v) => At(v) = NOT_ON_STACK
  BY <1>2, Vars DEF TrailOk, Partial
<1> QED
  BY <1>1, <1>2, <1>3, <1>4, <1>5 DEF Known, TrailOk

(* What was assigned before b is as it was. *)
SameBelow(b) ==
  /\ \A v \in Var : At(v) < b \/ At(v)' < b =>
                      At(v)' = At(v) /\ arrSolution'[v] = arrSolution[v]
  /\ \A i \in 1..Depth : i < b => i \in 1..Depth' /\ arrBacktrackStack'[i] = arrBacktrackStack[i]
  /\ At(0)' = At(0)

NewEntry(lit, was, lemma) == [atom |-> lit[1], bWasChoicePoint |-> was, lemma |-> lemma]

LEMMA NewEntryIs ==
  \A lit, was, lemma : /\ NewEntry(lit, was, lemma).atom = lit[1]
                       /\ NewEntry(lit, was, lemma).bWasChoicePoint = was
                       /\ NewEntry(lit, was, lemma).lemma = lemma
BY DEF NewEntry

LEMMA Inferred ==
  ASSUME TrailOk, NEW lits \in Seq(Literal), NEW was \in BOOLEAN, NEW lemmas,
         \A i, j \in 1..Len(lits) : lits[i][1] = lits[j][1] => i = j,
         \A i \in 1..Len(lits) : ~Known(lits[i][1]) /\ lemmas[i] \in Lemma,
         InferLiterals(lits, was, lemmas)
  PROVE  /\ TrailOk' /\ SameBelow(Depth + 1) /\ Depth' = Depth + Len(lits)
         /\ \A i \in 1..Len(lits) :
              /\ arrBacktrackStack'[Depth + i] = NewEntry(lits[i], was, lemmas[i])
              /\ arrSolution'[lits[i][1]] = lits[i][2]
              /\ arrBacktrackStackIndex'[lits[i][1]] = Depth + i
         /\ \A v \in Var : /\ Known(v) => Known(v)'
                           /\ Known(v)' => Known(v) \/ \E i \in 1..Len(lits) : v = lits[i][1]
<1> DEFINE k == Len(lits)
<1>1. k \in Nat /\ DOMAIN lits = 1..k /\ \A i \in 1..k : lits[i] \in Literal
  OBVIOUS
<1>2. \A i \in 1..k : /\ lits[i][1] \in Var /\ lits[i][2] \in Value
                      /\ lits[i][2] # BOOL_UNKNOWN
  BY <1>1, Literals
<1>3. /\ Depth \in Nat /\ Depth <= NumVars
      /\ \A v \in Var : /\ At(v) \in Nat
                        /\ Known(v) <=> At(v) <= Depth
                        /\ Known(v) => /\ At(v) \in 1..Depth /\ arrSolution[v] \in Value
                                       /\ arrBacktrackStack[At(v)].atom = v
                        /\ ~Known(v) => At(v) = NOT_ON_STACK
      /\ \A i \in 1..Depth : /\ arrBacktrackStack[i] \in Entry
                             /\ arrBacktrackStack[i].atom \in Var
                             /\ Known(arrBacktrackStack[i].atom)
                             /\ At(arrBacktrackStack[i].atom) = i
      /\ At(0) = 0 /\ \A v \in 0..NumVars : At(v) \in Nat
  BY TrailIs
<1>4. \A i \in 1..k : (CHOOSE j \in DOMAIN lits : lits[j][1] = lits[i][1]) = i
  BY <1>1
<1>5. \A i \in 1..k : /\ arrSolution'[lits[i][1]] = lits[i][2]
                      /\ arrBacktrackStackIndex'[lits[i][1]] = Depth + i
  <2> SUFFICES ASSUME NEW i \in 1..k
               PROVE  /\ arrSolution'[lits[i][1]] = lits[i][2]
                      /\ arrBacktrackStackIndex'[lits[i][1]] = Depth + i
    OBVIOUS
  <2>1. PICK v \in Var : v = lits[i][1]
    BY <1>2
  <2>2. (CHOOSE j \in DOMAIN lits : lits[j][1] = v) = i
    BY <1>4, <2>1
  <2>3. \E j \in DOMAIN lits : lits[j][1] = v
    BY <1>1, <2>1
  <2>4. v \in 0..NumVars
    BY Vars
  <2>5. arrSolution'[v] = lits[i][2]
    BY <2>2, <2>3 DEF InferLiterals
  <2>6. arrBacktrackStackIndex'[v] = Depth + i
    BY <2>2, <2>3, <2>4 DEF InferLiterals, Depth
  <2> QED
    BY <2>1, <2>5, <2>6
<1>6. \A v \in 0..NumVars : (\A i \in 1..k : lits[i][1] # v) =>
                               arrBacktrackStackIndex'[v] = arrBacktrackStackIndex[v]
  BY <1>1 DEF InferLiterals
<1>7. \A v \in Var : (\A i \in 1..k : lits[i][1] # v) => arrSolution'[v] = arrSolution[v]
  BY <1>1 DEF InferLiterals
<1> DEFINE entries == [i \in DOMAIN lits |-> NewEntry(lits[i], was, lemmas[i])]
<1>8. \A i \in 1..k : NewEntry(lits[i], was, lemmas[i]) \in Entry
  BY <1>2 DEF NewEntry, Entry
<1>9. entries \in Seq(Entry) /\ Len(entries) = k /\ \A i \in 1..k : entries[i] = NewEntry(lits[i], was, lemmas[i])
  <2> HIDE DEF NewEntry
  <2> QED
    BY <1>1, <1>8
<1>10. arrBacktrackStack' = arrBacktrackStack \o entries
  BY DEF InferLiterals, NewEntry
<1>11. /\ arrBacktrackStack' \in Seq(Entry) /\ Depth' = Depth + k
       /\ \A i \in 1..Depth : arrBacktrackStack'[i] = arrBacktrackStack[i]
       /\ \A i \in 1..k : arrBacktrackStack'[Depth + i] = NewEntry(lits[i], was, lemmas[i])
  <2>1. arrBacktrackStack \in Seq(Entry)
    BY DEF TrailOk
  <2>2. PICK e \in Seq(Entry) : e = entries
    BY <1>9
  <2>3. arrBacktrackStack' = arrBacktrackStack \o e
    BY <1>10, <2>2
  <2>4. Len(e) = k /\ \A i \in 1..k : e[i] = NewEntry(lits[i], was, lemmas[i])
    BY <1>9, <2>2
  <2>5. /\ arrBacktrackStack' \in Seq(Entry)
        /\ Len(arrBacktrackStack') = Len(arrBacktrackStack) + Len(e)
        /\ \A i \in 1..Len(arrBacktrackStack) : arrBacktrackStack'[i] = arrBacktrackStack[i]
        /\ \A i \in 1..Len(e) : arrBacktrackStack'[Len(arrBacktrackStack) + i] = e[i]
    BY <2>1, <2>3
  <2> HIDE DEF entries
  <2> QED
    BY <2>4, <2>5 DEF Depth
<1>12. arrSolution' \in Partial /\ arrBacktrackStackIndex' \in [0..NumVars -> Nat]
  <2>1. \A v \in Var : arrSolution'[v] \in Value \cup {BOOL_UNKNOWN}
    BY <1>2, <1>5, <1>7 DEF TrailOk, Partial
  <2>2. \A v \in 0..NumVars : arrBacktrackStackIndex'[v] \in Nat
    BY <1>1, <1>3, <1>5, <1>6 DEF At
  <2>3. /\ arrSolution' = [v \in Var |-> arrSolution'[v]]
        /\ arrBacktrackStackIndex' = [v \in 0..NumVars |-> arrBacktrackStackIndex'[v]]
    BY DEF InferLiterals
  <2> QED
    BY <2>1, <2>2, <2>3 DEF Partial
<1>13. arrBacktrackStackIndex'[0] = arrBacktrackStackIndex[0]
  BY <1>2, <1>6, Vars, NumVarsAssumption
<1>14. \A v \in Var : /\ Known(v) => /\ Known(v)'
                                     /\ arrBacktrackStackIndex'[v] = At(v)
                                     /\ arrSolution'[v] = arrSolution[v]
                      /\ Known(v)' => Known(v) \/ \E i \in 1..k : v = lits[i][1]
  BY <1>6, <1>7, Vars DEF Known, At
<1>15. \A v \in Var : IF Known(v)' THEN /\ arrBacktrackStackIndex'[v] \in 1..Depth'
                                        /\ arrBacktrackStack'[arrBacktrackStackIndex'[v]].atom = v
                      ELSE arrBacktrackStackIndex'[v] = NOT_ON_STACK
  <2> SUFFICES ASSUME NEW v \in Var
               PROVE  IF Known(v)' THEN /\ arrBacktrackStackIndex'[v] \in 1..Depth'
                                        /\ arrBacktrackStack'[arrBacktrackStackIndex'[v]].atom = v
                      ELSE arrBacktrackStackIndex'[v] = NOT_ON_STACK
    OBVIOUS
  <2>1. CASE Known(v)
    <3>1. /\ Known(v)' /\ arrBacktrackStackIndex'[v] = At(v)
          /\ At(v) \in 1..Depth /\ arrBacktrackStack[At(v)].atom = v
      BY <1>3, <1>14, <2>1
    <3>2. At(v) \in 1..Depth'
      BY ONLY <3>1, <1>11, <1>1, <1>3
    <3> QED
      BY <1>11, <3>1, <3>2
  <2>2. ASSUME NEW i \in 1..k, v = lits[i][1]
        PROVE  Known(v)' /\ arrBacktrackStackIndex'[v] \in 1..Depth'
               /\ arrBacktrackStack'[arrBacktrackStackIndex'[v]].atom = v
    <3>1. arrBacktrackStackIndex'[v] = Depth + i /\ arrSolution'[v] # BOOL_UNKNOWN
      BY <1>2, <1>5, <2>2
    <3>2. Depth + i \in 1..Depth'
      BY ONLY <1>11, <1>1, <1>3, i \in 1..k
    <3>3. arrBacktrackStack'[Depth + i].atom = v
      <4>1. arrBacktrackStack'[Depth + i] = NewEntry(lits[i], was, lemmas[i])
        BY <1>11
      <4> QED
        BY <4>1, <2>2, NewEntryIs
    <3> QED
      BY <3>1, <3>2, <3>3 DEF Known
  <2>3. CASE ~Known(v) /\ \A i \in 1..k : v # lits[i][1]
    BY <1>3, <1>6, <1>14, <2>3, Vars DEF At
  <2> QED
    BY <2>1, <2>2, <2>3
<1>16. \A i \in 1..Depth' : /\ arrBacktrackStackIndex'[arrBacktrackStack'[i].atom] = i
                            /\ arrSolution'[arrBacktrackStack'[i].atom] # BOOL_UNKNOWN
  <2> SUFFICES ASSUME NEW i \in 1..Depth'
               PROVE  /\ arrBacktrackStackIndex'[arrBacktrackStack'[i].atom] = i
                      /\ arrSolution'[arrBacktrackStack'[i].atom] # BOOL_UNKNOWN
    OBVIOUS
  <2>1. CASE i <= Depth
    <3>1. i \in 1..Depth
      BY <1>3, <1>11, <1>1, <2>1
    <3>2. PICK v \in Var : v = arrBacktrackStack'[i].atom /\ Known(v) /\ At(v) = i
      BY <1>3, <1>11, <3>1
    <3>3. Known(v)' /\ arrBacktrackStackIndex'[v] = i
      BY <1>14, <3>2
    <3> QED
      BY <3>2, <3>3 DEF Known
  <2>2. CASE i > Depth
    <3>1. PICK j \in 1..k : i = Depth + j
      <4>1. PICK j : j = i - Depth
        OBVIOUS
      <4>2. Depth \in Nat /\ k \in Nat /\ i \in 1..(Depth + k) /\ i > Depth
        BY <1>1, <1>3, <1>11, <2>2
      <4>3. j \in 1..k /\ i = Depth + j
        BY ONLY <4>1, <4>2
      <4> QED
        BY <4>3
    <3>2. arrBacktrackStack'[i].atom = lits[j][1]
      <4>1. arrBacktrackStack'[i] = NewEntry(lits[j], was, lemmas[j])
        BY <1>11, <3>1
      <4> QED
        BY <4>1, NewEntryIs
    <3>3. Known(lits[j][1])'
      BY <1>2, <1>5 DEF Known
    <3> QED
      BY <1>5, <3>1, <3>2, <3>3 DEF Known
  <2> QED
    BY <1>3, <1>11, <1>1, <2>1, <2>2
<1>17. TrailOk'
  <2>1. arrBacktrackStackIndex'[0] = 0
    BY <1>3, <1>13 DEF At
  <2> QED
    BY <1>11, <1>12, <1>15, <1>16, <2>1 DEF TrailOk, At, Known, Depth
<1>18. SameBelow(Depth + 1)
  <2>1. ASSUME NEW v \in Var, At(v) < Depth + 1 \/ At(v)' < Depth + 1
        PROVE  At(v)' = At(v) /\ arrSolution'[v] = arrSolution[v]
    <3>1. CASE Known(v)
      BY <1>14, <3>1 DEF At
    <3>2. CASE ~Known(v) /\ \A i \in 1..k : v # lits[i][1]
      BY <1>6, <1>7, <3>2, Vars DEF At
    <3>3. ASSUME NEW i \in 1..k, v = lits[i][1], ~Known(v) PROVE FALSE
      <4>1. At(v)' = Depth + i
        BY <1>5, <3>3 DEF At
      <4>2. ~(At(v) <= Depth) /\ At(v) \in Nat
        BY <1>3, <3>3
      <4> QED
        BY ONLY <1>1, <1>3, <2>1, <4>1, <4>2, i \in 1..k
    <3> QED
      BY <3>1, <3>2, <3>3
  <2>2. \A i \in 1..Depth : i \in 1..Depth'
    BY <1>1, <1>3, <1>11
  <2> QED
    BY <1>11, <1>13, <2>1, <2>2 DEF SameBelow, At
<1> QED
  BY <1>5, <1>11, <1>14, <1>17, <1>18

LEMMA InferredOne ==
  ASSUME TrailOk, NEW lit \in Literal, NEW was \in BOOLEAN, NEW lemma \in Lemma,
         ~Known(lit[1]), InferLiterals(<<lit>>, was, <<lemma>>)
  PROVE  /\ TrailOk' /\ SameBelow(Depth + 1) /\ Depth' = Depth + 1
         /\ arrBacktrackStack'[Depth + 1] = NewEntry(lit, was, lemma)
         /\ arrSolution'[lit[1]] = lit[2] /\ At(lit[1])' = Depth + 1
         /\ Known(lit[1])'
         /\ \A v \in Var : v # lit[1] => Known(v)' = Known(v) /\ At(v)' = At(v)
<1>1. PICK lits : lits = <<lit>>
  OBVIOUS
<1>2. PICK lemmas : lemmas = <<lemma>>
  OBVIOUS
<1>3. lits \in Seq(Literal) /\ Len(lits) = 1 /\ lits[1] = lit /\ lemmas[1] = lemma
  BY <1>1, <1>2
<1>4. \A i \in 1..Len(lits) : i = 1
  BY <1>3
<1>5. /\ TrailOk' /\ SameBelow(Depth + 1) /\ Depth' = Depth + Len(lits)
      /\ \A i \in 1..Len(lits) :
           /\ arrBacktrackStack'[Depth + i] = NewEntry(lits[i], was, lemmas[i])
           /\ arrSolution'[lits[i][1]] = lits[i][2]
           /\ arrBacktrackStackIndex'[lits[i][1]] = Depth + i
      /\ \A v \in Var : /\ Known(v) => Known(v)'
                        /\ Known(v)' => Known(v) \/ \E i \in 1..Len(lits) : v = lits[i][1]
  <2>1. InferLiterals(lits, was, lemmas)
    BY <1>1, <1>2
  <2>2. \A i, j \in 1..Len(lits) : lits[i][1] = lits[j][1] => i = j
    BY <1>4
  <2>3. \A i \in 1..Len(lits) : ~Known(lits[i][1]) /\ lemmas[i] \in Lemma
    BY <1>3, <1>4
  <2> QED
    BY <1>3, <2>1, <2>2, <2>3, Inferred
<1>6. 1 \in 1..Len(lits)
  BY <1>3
<1>7. arrSolution'[lit[1]] = lit[2] /\ At(lit[1])' = Depth + 1
  BY <1>3, <1>5, <1>6 DEF At
<1>8. Known(lit[1])'
  BY <1>7, Literals DEF Known
<1>9. \A v \in Var : v # lit[1] => (Known(v)' <=> Known(v))
  BY <1>3, <1>4, <1>5
<1>10. \A v \in Var : v # lit[1] => At(v)' = At(v)
  <2>1. \A v \in Var : Known(v) => At(v) < Depth + 1
    BY TrailIs
  <2>2. \A v \in Var : ~Known(v) => At(v) = NOT_ON_STACK
    BY TrailIs
  <2>3. \A v \in Var : ~Known(v)' => At(v)' = NOT_ON_STACK
    BY <1>5 DEF TrailOk, NOT_ON_STACK
  <2> QED
    BY <1>5, <1>9, <2>1, <2>2, <2>3 DEF SameBelow
<1> QED
  BY <1>3, <1>5, <1>6, <1>7, <1>8, <1>9, <1>10 DEF Known

LEMMA FrontIs ==
  ASSUME NEW D, NEW t \in Seq(D), Len(t) > 0
  PROVE  /\ Front(t) \in Seq(D) /\ Len(Front(t)) = Len(t) - 1
         /\ \A i \in 1..Len(t) - 1 : Front(t)[i] = t[i]
<1>1. PICK k \in Nat : k = Len(t) - 1
  OBVIOUS
<1>2. \A i \in 1..k : t[i] \in D
  BY <1>1
<1>3. /\ SubSeq(t, 1, k) \in Seq(D)
      /\ Len(SubSeq(t, 1, k)) = IF 1 <= k THEN k - 1 + 1 ELSE 0
      /\ \A i \in 1..k - 1 + 1 : SubSeq(t, 1, k)[i] = t[1 + i - 1]
  BY <1>2, SubSeqProperties
<1>4. 1..k - 1 + 1 = 1..k /\ \A i \in 1..k : 1 + i - 1 = i
  BY <1>1
<1>5. Len(SubSeq(t, 1, k)) = k
  BY <1>1, <1>3
<1> QED
  BY <1>1, <1>3, <1>4, <1>5 DEF Front

LEMMA Popped ==
  ASSUME TrailOk, Depth > 0, NEW atom, atom = arrBacktrackStack[Depth].atom,
         arrBacktrackStack' = Front(arrBacktrackStack),
         arrBacktrackStackIndex' = [arrBacktrackStackIndex EXCEPT ![atom] = NOT_ON_STACK],
         arrSolution' = [arrSolution EXCEPT ![atom] = BOOL_UNKNOWN]
  PROVE  /\ TrailOk' /\ SameBelow(Depth) /\ Depth' = Depth - 1
         /\ atom \in Var /\ At(atom) = Depth /\ Known(atom)
         /\ ~Known(atom)' /\ At(atom)' = NOT_ON_STACK
         /\ \A v \in Var : v # atom => /\ Known(v)' = Known(v) /\ At(v)' = At(v)
                                       /\ arrSolution'[v] = arrSolution[v]
                                       /\ Known(v) => At(v) < Depth
<1>1. /\ Depth \in Nat /\ Depth <= NumVars
      /\ \A v \in Var : /\ At(v) \in Nat
                        /\ Known(v) <=> At(v) <= Depth
                        /\ Known(v) => /\ At(v) \in 1..Depth /\ arrSolution[v] \in Value
                                       /\ arrBacktrackStack[At(v)].atom = v
                        /\ ~Known(v) => At(v) = NOT_ON_STACK
      /\ \A i \in 1..Depth : /\ arrBacktrackStack[i] \in Entry
                             /\ arrBacktrackStack[i].atom \in Var
                             /\ Known(arrBacktrackStack[i].atom)
                             /\ At(arrBacktrackStack[i].atom) = i
      /\ At(0) = 0 /\ \A v \in 0..NumVars : At(v) \in Nat
  BY TrailIs
<1>2. Depth \in 1..Depth
  BY <1>1
<1>3. atom \in Var /\ At(atom) = Depth /\ Known(atom) /\ atom # 0
  BY <1>1, <1>2, Vars
<1>4. /\ arrBacktrackStack' \in Seq(Entry) /\ Depth' = Depth - 1
      /\ \A i \in 1..Depth' : arrBacktrackStack'[i] = arrBacktrackStack[i]
  <2>1. arrBacktrackStack \in Seq(Entry) /\ Len(arrBacktrackStack) > 0
    BY DEF TrailOk, Depth
  <2>2. PICK t \in Seq(Entry) : t = arrBacktrackStack /\ Len(t) > 0
    BY <2>1
  <2>3. /\ Front(t) \in Seq(Entry) /\ Len(Front(t)) = Len(t) - 1
        /\ \A i \in 1..Len(t) - 1 : Front(t)[i] = t[i]
    BY <2>2, FrontIs
  <2> QED
    BY <2>2, <2>3 DEF Depth
<1>5. \A v \in Var : v # atom => At(v)' = At(v) /\ arrSolution'[v] = arrSolution[v]
  BY Vars DEF TrailOk, Partial, At
<1>6. At(atom)' = NOT_ON_STACK /\ arrSolution'[atom] = BOOL_UNKNOWN
  BY <1>3, Vars DEF TrailOk, Partial, At
<1>7. At(0)' = At(0)
  BY <1>3, NumVarsAssumption DEF TrailOk, At
<1>8. \A v \in Var : v # atom => (Known(v)' <=> Known(v))
  BY <1>5 DEF Known
<1>9. \A v \in Var : v # atom /\ Known(v) => At(v) \in 1..Depth'
  <2> SUFFICES ASSUME NEW v \in Var, v # atom, Known(v) PROVE At(v) \in 1..Depth'
    OBVIOUS
  <2>1. At(v) \in 1..Depth /\ At(v) # Depth
    BY <1>1
  <2> QED
    BY ONLY <2>1, <1>1, <1>4
<1>10. \A i \in 1..Depth' : i \in 1..Depth /\ i # Depth /\ i < Depth
  BY ONLY <1>1, <1>4
<1>11. TrailOk'
  <2>1. arrSolution' \in Partial /\ arrBacktrackStackIndex' \in [0..NumVars -> Nat]
    <3>1. /\ arrSolution \in [Var -> Value \cup {BOOL_UNKNOWN}]
          /\ arrBacktrackStackIndex \in [0..NumVars -> Nat]
      BY DEF TrailOk, Partial
    <3>2. NOT_ON_STACK \in Nat
      BY NumVarsAssumption DEF NOT_ON_STACK
    <3> QED
      BY <3>1, <3>2 DEF Partial
  <2>2. \A v \in Var : IF Known(v)' THEN /\ arrBacktrackStackIndex'[v] \in 1..Depth'
                                         /\ arrBacktrackStack'[arrBacktrackStackIndex'[v]].atom = v
                       ELSE arrBacktrackStackIndex'[v] = NOT_ON_STACK
    <3> SUFFICES ASSUME NEW v \in Var
                 PROVE  IF Known(v)' THEN /\ arrBacktrackStackIndex'[v] \in 1..Depth'
                                          /\ arrBacktrackStack'[arrBacktrackStackIndex'[v]].atom = v
                        ELSE arrBacktrackStackIndex'[v] = NOT_ON_STACK
      OBVIOUS
    <3>1. CASE v = atom
      BY <1>6, <3>1 DEF Known, At
    <3>2. CASE v # atom
      <4>1. arrBacktrackStackIndex'[v] = At(v) /\ (Known(v)' <=> Known(v))
        BY <1>5, <1>8, <3>2 DEF At
      <4> QED
        BY <1>1, <1>4, <1>9, <3>2, <4>1
    <3> QED
      BY <3>1, <3>2
  <2>3. \A i \in 1..Depth' : /\ arrBacktrackStackIndex'[arrBacktrackStack'[i].atom] = i
                             /\ arrSolution'[arrBacktrackStack'[i].atom] # BOOL_UNKNOWN
    <3> SUFFICES ASSUME NEW i \in 1..Depth'
                 PROVE  /\ arrBacktrackStackIndex'[arrBacktrackStack'[i].atom] = i
                        /\ arrSolution'[arrBacktrackStack'[i].atom] # BOOL_UNKNOWN
      OBVIOUS
    <3>1. PICK v \in Var : v = arrBacktrackStack'[i].atom /\ Known(v) /\ At(v) = i
      BY <1>1, <1>4, <1>10
    <3>2. v # atom
      BY <1>3, <1>10, <3>1
    <3> QED
      BY <1>5, <3>1, <3>2 DEF Known, At
  <2>4. arrBacktrackStackIndex'[0] = 0
    BY <1>1, <1>7 DEF At
  <2> QED
    BY <1>4, <2>1, <2>2, <2>3, <2>4 DEF TrailOk, At, Known, Depth
<1>12. SameBelow(Depth)
  <2>1. ASSUME NEW v \in Var, At(v) < Depth \/ At(v)' < Depth
        PROVE  At(v)' = At(v) /\ arrSolution'[v] = arrSolution[v]
    <3>1. NOT_ON_STACK > Depth /\ NOT_ON_STACK \in Nat
      BY <1>1, NumVarsAssumption DEF NOT_ON_STACK
    <3>2. v # atom
      BY <1>1, <1>3, <1>6, <2>1, <3>1
    <3> QED
      BY <1>5, <3>2
  <2>2. \A i \in 1..Depth : i < Depth => i \in 1..Depth'
    BY ONLY <1>1, <1>4
  <2> QED
    BY <1>4, <1>7, <2>1, <2>2 DEF SameBelow
<1>13. \A v \in Var : v # atom /\ Known(v) => At(v) < Depth
  BY <1>9, <1>10
<1> QED
  BY <1>3, <1>4, <1>5, <1>6, <1>8, <1>11, <1>12, <1>13 DEF Known

-----------------------------------------------------------------------------
(* What depends only on the part of the trail that stays *)

LEMMA AgreesKept ==
  ASSUME TrailOk, TrailOk', NEW b, SameBelow(b), NEW c \in Nat, NEW d \in Nat, c <= d,
         b \in Nat, c <= b, NEW m, AgreesBelow(m, d)'
  PROVE  AgreesBelow(m, c)
<1> SUFFICES ASSUME NEW v \in Var, At(v) < c PROVE m[v] = arrSolution[v]
  BY DEF AgreesBelow
<1>1. At(v) \in Nat
  BY TrailIs
<1>2. At(v) < b
  BY ONLY <1>1, At(v) < c, c <= b, c \in Nat, b \in Nat
<1>3. At(v)' = At(v) /\ arrSolution'[v] = arrSolution[v]
  BY <1>2 DEF SameBelow
<1>4. At(v)' < d
  BY ONLY <1>1, <1>3, At(v) < c, c <= d, c \in Nat, d \in Nat
<1> QED
  BY <1>3, <1>4 DEF AgreesBelow

LEMMA FalseKept ==
  ASSUME TrailOk, TrailOk', NEW b, SameBelow(b), NEW c \in Nat, NEW d \in Nat, c <= d,
         b \in Nat, c <= b, NEW l \in Literal, IsFalse(l), At(l[1]) < c
  PROVE  IsFalse(l)' /\ At(l[1])' < d /\ At(l[1])' = At(l[1])
<1>1. l[1] \in Var /\ At(l[1]) \in Nat
  BY TrailIs, Literals
<1>2. At(l[1]) < b
  BY ONLY <1>1, At(l[1]) < c, c <= b, c \in Nat, b \in Nat
<1>3. At(l[1])' = At(l[1]) /\ arrSolution'[l[1]] = arrSolution[l[1]]
  BY <1>1, <1>2 DEF SameBelow
<1>4. At(l[1])' < d
  BY ONLY <1>1, <1>3, At(l[1]) < c, c <= d, c \in Nat, d \in Nat
<1> QED
  BY <1>3, <1>4 DEF IsFalse

LEMMA StateKept ==
  ASSUME TrailOk, TrailOk', NEW b, SameBelow(b), NEW c \in Nat, NEW d \in Nat, c <= d,
         b \in Nat, c <= b, NEW F, NEW s, NEW path \in Lemma, StateOk(F, s, path, c)
  PROVE  StateOk(F, s, path, d)'
<1>1. \A l \in path : l \in Literal
  BY DEF Lemma
<1>2. \A l \in path : IsFalse(l)' /\ At(l[1])' < d
  BY <1>1, FalseKept DEF StateOk, FalseBelow
<1>3. \A m \in s : AgreesBelow(m, d)' => m \in F
  BY AgreesKept DEF StateOk
<1> QED
  BY <1>2, <1>3 DEF StateOk, FalseBelow

LEMMA ReasonKept ==
  ASSUME TrailOk, TrailOk', NEW b \in Nat, SameBelow(b), NEW i \in 1..Depth, i < b, Reason(i)
  PROVE  Reason(i)'
<1>1. PICK e \in Entry : e = arrBacktrackStack[i] /\ At(e.atom) = i
  BY TrailIs
<1>2. e.atom \in Var /\ e.lemma \in Lemma /\ \A l \in e.lemma : l \in Literal
  BY EntryIs DEF Lemma
<1>3. arrBacktrackStack'[i] = e
  BY <1>1 DEF SameBelow
<1>4. arrSolution'[e.atom] = arrSolution[e.atom]
  BY <1>1, <1>2 DEF SameBelow
<1>5. PICK this : this = <<e.atom, arrSolution[e.atom]>>
  OBVIOUS
<1>6. this \in e.lemma /\ \A l \in e.lemma \ {this} : IsFalse(l) /\ At(l[1]) < i
  BY <1>1, <1>5 DEF Reason
<1>7. i \in Nat /\ i <= b
  OBVIOUS
<1>8. \A l \in e.lemma \ {this} : IsFalse(l)' /\ At(l[1])' < i
  BY <1>2, <1>6, <1>7, FalseKept
<1>9. this = <<e.atom, arrSolution'[e.atom]>>
  BY <1>4, <1>5
<1> QED
  BY <1>3, <1>6, <1>8, <1>9 DEF Reason

LEMMA InfoKept ==
  ASSUME TrailOk, TrailOk', NEW b \in Nat, SameBelow(b), NEW c \in Nat, c <= b,
         NEW p \in LemmaInfo, InfoOk(p, c)
  PROVE  InfoOk(p, c)'
<1>1. /\ p.nWatchedVble0 \in Var /\ p.nWatchedVble1 \in 0..NumVars /\ p.lemma \in Lemma
  BY DEF LemmaInfo
<1>2. At(p.nWatchedVble1)' < c => /\ At(p.nWatchedVble1)' = At(p.nWatchedVble1)
                                  /\ At(p.nWatchedVble1) \in Nat
  <2> SUFFICES ASSUME At(p.nWatchedVble1)' < c
               PROVE  At(p.nWatchedVble1)' = At(p.nWatchedVble1)
    BY <1>1, TrailIs
  <2>1. At(p.nWatchedVble1)' \in Nat
    BY <1>1 DEF TrailOk, At
  <2>2. At(p.nWatchedVble1)' < b
    BY ONLY <2>1, At(p.nWatchedVble1)' < c, c <= b, c \in Nat, b \in Nat
  <2>3. p.nWatchedVble1 \in Var \/ p.nWatchedVble1 = 0
    BY <1>1 DEF Var
  <2> QED
    BY <2>2, <2>3 DEF SameBelow
<1>3. ASSUME At(p.nWatchedVble1)' < c, NEW l \in Literal, Other(p, l)
      PROVE  IsFalse(l)' /\ At(l[1])' <= At(p.nWatchedVble1)'
  <2>1. IsFalse(l) /\ At(l[1]) <= At(p.nWatchedVble1) /\ At(p.nWatchedVble1) < c
    BY <1>2, <1>3 DEF InfoOk
  <2>2. l[1] \in Var /\ At(l[1]) \in Nat
    BY Literals, TrailIs
  <2>3. At(l[1]) < c
    <3>1. PICK w \in Nat : w = At(p.nWatchedVble1)
      BY <1>1, TrailIs
    <3> QED
      BY <2>1, <2>2, <3>1
  <2>4. c <= c
    OBVIOUS
  <2>5. IsFalse(l)' /\ At(l[1])' = At(l[1])
    BY <2>1, <2>3, <2>4, FalseKept
  <2> QED
    BY <1>2, <1>3, <2>1, <2>5
<1> QED
  BY <1>3 DEF InfoOk, Other

LEMMA InUseKept ==
  ASSUME TrailOk, TrailOk', NEW b \in Nat, SameBelow(b), NEW p \in LemmaInfo, InUse(p),
         At(p.nWatchedVble0) < b
  PROVE  InUse(p)' /\ At(p.nWatchedVble0)' = At(p.nWatchedVble0)
<1>1. p.nWatchedVble0 \in Var
  BY DEF LemmaInfo
<1>2. PICK v \in Var, c \in Nat : v = p.nWatchedVble0 /\ c = At(v)
  BY <1>1, TrailIs
<1>3. At(v)' = c /\ arrSolution'[v] = arrSolution[v] /\ c < b
  BY <1>2 DEF SameBelow
<1>4. Known(v)
  BY <1>2 DEF InUse
<1>5. c \in 1..Depth
  BY <1>2, <1>4, TrailIs
<1>6. arrBacktrackStack'[c] = arrBacktrackStack[c]
  BY <1>3, <1>5 DEF SameBelow
<1>7. InfoOk(p, c)'
  BY <1>2, <1>3, InfoKept DEF InUse
<1> QED
  BY <1>2, <1>3, <1>4, <1>6, <1>7 DEF InUse, Known, At

-----------------------------------------------------------------------------
(* Parts of the invariant in steps that assign or unassign atoms *)

LEMMA LevelIs ==
  ASSUME TrailOk, LevelsOk, NEW k \in 1..Slot
  PROVE  /\ Slot \in Nat /\ arrChoicePointStack[k] \in Level
         /\ ChoiceVar(k) \in Var /\ Known(ChoiceVar(k)) /\ ChoiceAt(k) \in 1..Depth
         /\ arrChoicePointStack[k].state \in [Fn -> Function]
         /\ arrChoicePointStack[k].path \in [Fn -> Lemma]
         /\ arrBacktrackStack[ChoiceAt(k)].atom = ChoiceVar(k)
<1>1. arrChoicePointStack \in Seq(Level)
  BY DEF LevelsOk
<1>2. Slot \in Nat /\ arrChoicePointStack[k] \in Level
  BY <1>1 DEF Slot
<1>3. PICK c \in Level : c = arrChoicePointStack[k]
  BY <1>2
<1>4. c.nBranchVble \in Var /\ c.state \in [Fn -> Function] /\ c.path \in [Fn -> Lemma]
  BY DEF Level
<1>5. Known(c.nBranchVble)
  BY <1>3 DEF LevelsOk, LevelOk
<1>6. At(c.nBranchVble) \in 1..Depth /\ arrBacktrackStack[At(c.nBranchVble)].atom = c.nBranchVble
  BY <1>4, <1>5, TrailIs
<1> QED
  BY <1>2, <1>3, <1>4, <1>5, <1>6 DEF ChoiceVar, ChoiceAt

(* There are at most as many choices as atoms.                             *)
LEMMA SlotBounded ==
  ASSUME TrailOk, LevelsOk
  PROVE  Slot \in Nat /\ Slot <= Depth /\ Slot <= NumVars
<1>1. Slot \in Nat
  BY DEF LevelsOk, Slot
<1>2. Depth \in Nat /\ Depth <= NumVars
  BY TrailLength
<1>3. PICK T : T = {k \in 1..Slot : ChoiceAt(k) < k}
  OBVIOUS
<1>4. T = {}
  <2> SUFFICES ASSUME T # {} PROVE FALSE
    OBVIOUS
  <2>1. T \subseteq Nat
    BY <1>3
  <2>2. PICK k \in T : \A j \in T : k <= j
    BY <2>1, LeastNumber
  <2>3. k \in 1..Slot /\ ChoiceAt(k) < k /\ ChoiceAt(k) \in 1..Depth
    BY <1>3, <2>2, LevelIs
  <2>4. PICK j \in Int : j = k - 1
    BY <2>3
  <2>5. j \in 1..Slot /\ j < k
    BY ONLY <1>1, <1>2, <2>3, <2>4
  <2>6. ChoiceAt(j) < ChoiceAt(k) /\ ChoiceAt(j) \in 1..Depth
    BY <2>3, <2>5, LevelIs DEF LevelsOk
  <2>7. ChoiceAt(j) < j
    BY ONLY <2>3, <2>4, <2>6, <1>2, <2>5
  <2>8. j \in T
    BY <1>3, <2>5, <2>7
  <2> QED
    BY <2>2, <2>4, <2>5, <2>8
<1>5. Slot <= Depth
  <2> SUFFICES ASSUME Slot > 0 PROVE Slot <= Depth
    BY <1>1, <1>2
  <2>1. Slot \in 1..Slot
    BY <1>1
  <2>2. ChoiceAt(Slot) \in 1..Depth /\ ~(ChoiceAt(Slot) < Slot)
    BY <1>3, <1>4, <2>1, LevelIs
  <2> QED
    BY ONLY <1>1, <1>2, <2>2
<1> QED
  BY <1>1, <1>2, <1>5, NumVarsAssumption

LEMMA LevelKept ==
  ASSUME TrailOk, TrailOk', NEW b \in Nat, SameBelow(b), LevelsOk, NEW k \in 1..Slot,
         ChoiceAt(k) < b, UNCHANGED problem,
         \A m \in found' \ found : m[ChoiceVar(k)] = arrSolution[ChoiceVar(k)],
         arrChoicePointStack'[k] = arrChoicePointStack[k]
  PROVE  LevelOk(k)' /\ ChoiceAt(k)' = ChoiceAt(k) /\ ChoiceVar(k)' = ChoiceVar(k)
<1>1. PICK c \in Level : c = arrChoicePointStack[k]
  BY LevelIs
<1>2. PICK v \in Var, a \in Nat : v = c.nBranchVble /\ a = At(v)
  BY <1>1, TrailIs DEF Level
<1>3. a < b /\ a <= b /\ a <= a
  BY <1>1, <1>2 DEF ChoiceAt, ChoiceVar
<1>4. At(v)' = a /\ arrSolution'[v] = arrSolution[v]
  BY <1>2, <1>3 DEF SameBelow
<1>5. /\ Known(v)
      /\ \A f \in Fn : StateOk(problem[f], c.state[f], c.path[f], a)
      /\ \A m \in found : AgreesBelow(m, a) => m[v] = arrSolution[v]
  BY <1>1, <1>2 DEF LevelsOk, LevelOk
<1>6. \A f \in Fn : c.path[f] \in Lemma
  BY DEF Level
<1>7. \A f \in Fn : StateOk(problem[f], c.state[f], c.path[f], a)'
  <2> SUFFICES ASSUME NEW f \in Fn PROVE StateOk(problem[f], c.state[f], c.path[f], a)'
    OBVIOUS
  <2>1. PICK path \in Lemma : path = c.path[f]
    BY <1>6
  <2>2. PICK F, s : F = problem[f] /\ s = c.state[f]
    OBVIOUS
  <2>3. StateOk(F, s, path, a)'
    BY <1>3, <1>5, <2>1, <2>2, StateKept
  <2> QED
    BY <2>1, <2>2, <2>3
<1>8. \A m \in found' : AgreesBelow(m, a)' => m[v] = arrSolution'[v]
  <2>1. \A m \in found' \ found : m[v] = arrSolution[v]
    BY <1>1, <1>2 DEF ChoiceVar
  <2> QED
    BY <1>3, <1>4, <1>5, <2>1, AgreesKept
<1>9. arrChoicePointStack'[k] = c
  BY <1>1
<1>10. Known(v)'
  BY <1>4, <1>5 DEF Known
<1>11. LevelOk(k)'
  BY <1>2, <1>4, <1>7, <1>8, <1>9, <1>10 DEF LevelOk
<1> QED
  BY <1>1, <1>2, <1>4, <1>9, <1>11 DEF ChoiceAt, ChoiceVar, At

LEMMA ReasonsKept ==
  ASSUME TrailOk, TrailOk', NEW b \in Nat, SameBelow(b), LevelsOk, ReasonsOk,
         \A k \in 1..Slot : ChoiceAt(k) < b =>
           k \in 1..Slot' /\ arrChoicePointStack'[k] = arrChoicePointStack[k]
  PROVE  \A i \in 1..Depth : i < b => Chosen(i)' \/ Reason(i)'
<1> SUFFICES ASSUME NEW i \in 1..Depth, i < b PROVE Chosen(i)' \/ Reason(i)'
  OBVIOUS
<1>1. arrBacktrackStack'[i] = arrBacktrackStack[i] /\ At(arrBacktrackStack[i].atom) = i
  BY TrailIs DEF SameBelow
<1>2. ASSUME NEW k \in 1..Slot, ChoiceVar(k) = arrBacktrackStack[i].atom
      PROVE  Chosen(i)'
  <2>1. k \in 1..Slot' /\ arrChoicePointStack'[k] = arrChoicePointStack[k]
    BY <1>1, <1>2 DEF ChoiceAt
  <2> QED
    BY <1>1, <1>2, <2>1 DEF Chosen, ChoiceVar
<1>3. Chosen(i) \/ Reason(i)
  BY DEF ReasonsOk
<1> QED
  BY <1>2, <1>3, ReasonKept DEF Chosen, ChoiceVar

LEMMA ListEntryIs ==
  ASSUME ListsOk, NEW s \in 0..NumVars, NEW i \in 1..Len(unitLemmas[s])
  PROVE  unitLemmas[s][i] \in LemmaInfo /\ Placed(unitLemmas[s][i], s)
<1>1. unitLemmas[s] \in Seq(LemmaInfo)
  BY DEF ListsOk
<1>2. unitLemmas[s][i] \in LemmaInfo
  BY <1>1
<1>3. ListOk(s)
  BY DEF ListsOk
<1> QED
  BY <1>2, <1>3 DEF ListOk

LEMMA InfoIs ==
  ASSUME NEW p \in LemmaInfo
  PROVE  /\ p.nWatchedVble0 \in Var /\ p.nWatchedVble1 \in 0..NumVars /\ p.lemma \in Lemma
         /\ \A l \in p.lemma : l \in Literal
BY DEF LemmaInfo, Lemma

LEMMA InUseAt ==
  ASSUME TrailOk, NEW p \in LemmaInfo, InUse(p)
  PROVE  At(p.nWatchedVble0) \in 1..Depth /\ Known(p.nWatchedVble0)
BY InfoIs, TrailIs DEF InUse

LEMMA PlacedKept ==
  ASSUME TrailOk, TrailOk', NEW b \in Nat, SameBelow(b), NEW p \in LemmaInfo, NEW s \in Nat,
         Placed(p, s), At(p.nWatchedVble0) < b, s > 0 => ChoiceAt(s)' = ChoiceAt(s),
         s < Slot' => At(p.nWatchedVble0) < ChoiceAt(s + 1)'
  PROVE  Placed(p, s)'
<1>1. InUse(p)' /\ At(p.nWatchedVble0)' = At(p.nWatchedVble0)
  BY InUseKept DEF Placed
<1> QED
  BY <1>1 DEF Placed

(* The list of a level that keeps its place. *)
LEMMA ListKept ==
  ASSUME TrailOk, TrailOk', NEW b \in Nat, SameBelow(b), LevelsOk, ListsOk, NEW s \in 0..NumVars,
         unitLemmas'[s] = unitLemmas[s], s > 0 /\ s <= Slot => ChoiceAt(s)' = ChoiceAt(s),
         \A i \in 1..Len(unitLemmas[s]) :
           /\ At(unitLemmas[s][i].nWatchedVble0) < b
           /\ s < Slot' => At(unitLemmas[s][i].nWatchedVble0) < ChoiceAt(s + 1)',
         s > Slot' \/ (s = Slot' /\ pc' = "pop") => unitLemmas[s] = <<>>
  PROVE  ListOk(s)'
<1>1. ASSUME NEW i \in 1..Len(unitLemmas[s]) PROVE Placed(unitLemmas[s][i], s)'
  <2>1. PICK p \in LemmaInfo : p = unitLemmas[s][i] /\ Placed(p, s)
    BY ListEntryIs
  <2>2. unitLemmas[s] # <<>>
    BY <1>1
  <2>3. s <= Slot
    <3>1. ~(s > Slot) /\ Slot \in Nat
      BY <2>2, SlotBounded DEF ListsOk, ListOk
    <3> QED
      BY <3>1
  <2>4. s > 0 => ChoiceAt(s)' = ChoiceAt(s)
    BY <2>3
  <2>5. s \in Nat
    OBVIOUS
  <2>6. Placed(p, s)'
    BY <2>1, <2>4, <2>5, PlacedKept
  <2> QED
    BY <2>1, <2>6
<1>2. Distinct(unitLemmas[s])
  BY DEF ListsOk, ListOk
<1> QED
  BY <1>1, <1>2 DEF ListOk, Distinct

LEMMA SameTrail ==
  ASSUME TrailOk, UNCHANGED trailVars, NEW b
  PROVE  TrailOk' /\ SameBelow(b) /\ Depth' = Depth
<1> USE DEF trailVars
<1>1. TrailOk'
  BY DEF TrailOk, At, Known, Depth
<1> QED
  BY <1>1 DEF SameBelow, At, Depth

(* A step that unassigns nothing and leaves the choices alone. *)
Grows ==
  /\ TrailOk' /\ SameBelow(Depth + 1) /\ Depth' >= Depth
  /\ UNCHANGED <<problem, arrChoicePointStack>>
  /\ \A k \in 1..Slot : \A m \in found' \ found : m[ChoiceVar(k)] = arrSolution[ChoiceVar(k)]

LEMMA LevelsGrow ==
  ASSUME TrailOk, LevelsOk, Grows
  PROVE  /\ LevelsOk' /\ Slot' = Slot
         /\ \A k \in 1..Slot : ChoiceAt(k)' = ChoiceAt(k) /\ ChoiceVar(k)' = ChoiceVar(k)
<1>1. PICK b \in Nat : b = Depth + 1
  BY TrailLength
<1>2. Slot' = Slot /\ arrChoicePointStack' \in Seq(Level)
  BY DEF Grows, Slot, LevelsOk
<1>3. \A k \in 1..Slot : ChoiceAt(k) < b
  <2> SUFFICES ASSUME NEW k \in 1..Slot PROVE ChoiceAt(k) < b
    OBVIOUS
  <2>1. ChoiceAt(k) \in 1..Depth /\ Depth \in Nat
    BY LevelIs, TrailLength
  <2> QED
    BY <1>1, <2>1
<1>4. \A k \in 1..Slot : LevelOk(k)' /\ ChoiceAt(k)' = ChoiceAt(k) /\ ChoiceVar(k)' = ChoiceVar(k)
  BY <1>1, <1>3, LevelKept DEF Grows
<1> QED
  BY <1>2, <1>4 DEF LevelsOk

LEMMA ListsGrow ==
  ASSUME TrailOk, LevelsOk, Grows, ListsOk, unitLemmas' = unitLemmas, pc' # "pop"
  PROVE  ListsOk'
<1>1. PICK b \in Nat : b = Depth + 1
  BY TrailLength
<1>2. /\ LevelsOk' /\ Slot' = Slot
      /\ \A k \in 1..Slot : ChoiceAt(k)' = ChoiceAt(k)
  BY LevelsGrow
<1>3. Slot \in Nat
  BY SlotBounded
<1> SUFFICES ASSUME NEW s \in 0..NumVars PROVE ListOk(s)'
  BY DEF ListsOk
<1>4. s > 0 /\ s <= Slot => ChoiceAt(s)' = ChoiceAt(s)
  BY <1>2, <1>3
<1>5. ASSUME NEW i \in 1..Len(unitLemmas[s])
      PROVE  /\ At(unitLemmas[s][i].nWatchedVble0) < b
             /\ s < Slot' => At(unitLemmas[s][i].nWatchedVble0) < ChoiceAt(s + 1)'
  <2>1. PICK p \in LemmaInfo : p = unitLemmas[s][i] /\ Placed(p, s)
    BY ListEntryIs
  <2>2. At(p.nWatchedVble0) \in 1..Depth /\ Depth \in Nat
    BY <2>1, InUseAt, TrailLength DEF Placed
  <2>3. s < Slot => s + 1 \in 1..Slot
    BY <1>3
  <2>4. s < Slot' => At(p.nWatchedVble0) < ChoiceAt(s + 1)'
    BY <1>2, <2>1, <2>3 DEF Placed
  <2>5. At(p.nWatchedVble0) < b
    BY <1>1, <2>2
  <2> QED
    BY <2>1, <2>4, <2>5
<1>6. s > Slot' => unitLemmas[s] = <<>>
  BY <1>2 DEF ListsOk, ListOk
<1> QED
  BY <1>1, <1>4, <1>5, <1>6, ListKept DEF Grows

LEMMA ReasonsGrow ==
  ASSUME TrailOk, LevelsOk, Grows, ReasonsOk
  PROVE  /\ \A i \in 1..Depth : Chosen(i)' \/ Reason(i)'
         /\ \A i \in 1..Depth : i \in 1..Depth' /\ arrBacktrackStack'[i] = arrBacktrackStack[i]
<1>1. PICK b \in Nat : b = Depth + 1
  BY TrailLength
<1>2. \A i \in 1..Depth : i < b
  BY <1>1, TrailLength
<1>3. \A k \in 1..Slot : k \in 1..Slot' /\ arrChoicePointStack'[k] = arrChoicePointStack[k]
  BY LevelsGrow DEF Grows
<1>4. \A i \in 1..Depth : Chosen(i)' \/ Reason(i)'
  BY <1>1, <1>2, <1>3, ReasonsKept DEF Grows
<1> QED
  BY <1>1, <1>2, <1>4 DEF Grows, SameBelow

LEMMA ImpliedKept ==
  ASSUME UNCHANGED problem, found \subseteq found', NEW lemma, Implied(lemma)
  PROVE  Implied(lemma)'
BY DEF Implied, Models

(* To show ImpliedOk of the next state it is enough to look at the lemmas. *)
LEMMA ImpliedParts ==
  ASSUME UNCHANGED problem, found \subseteq found',
         \A lemma \in cache' : Implied(lemma),
         \A i \in 1..Depth' : arrBacktrackStack'[i].lemma # NO_LEMMA =>
                                Implied(arrBacktrackStack'[i].lemma),
         \A i \in 1..Len(pUnitLemmaList') : Implied(pUnitLemmaList'[i].lemma),
         \A s \in 0..NumVars : \A i \in 1..Len(unitLemmas'[s]) :
           Implied(unitLemmas'[s][i].lemma)
  PROVE  ImpliedOk'
BY DEF ImpliedOk, Implied, Models

LEMMA DepthGrows ==
  ASSUME TrailOk, Grows
  PROVE  \E b, d : /\ b \in Nat /\ d \in Nat /\ b = Depth + 1 /\ d = Depth' + 1
                   /\ b <= d /\ b <= b
<1>1. Depth \in Nat
  BY TrailLength
<1>2. Depth' \in Nat
  BY DEF Grows, TrailOk, Depth
<1>3. Depth' >= Depth
  BY DEF Grows
<1> QED
  BY <1>1, <1>2, <1>3

LEMMA StatesGrow ==
  ASSUME TrailOk, Grows, TypesOk, StatesOk, pc # "pop", pc' # "pop", UNCHANGED smurfVars
  PROVE  StatesOk'
<1>1. PICK b, d : /\ b \in Nat /\ d \in Nat /\ b = Depth + 1 /\ d = Depth' + 1
                  /\ b <= d /\ b <= b
  BY DepthGrows
<1>2. ASSUME NEW f \in Fn PROVE StateOk(problem[f], pCurrentState[f], arrSmurfPath[f], d)'
  <2>1. PICK path \in Lemma : path = arrSmurfPath[f]
    BY DEF TypesOk
  <2>2. PICK F, s : F = problem[f] /\ s = pCurrentState[f]
    OBVIOUS
  <2>3. StateOk(F, s, path, d)'
    BY <1>1, <2>1, <2>2, StateKept DEF StatesOk, Grows
  <2>4. arrSmurfPath'[f] = path /\ pCurrentState'[f] = s /\ problem'[f] = F
    BY <2>1, <2>2 DEF smurfVars, Grows
  <2> QED
    BY <2>3, <2>4
<1> QED
  BY <1>1, <1>2 DEF StatesOk

LEMMA DeductionGrows ==
  ASSUME IInv, pc = "deduce", pc' = "deduce", Grows, TypesOk', StatesOk',
         UNCHANGED <<unitLemmas, cache, lemmaVars, unitVars, resultVars>>,
         \A i \in 1..Depth' : i > Depth =>
           /\ Reason(i)' /\ ~arrBacktrackStack'[i].bWasChoicePoint
           /\ Implied(arrBacktrackStack'[i].lemma)
  PROVE  IInv'
<1> USE DEF IInv
<1>1. LevelsOk' /\ Slot' = Slot /\ TrailOk'
  BY LevelsGrow DEF Grows
<1>2. ListsOk'
  BY ListsGrow
<1>3. Depth \in Nat /\ Depth' \in Nat
  BY <1>1, TrailLength DEF TrailOk, Depth
<1>4. \A i \in 1..Depth' : i <= Depth => i \in 1..Depth
  BY <1>3
<1>5. /\ \A i \in 1..Depth : Chosen(i)' \/ Reason(i)'
      /\ \A i \in 1..Depth : arrBacktrackStack'[i] = arrBacktrackStack[i]
  BY ReasonsGrow
<1>6. ReasonsOk'
  BY <1>3, <1>4, <1>5 DEF ReasonsOk
<1>7. \A lemma : Implied(lemma) => Implied(lemma)'
  BY ImpliedKept DEF Grows, resultVars
<1>8. ImpliedOk'
  <2>1. \A i \in 1..Depth' : arrBacktrackStack'[i].lemma # NO_LEMMA =>
                               Implied(arrBacktrackStack'[i].lemma)
    BY <1>3, <1>4, <1>5 DEF ImpliedOk
  <2>2. \A i \in 1..Depth' : arrBacktrackStack'[i].lemma # NO_LEMMA =>
                               Implied(arrBacktrackStack[i].lemma)'
    BY <1>7, <2>1
  <2> QED
    BY <1>7, <2>1 DEF ImpliedOk, unitVars, Implied, Models, Grows, resultVars
<1>9. ReversedOk'
  <2> SUFFICES ASSUME NEW i \in 1..Depth', arrBacktrackStack'[i].bWasChoicePoint
               PROVE  InLists(arrBacktrackStack'[i], unitLemmas', pUnitLemmaList')
    BY DEF ReversedOk
  <2>1. i \in 1..Depth
    BY <1>3, <1>4
  <2>2. arrBacktrackStack'[i] = arrBacktrackStack[i]
    BY <1>5, <2>1
  <2>3. unitLemmas' = unitLemmas /\ pUnitLemmaList' = pUnitLemmaList
    BY DEF unitVars
  <2> QED
    BY <2>1, <2>2, <2>3 DEF ReversedOk
<1>10. ConflictOk'
  BY DEF ConflictOk, lemmaVars
<1>11. PendingOk' /\ FlipOk' /\ UnitOk'
  <2>1. PendingOk'
    BY DEF PendingOk, unitVars
  <2> QED
    BY <2>1 DEF FlipOk, UnitOk
<1>12. FoundOk'
  <2>1. PICK b, d : /\ b \in Nat /\ d \in Nat /\ b = Depth + 1 /\ d = Depth' + 1
                    /\ b <= d /\ b <= b
    BY DepthGrows
  <2>2. \A m : AgreesBelow(m, d)' => AgreesBelow(m, b)
    BY <2>1, AgreesKept DEF Grows
  <2> QED
    BY <2>1, <2>2 DEF FoundOk, resultVars, Models, Grows
<1> QED
  BY <1>1, <1>2, <1>6, <1>8, <1>9, <1>10, <1>11, <1>12

-----------------------------------------------------------------------------
(* Deduction *)

LEMMA FalseIsKnown ==
  ASSUME NEW l \in Literal, IsFalse(l)
  PROVE  Known(l[1]) /\ l[1] \in Var /\ l[2] = NEG(arrSolution[l[1]])
BY Literals DEF IsFalse, Known

LEMMA AtomsAreVars ==
  ASSUME NEW lemma \in Lemma
  PROVE  Atoms(lemma) \subseteq Var /\ \A l \in lemma : l \in Literal /\ l[1] \in Atoms(lemma)
<1>1. \A l \in lemma : l \in Literal /\ l[1] \in Var
  BY Literals DEF Lemma
<1> QED
  BY <1>1 DEF Atoms

(* The parts that a step leaves as they are which changes neither the      *)
(* trail nor the choices. *)
LEMMA TrailPartsKept ==
  ASSUME TypesOk, TrailOk, LevelsOk, ReasonsOk, StatesOk,
         UNCHANGED <<problem, trailVars, arrChoicePointStack, smurfVars>>,
         pc # "pop", pc' # "pop",
         \A k \in 1..Slot : \A m \in found' \ found : m[ChoiceVar(k)] = arrSolution[ChoiceVar(k)]
  PROVE  Grows /\ TrailOk' /\ LevelsOk' /\ ReasonsOk' /\ StatesOk' /\ Depth' = Depth
<1>1. Grows /\ Depth' = Depth /\ TrailOk'
  <2>1. Depth >= Depth
    BY TrailLength
  <2> QED
    BY <2>1, SameTrail DEF Grows
<1>2. LevelsOk' /\ StatesOk'
  BY <1>1, LevelsGrow, StatesGrow
<1>3. ReasonsOk'
  BY <1>1, ReasonsGrow DEF ReasonsOk
<1> QED
  BY <1>1, <1>2, <1>3

LEMMA ConflictKeeps ==
  ASSUME IInv, pc = "deduce", NEW lemma \in Lemma, Conflict(lemma),
         UNCHANGED <<problem, ret>>, \A l \in lemma : IsFalse(l),
         found \subseteq found', found' \subseteq Models,
         \A m \in Models \ found' : \E l \in lemma : m[l[1]] = l[2],
         \A k \in 1..Slot : \A m \in found' \ found : m[ChoiceVar(k)] = arrSolution[ChoiceVar(k)]
  PROVE  IInv'
<1> USE DEF IInv
<1>1. /\ pc' = "backjump" /\ arrTempLemma' = lemma /\ arrLemmaFlag' = Atoms(lemma)
      /\ arrUnsetLemmaFlagVars' = {} /\ nOldBacktrackStackIndex' = 0 /\ pUnitLemmaList' = <<>>
      /\ UNCHANGED <<nNumForcedInfsBelowCurrentCP, nFlipped, nKept, smurfVars, trailVars,
                     levelVars, cache>>
  BY DEF Conflict
<1>2. Grows /\ TrailOk' /\ LevelsOk' /\ ReasonsOk' /\ StatesOk' /\ Depth' = Depth
  BY <1>1, TrailPartsKept DEF levelVars
<1>3. ListsOk'
  BY <1>1, <1>2, ListsGrow DEF levelVars
<1>4. TypesOk'
  BY <1>1 DEF TypesOk, smurfVars
<1>5. ImpliedOk'
  <2>1. \A L : Implied(L) => Implied(L)'
    BY ImpliedKept
  <2>2. \A i \in 1..Depth' : arrBacktrackStack'[i].lemma # NO_LEMMA =>
                               Implied(arrBacktrackStack[i].lemma)'
    <3>1. arrBacktrackStack' = arrBacktrackStack
      BY <1>1 DEF trailVars
    <3> QED
      BY <1>2, <2>1, <3>1 DEF ImpliedOk, Implied, Models
  <2>3. \A s \in 0..NumVars : \A i \in 1..Len(unitLemmas'[s]) : Implied(unitLemmas[s][i].lemma)'
    <3>1. unitLemmas' = unitLemmas
      BY <1>1 DEF levelVars
    <3> QED
      BY <2>1, <3>1 DEF ImpliedOk, Implied, Models
  <2>4. \A L \in cache' : Implied(L)'
    BY <1>1, <2>1 DEF ImpliedOk
  <2> QED
    BY <1>1, <2>2, <2>3, <2>4 DEF ImpliedOk
<1>6. ReversedOk'
  BY <1>1, <1>2 DEF ReversedOk, trailVars, levelVars, PendingOk
<1>7. ConflictOk'
  <2>1. Atoms(lemma) \subseteq Var /\ \A l \in lemma : l \in Literal
    BY AtomsAreVars
  <2>2. \A l \in lemma : IsFalse(l)' /\ Known(l[1])'
    BY <1>1, <2>1, FalseIsKnown DEF trailVars, IsFalse, Known
  <2>3. Live' = lemma
    BY <1>1, <2>2 DEF Live
  <2>4. Implied(Live)'
    BY <2>3 DEF Implied, Models
  <2>5. nNumForcedInfsBelowCurrentCP' \in 0..NumVars
    BY <1>1 DEF ConflictOk
  <2> QED
    BY <1>1, <2>1, <2>2, <2>3, <2>4, <2>5 DEF ConflictOk
<1>8. PendingOk' /\ FlipOk' /\ UnitOk'
  BY <1>1 DEF PendingOk, FlipOk, UnitOk
<1>9. FoundOk'
  BY <1>1 DEF FoundOk, Models
<1> QED
  BY <1>2, <1>3, <1>4, <1>5, <1>6, <1>7, <1>8, <1>9

LEMMA RemoveFromCacheKeeps ==
  ASSUME IInv, NEW lemma, RemoveFromCache(lemma)
  PROVE  IInv'
<1> USE DEF IInv
<1>1. /\ pc = "deduce" /\ pc' = "deduce" /\ cache' \subseteq cache
      /\ UNCHANGED <<problem, smurfVars, trailVars, levelVars, lemmaVars, unitVars, pc,
                     resultVars>>
  BY DEF RemoveFromCache
<1>2. Grows /\ TrailOk' /\ LevelsOk' /\ ReasonsOk' /\ StatesOk' /\ Depth' = Depth
  BY <1>1, TrailPartsKept DEF levelVars, resultVars
<1>3. ListsOk'
  BY <1>1, <1>2, ListsGrow DEF levelVars
<1>4. TypesOk'
  BY <1>1 DEF TypesOk, smurfVars
<1>5. ImpliedOk' /\ ReversedOk'
  BY <1>1, <1>2 DEF ImpliedOk, Implied, Models, ReversedOk, trailVars, levelVars,
                    unitVars, resultVars
<1>6. ConflictOk'
  BY <1>1 DEF ConflictOk, lemmaVars
<1>7. PendingOk' /\ FlipOk' /\ UnitOk'
  <2>1. PendingOk'
    BY <1>1 DEF PendingOk, unitVars
  <2> QED
    BY <1>1, <2>1 DEF FlipOk, UnitOk
<1>8. FoundOk'
  <2>1. \A m : AgreesBelow(m, Depth + 1)' = AgreesBelow(m, Depth + 1)
    BY <1>1, <1>2 DEF AgreesBelow, At, trailVars
  <2> QED
    BY <1>1, <2>1 DEF FoundOk, Models, resultVars
<1> QED
  BY <1>2, <1>3, <1>4, <1>5, <1>6, <1>7, <1>8

LEMMA LemmaInfersKeeps ==
  ASSUME IInv, NEW lemma \in cache, NEW lit \in lemma, LemmaInfers(lemma, lit)
  PROVE  IInv'
<1> USE DEF IInv
<1>1. lemma \in Lemma /\ \A l \in lemma : l \in Literal /\ l[1] \in Var
  BY AtomsAreVars DEF TypesOk
<1>2. /\ pc = "deduce" /\ pc' = "deduce" /\ IsUnknown(lit)
      /\ \A other \in lemma \ {lit} : IsFalse(other)
      /\ InferLiterals(<<lit>>, FALSE, <<lemma>>)
      /\ UNCHANGED <<problem, smurfVars, levelVars, cache, lemmaVars, unitVars, pc,
                     resultVars>>
  BY DEF LemmaInfers, Unit
<1>3. lit \in Literal /\ ~Known(lit[1])
  BY <1>1, <1>2 DEF IsUnknown, Known
<1>4. /\ TrailOk' /\ SameBelow(Depth + 1) /\ Depth' = Depth + 1
      /\ arrBacktrackStack'[Depth + 1] = NewEntry(lit, FALSE, lemma)
      /\ arrSolution'[lit[1]] = lit[2] /\ At(lit[1])' = Depth + 1
  BY <1>1, <1>2, <1>3, InferredOne
<1>5. Depth \in Nat
  BY TrailLength
<1>6. Grows
  <2>1. Depth' >= Depth
    BY <1>4, <1>5
  <2> QED
    BY <1>2, <1>4, <2>1 DEF Grows, levelVars, resultVars
<1>7. StatesOk'
  BY <1>2, <1>6, StatesGrow
<1>8. TypesOk'
  BY <1>2 DEF TypesOk, smurfVars
<1>9. ASSUME NEW i \in 1..Depth', i > Depth
      PROVE  /\ Reason(i)' /\ ~arrBacktrackStack'[i].bWasChoicePoint
             /\ Implied(arrBacktrackStack'[i].lemma)
  <2>1. i = Depth + 1
    BY <1>4, <1>5, <1>9
  <2>2. PICK b \in Nat : b = Depth + 1
    BY <1>5
  <2>3. b <= b
    OBVIOUS
  <2>4. \A l \in lemma \ {lit} : IsFalse(l) /\ At(l[1]) < b
    <3>1. \A l \in lemma \ {lit} : IsFalse(l) /\ Known(l[1])
      BY <1>1, <1>2, FalseIsKnown
    <3>2. \A v \in Var : Known(v) => At(v) \in Nat /\ At(v) <= Depth
      BY TrailIs
    <3> QED
      BY <1>1, <1>5, <2>2, <3>1, <3>2
  <2>5. \A l \in lemma \ {lit} : IsFalse(l)' /\ At(l[1])' < b
    <3> SUFFICES ASSUME NEW l \in lemma \ {lit} PROVE IsFalse(l)' /\ At(l[1])' < b
      OBVIOUS
    <3>1. SameBelow(b) /\ TrailOk /\ TrailOk'
      BY <1>4, <2>2
    <3>2. l \in Literal /\ IsFalse(l) /\ At(l[1]) < b
      BY <1>1, <2>4
    <3> QED
      BY ONLY <2>3, <3>1, <3>2, b \in Nat, FalseKept
  <2>6. PICK e : e = arrBacktrackStack'[i]
    OBVIOUS
  <2>7. e.atom = lit[1] /\ ~e.bWasChoicePoint /\ e.lemma = lemma
    <3>1. e = NewEntry(lit, FALSE, lemma)
      BY <1>4, <2>1, <2>6
    <3>2. e.atom = lit[1] /\ e.lemma = lemma
      BY ONLY <3>1 DEF NewEntry
    <3>3. ~e.bWasChoicePoint
      BY ONLY <3>1 DEF NewEntry
    <3> QED
      BY <3>2, <3>3
  <2>8. lit = <<lit[1], arrSolution'[lit[1]]>>
    BY <1>3, <1>4, Literals
  <2>9. Reason(i)'
    BY <2>1, <2>2, <2>5, <2>6, <2>7, <2>8 DEF Reason
  <2>10. Implied(lemma)
    BY DEF ImpliedOk
  <2> QED
    BY <2>6, <2>7, <2>9, <2>10
<1> QED
  BY <1>2, <1>6, <1>7, <1>8, <1>9, DeductionGrows DEF levelVars

LEMMA LemmaConflictKeeps ==
  ASSUME IInv, NEW lemma \in cache, LemmaConflict(lemma)
  PROVE  IInv'
<1>1. lemma \in Lemma /\ Implied(lemma) /\ found \subseteq Models
  BY DEF IInv, TypesOk, ImpliedOk, FoundOk
<1> QED
  BY <1>1, ConflictKeeps DEF LemmaConflict, resultVars, Implied

LEMMA SetToSeqIs ==
  ASSUME NEW T, IsFiniteSet(T)
  PROVE  /\ SetToSeq(T) \in Seq(T)
         /\ \A i, j \in 1..Len(SetToSeq(T)) : SetToSeq(T)[i] = SetToSeq(T)[j] => i = j
         /\ \A x \in T : \E i \in 1..Len(SetToSeq(T)) : SetToSeq(T)[i] = x
<1>1. PICK k \in Nat : k = Cardinality(T)
  BY FS_CardinalityType
<1>2. PICK g \in Bijection(1..k, T) : TRUE
  BY <1>1, FS_CardinalityType DEF ExistsBijection
<1>3. g \in [1..k -> T] /\ IsInjective(g)
  BY <1>2 DEF Bijection, Injection
<1>4. PICK s : s = SetToSeq(T)
  OBVIOUS
<1>5. s \in [1..k -> T] /\ IsInjective(s)
  BY <1>1, <1>3, <1>4 DEF SetToSeq
<1>6. s \in Seq(T) /\ Len(s) = k /\ DOMAIN s = 1..k
  BY <1>5
<1>7. s \in Injection(1..k, T)
  BY <1>5 DEF Injection
<1>8. s \in Surjection(1..k, T)
  <2>1. IsFiniteSet(1..k) /\ Cardinality(1..k) = k
    <3>1. 1 \in Int /\ k \in Int
      OBVIOUS
    <3>2. /\ IsFiniteSet(1..k)
          /\ Cardinality(1..k) = IF 1 > k THEN 0 ELSE k - 1 + 1
      BY <3>1, FS_Interval
    <3> QED
      BY <3>2
  <2> QED
    BY <1>1, <1>7, <2>1, FS_Injection
<1>9. \A x \in T : \E i \in 1..k : s[i] = x
  BY <1>6, <1>8 DEF Surjection
<1>10. \A i, j \in 1..k : s[i] = s[j] => i = j
  BY <1>5, <1>6 DEF IsInjective
<1> QED
  BY <1>4, <1>6, <1>9, <1>10

(* What a transition of Smurf f along v leads to.                          *)
LEMMA TransitionIs ==
  ASSUME TypesOk, TrailOk, StatesOk, pc = "deduce", NEW f \in Fn, NEW v \in Var, Known(v),
         NEW next, next = set_variable(pCurrentState[f], v, arrSolution[v]),
         NEW path, path = arrSmurfPath[f] \cup {<<v, NEG(arrSolution[v])>>}
  PROVE  /\ path \in Lemma /\ next \in Function
         /\ StateOk(problem[f], next, path, Depth + 1)
         /\ \A lit \in Inferences(next) : Implied(path \cup {lit})
<1>1. /\ Depth \in Nat /\ At(v) \in Nat /\ At(v) <= Depth /\ arrSolution[v] \in Value
  BY TrailIs
<1>2. PICK val \in Value : val = arrSolution[v]
  BY <1>1
<1>3. PICK neg \in Literal : neg = <<v, NEG(val)>> /\ neg[1] = v /\ neg[2] = NEG(val)
  BY Literals
<1>4. PICK path0 \in Lemma : path0 = arrSmurfPath[f]
  BY DEF TypesOk
<1>5. PICK s \in Function : s = pCurrentState[f]
  BY DEF TypesOk
<1>6. PICK F \in Function : F = problem[f]
  BY LemmaBrancherAssumption DEF TypesOk
<1>7. path = path0 \cup {neg} /\ path \in Lemma
  BY <1>2, <1>3, <1>4 DEF Lemma
<1>8. StateOk(F, s, path0, Depth + 1)
  BY <1>4, <1>5, <1>6 DEF StatesOk
<1>9. /\ next \in Function
      /\ \A m \in Assignment : m[v] = val => (m \in next <=> m \in s)
  <2>1. next = set_variable(s, v, val)
    BY <1>2, <1>5
  <2>2. /\ set_variable(s, v, val) \in Function
        /\ \A m \in Assignment : m[v] = val => (m \in set_variable(s, v, val) <=> m \in s)
    BY ONLY SetVariable, s \in Function, v \in Var, val \in Value
  <2> QED
    BY ONLY <2>1, <2>2
<1>10. FalseBelow(path, Depth + 1)
  <2>1. NEG(neg[2]) = val
    BY <1>3, Literals
  <2>2. IsFalse(neg) /\ At(neg[1]) < Depth + 1
    BY <1>1, <1>2, <1>3, <2>1 DEF IsFalse
  <2> QED
    BY <1>7, <1>8, <2>2 DEF StateOk, FalseBelow
<1>11. \A m \in F : (\A l \in path : m[l[1]] # l[2]) => m \in next
  <2> SUFFICES ASSUME NEW m \in F, \A l \in path : m[l[1]] # l[2] PROVE m \in next
    OBVIOUS
  <2>1. m \in s
    BY <1>7, <1>8 DEF StateOk
  <2>2. m \in Assignment /\ m[v] \in Value
    BY DEF Function, Assignment
  <2>3. m[v] # NEG(val)
    BY <1>3, <1>7
  <2>4. m[v] = val
    BY <2>2, <2>3, Literals
  <2> QED
    BY <1>9, <2>1, <2>2, <2>4
<1>12. \A m \in next : AgreesBelow(m, Depth + 1) => m \in F
  <2> SUFFICES ASSUME NEW m \in next, AgreesBelow(m, Depth + 1) PROVE m \in F
    OBVIOUS
  <2>1. m \in Assignment
    BY <1>9 DEF Function
  <2>2. m[v] = val
    BY <1>1, <1>2 DEF AgreesBelow
  <2> QED
    BY <1>8, <1>9, <2>1, <2>2 DEF StateOk
<1>13. ASSUME NEW lit \in Inferences(next) PROVE Implied(path \cup {lit})
  <2> SUFFICES ASSUME NEW m \in Models \ found PROVE \E l \in path \cup {lit} : m[l[1]] = l[2]
    BY DEF Implied
  <2>1. m \in F
    BY <1>6 DEF Models
  <2>2. (\A l \in path : m[l[1]] # l[2]) => m[lit[1]] = lit[2]
    BY <1>11, <2>1 DEF Inferences
  <2> QED
    BY <2>2
<1> QED
  BY <1>6, <1>7, <1>9, <1>10, <1>11, <1>12, <1>13 DEF StateOk

(* A transition that meets no false literal. *)
LEMMA TransitionInfers ==
  ASSUME IInv, pc = "deduce", NEW f \in Fn, NEW v \in Var, Known(v),
         NEW next, next = set_variable(pCurrentState[f], v, arrSolution[v]),
         NEW path, path = arrSmurfPath[f] \cup {<<v, NEG(arrSolution[v])>>},
         \A lit \in Inferences(next) : ~IsFalse(lit),
         NEW new, new = SetToSeq({lit \in Inferences(next) : IsUnknown(lit)}),
         NEW lemmas, \A i \in DOMAIN new : lemmas[i] = path \cup {new[i]},
         InferLiterals(new, FALSE, lemmas),
         pCurrentState' = [pCurrentState EXCEPT ![f] = set_variable_all_infs(next)],
         arrSmurfPath' = [arrSmurfPath EXCEPT ![f] = path],
         UNCHANGED <<problem, levelVars, cache, lemmaVars, unitVars, pc, resultVars>>
  PROVE  IInv'
<1> USE DEF IInv
<1>1. /\ path \in Lemma /\ next \in Function
      /\ StateOk(problem[f], next, path, Depth + 1)
      /\ \A lit \in Inferences(next) : Implied(path \cup {lit})
  BY TransitionIs
<1>2. /\ Depth \in Nat
      /\ \A w \in Var : /\ At(w) \in Nat /\ (Known(w) <=> At(w) <= Depth)
                        /\ Known(w) => arrSolution[w] \in Value
  BY TrailIs
<1>3. PICK infs : infs = Inferences(next)
  OBVIOUS
<1>4. infs \subseteq Literal /\ \A m \in next : \A l \in infs : m[l[1]] = l[2]
  BY <1>3 DEF Inferences
<1>5. next # false_ptr
  <2> SUFFICES ASSUME next = false_ptr PROVE FALSE
    OBVIOUS
  <2>1. PICK neg \in Literal : neg = <<v, NEG(arrSolution[v])>> /\ neg[1] = v
                               /\ neg[2] = NEG(arrSolution[v]) /\ NEG(neg[2]) = arrSolution[v]
    BY <1>2, Literals
  <2>2. neg \in infs
    BY <1>3 DEF Inferences, false_ptr
  <2>3. IsFalse(neg)
    BY <2>1 DEF IsFalse
  <2> QED
    BY <1>3, <2>2, <2>3
<1>6. PICK T : T = {lit \in infs : IsUnknown(lit)}
  OBVIOUS
<1>7. IsFiniteSet(T)
  <2>1. IsFiniteSet(Literal)
    <3>1. IsFiniteSet(Var)
      <4>1. 1 \in Int /\ NumVars \in Int
        BY NumVarsAssumption
      <4> QED
        BY <4>1, FS_Interval DEF Var
    <3>2. IsFiniteSet(Value)
      <4>1. Value = {BOOL_FALSE} \cup {BOOL_TRUE}
        BY DEF Value
      <4>2. IsFiniteSet({BOOL_FALSE})
        BY FS_Singleton
      <4> QED
        BY <4>1, <4>2, FS_AddElement
    <3> QED
      BY <3>1, <3>2, FS_Product DEF Literal
  <2>2. T \in SUBSET Literal
    BY <1>4, <1>6
  <2> QED
    BY <2>1, <2>2, FS_Subset
<1>8. /\ new \in Seq(T)
      /\ \A i, j \in 1..Len(new) : new[i] = new[j] => i = j
      /\ \A x \in T : \E i \in 1..Len(new) : new[i] = x
  <2>1. new = SetToSeq(T)
    BY <1>3, <1>6
  <2>2. /\ SetToSeq(T) \in Seq(T)
        /\ \A i, j \in 1..Len(SetToSeq(T)) : SetToSeq(T)[i] = SetToSeq(T)[j] => i = j
        /\ \A x \in T : \E i \in 1..Len(SetToSeq(T)) : SetToSeq(T)[i] = x
    BY ONLY <1>7, SetToSeqIs
  <2> QED
    BY ONLY <2>1, <2>2
<1>9. \A i \in 1..Len(new) : new[i] \in T
  BY <1>8
<1>10. \A i \in 1..Len(new) : lemmas[i] = path \cup {new[i]}
  <2>1. DOMAIN new = 1..Len(new)
    BY <1>8, LenProperties
  <2> QED
    BY <2>1
<1>11. \A x \in T : x \in infs /\ x \in Literal /\ x[1] \in Var /\ ~Known(x[1])
  BY <1>4, <1>6, Literals DEF IsUnknown, Known
<1>12. \A x, y \in T : x[1] = y[1] => x = y
  <2>1. PICK m \in next : TRUE
    BY <1>5 DEF false_ptr
  <2>2. \A x, y \in T : x[1] = y[1] => x[2] = y[2]
    BY <1>4, <1>11, <2>1
  <2> QED
    BY <1>11, <2>2, Literals
<1>13. /\ TrailOk' /\ SameBelow(Depth + 1) /\ Depth' = Depth + Len(new)
       /\ \A i \in 1..Len(new) :
            /\ arrBacktrackStack'[Depth + i] = NewEntry(new[i], FALSE, lemmas[i])
            /\ arrSolution'[new[i][1]] = new[i][2]
            /\ arrBacktrackStackIndex'[new[i][1]] = Depth + i
       /\ \A w \in Var : /\ Known(w) => Known(w)'
                         /\ Known(w)' => Known(w) \/ \E i \in 1..Len(new) : w = new[i][1]
  <2>1. new \in Seq(Literal)
    BY <1>8, <1>11
  <2>2. \A i, j \in 1..Len(new) : new[i][1] = new[j][1] => i = j
    BY <1>8, <1>9, <1>12
  <2>3. \A i \in 1..Len(new) : ~Known(new[i][1]) /\ lemmas[i] \in Lemma
    BY <1>1, <1>9, <1>11, <1>10 DEF Lemma
  <2>4. TrailOk /\ FALSE \in BOOLEAN /\ InferLiterals(new, FALSE, lemmas)
    OBVIOUS
  <2> QED
    BY ONLY <2>1, <2>2, <2>3, <2>4, Inferred
<1>14. PICK k \in Nat : k = Len(new)
  <2>1. Len(new) \in Nat
    BY <1>8, LenProperties
  <2> QED
    BY <2>1
<1>15. Grows
  <2>1. Depth' >= Depth
    BY <1>2, <1>13, <1>14
  <2> QED
    BY <1>13, <2>1 DEF Grows, levelVars, resultVars
<1>16. PICK b, d : /\ b \in Nat /\ d \in Nat /\ b = Depth + 1 /\ d = Depth' + 1
                   /\ b <= d /\ b <= b
  BY <1>15, DepthGrows
<1>17. SameBelow(b) /\ TrailOk /\ TrailOk'
  BY <1>13, <1>16
<1>18. PICK F : F = problem[f]
  OBVIOUS
<1>19. PICK r : r = set_variable_all_infs(next)
  OBVIOUS
<1>20. r \in Function /\ \A m \in Assignment : Satisfies(m, infs) => (m \in r <=> m \in next)
  BY <1>1, <1>3, <1>19, WithoutInferences
<1>21. StateOk(F, next, path, d)'
  <2>1. StateOk(F, next, path, b) /\ path \in Lemma
    BY <1>1, <1>16, <1>18
  <2> QED
    BY ONLY <2>1, <1>16, <1>17, StateKept
<1>22. ASSUME NEW m \in Assignment, AgreesBelow(m, d)'
       PROVE  Satisfies(m, infs)
  <2> SUFFICES ASSUME NEW l \in infs PROVE m[l[1]] = l[2]
    BY DEF Satisfies
  <2>1. l \in Literal /\ ~IsFalse(l) /\ l[1] \in Var
    BY <1>3, <1>4, Literals
  <2>2. CASE Known(l[1])
    <3>1. arrSolution[l[1]] = l[2]
      BY <1>2, <2>1, <2>2, Literals DEF IsFalse
    <3>2. At(l[1]) < b /\ At(l[1]) < d /\ At(l[1]) \in Nat
      BY <1>2, <1>16, <2>1, <2>2
    <3>3. At(l[1])' = At(l[1]) /\ arrSolution'[l[1]] = arrSolution[l[1]]
      BY <1>17, <2>1, <3>2 DEF SameBelow
    <3> QED
      BY <1>22, <2>1, <3>1, <3>2, <3>3 DEF AgreesBelow
  <2>3. CASE ~Known(l[1])
    <3>1. l \in T
      BY <1>6, <2>1, <2>3 DEF IsUnknown, Known
    <3>2. PICK i \in 1..k : new[i] = l
      BY <1>8, <1>14, <3>1
    <3>3. arrSolution'[l[1]] = l[2] /\ At(l[1])' = Depth + i
      BY <1>13, <1>14, <3>2 DEF At
    <3>4. Depth + i < d
      BY <1>2, <1>13, <1>14, <1>16
    <3> QED
      BY <1>22, <2>1, <3>3, <3>4 DEF AgreesBelow
  <2> QED
    BY <2>2, <2>3
<1>23. StateOk(F, r, path, d)'
  <2>1. \A m \in F : (\A l \in path : m[l[1]] # l[2]) => m \in r
    <3>1. \A m \in F : (\A l \in path : m[l[1]] # l[2]) => m \in next
      BY <1>21 DEF StateOk
    <3>2. \A m \in next : m \in Assignment /\ Satisfies(m, infs)
      BY <1>1, <1>4 DEF Function, Satisfies
    <3> QED
      BY <1>20, <3>1, <3>2
  <2>2. \A m \in r : AgreesBelow(m, d)' => m \in F
    <3>1. \A m \in r : m \in Assignment
      BY <1>20 DEF Function
    <3>2. \A m \in r : AgreesBelow(m, d)' => m \in next
      BY <1>20, <1>22, <3>1
    <3> QED
      BY <1>21, <3>2 DEF StateOk
  <2> QED
    BY <1>21, <2>1, <2>2 DEF StateOk
<1>24. TypesOk'
  BY <1>1, <1>19, <1>20 DEF TypesOk
<1>25. StatesOk'
  <2> SUFFICES ASSUME NEW g \in Fn
               PROVE  StateOk(problem[g], pCurrentState[g], arrSmurfPath[g], d)'
    BY <1>16 DEF StatesOk
  <2>1. CASE g = f
    <3>1. problem'[g] = F /\ pCurrentState'[g] = r /\ arrSmurfPath'[g] = path
      BY <1>18, <1>19, <2>1 DEF TypesOk
    <3> QED
      BY <1>23, <3>1
  <2>2. CASE g # f
    <3>1. PICK G : G = problem[g]
      OBVIOUS
    <3>2. PICK s : s = pCurrentState[g]
      OBVIOUS
    <3>3. PICK p \in Lemma : p = arrSmurfPath[g]
      BY DEF TypesOk
    <3>4. StateOk(G, s, p, b)
      BY <1>16, <3>1, <3>2, <3>3 DEF StatesOk
    <3>5. StateOk(G, s, p, d)'
      BY ONLY <1>16, <1>17, <3>4, p \in Lemma, StateKept
    <3>6. problem'[g] = G /\ pCurrentState'[g] = s /\ arrSmurfPath'[g] = p
      BY <2>2, <3>1, <3>2, <3>3 DEF TypesOk
    <3> QED
      BY <3>5, <3>6
  <2> QED
    BY <2>1, <2>2
<1>26. ASSUME NEW i \in 1..Depth', i > Depth
       PROVE  /\ Reason(i)' /\ ~arrBacktrackStack'[i].bWasChoicePoint
              /\ Implied(arrBacktrackStack'[i].lemma)
  <2>1. PICK j \in 1..k : i = Depth + j
    <3>1. i - Depth \in 1..k /\ i = Depth + (i - Depth)
      BY <1>2, <1>13, <1>14, <1>26
    <3> QED
      BY <3>1
  <2>2. PICK lit \in T : lit = new[j]
    BY <1>9, <1>14
  <2>3. lit \in infs /\ lit \in Literal
    BY <1>11
  <2>4. lemmas[j] = path \cup {lit}
    BY <1>14, <1>10, <2>2
  <2>5. PICK e : e = arrBacktrackStack'[i]
    OBVIOUS
  <2>6. e.atom = lit[1] /\ ~e.bWasChoicePoint /\ e.lemma = path \cup {lit}
    <3>1. e = NewEntry(lit, FALSE, path \cup {lit})
      BY <1>13, <1>14, <2>1, <2>2, <2>4, <2>5
    <3>2. e.atom = lit[1] /\ e.lemma = path \cup {lit}
      BY ONLY <3>1 DEF NewEntry
    <3>3. ~e.bWasChoicePoint
      BY ONLY <3>1 DEF NewEntry
    <3> QED
      BY <3>2, <3>3
  <2>7. lit = <<lit[1], arrSolution'[lit[1]]>>
    <3>1. arrSolution'[lit[1]] = lit[2]
      BY <1>13, <1>14, <2>2
    <3> QED
      BY <2>3, <3>1, Literals
  <2>8. \A l \in path : IsFalse(l)' /\ At(l[1])' < i
    <3> SUFFICES ASSUME NEW l \in path PROVE IsFalse(l)' /\ At(l[1])' < i
      OBVIOUS
    <3>1. l \in Literal /\ IsFalse(l) /\ At(l[1]) < b
      BY <1>1, <1>16 DEF StateOk, FalseBelow, Lemma
    <3>2. i \in Nat /\ b <= i
      BY <1>2, <1>13, <1>14, <1>16, <1>26
    <3> QED
      BY ONLY <1>16, <1>17, <3>1, <3>2, FalseKept
  <2>9. Reason(i)'
    BY <2>5, <2>6, <2>7, <2>8 DEF Reason
  <2>10. Implied(path \cup {lit})
    BY <1>1, <1>3, <2>3
  <2> QED
    BY <2>5, <2>6, <2>9, <2>10
<1> QED
  BY <1>15, <1>24, <1>25, <1>26, DeductionGrows DEF levelVars

LEMMA SmurfTransitionKeeps ==
  ASSUME IInv, NEW f \in Fn, NEW v \in Var, SmurfTransition(f, v)
  PROVE  IInv'
<1> DEFINE next == set_variable(pCurrentState[f], v, arrSolution[v])
           path == arrSmurfPath[f] \cup {<<v, NEG(arrSolution[v])>>}
           new  == SetToSeq({lit \in Inferences(next) : IsUnknown(lit)})
           lemmas == [i \in DOMAIN new |-> path \cup {new[i]}]
<1>1. pc = "deduce" /\ Known(v) /\ UNCHANGED <<problem, resultVars>>
  BY DEF SmurfTransition, InstantiatedVbles, Known
<1>2. /\ path \in Lemma
      /\ StateOk(problem[f], next, path, Depth + 1)
      /\ \A lit \in Inferences(next) : Implied(path \cup {lit})
  BY <1>1, TransitionIs DEF IInv
<1>3. ASSUME NEW lit \in Inferences(next), IsFalse(lit), Conflict(path \cup {lit})
      PROVE  IInv'
  <2>1. PICK lemma : lemma = path \cup {lit}
    OBVIOUS
  <2>2. lemma \in Lemma
    BY <1>2, <2>1 DEF Inferences, Lemma
  <2>3. \A l \in lemma : IsFalse(l)
    BY <1>2, <1>3, <2>1 DEF StateOk, FalseBelow
  <2>4. Implied(lemma) /\ found' = found /\ found \subseteq Models
    BY <1>1, <1>2, <2>1 DEF resultVars, IInv, FoundOk
  <2>5. Conflict(lemma) /\ UNCHANGED <<problem, ret>>
    BY <1>1, <1>3, <2>1 DEF resultVars
  <2> QED
    BY <1>1, <2>2, <2>3, <2>4, <2>5, ConflictKeeps DEF Implied
<1>4. CASE /\ ~\E lit \in Inferences(next) : IsFalse(lit)
           /\ InferLiterals(new, FALSE, lemmas)
           /\ pCurrentState' = [pCurrentState EXCEPT ![f] = set_variable_all_infs(next)]
           /\ arrSmurfPath' = [arrSmurfPath EXCEPT ![f] = path]
           /\ UNCHANGED <<levelVars, cache, lemmaVars, unitVars, pc>>
  <2>1. \A i \in DOMAIN new : lemmas[i] = path \cup {new[i]}
    OBVIOUS
  <2>2. UNCHANGED <<problem, levelVars, cache, lemmaVars, unitVars, pc, resultVars>>
    BY <1>1, <1>4
  <2> HIDE DEF new, lemmas
  <2>3. PICK Lemmas : Lemmas = lemmas
    OBVIOUS
  <2>4. (\A i \in DOMAIN new : Lemmas[i] = path \cup {new[i]}) /\ InferLiterals(new, FALSE, Lemmas)
    BY <1>4, <2>1, <2>3
  <2> QED
    BY <1>1, <1>4, <2>2, <2>4, TransitionInfers DEF new
<1> QED
  BY <1>3, <1>4 DEF SmurfTransition

-----------------------------------------------------------------------------
(* A choice *)

LEMMA SelectNewBranchPointKeeps ==
  ASSUME IInv, NEW lit \in Literal, SelectNewBranchPoint(lit)
  PROVE  IInv'
<1> USE DEF IInv
<1> DEFINE level == [nBranchVble |-> lit[1], state |-> pCurrentState, path |-> arrSmurfPath]
<1>1. /\ pc = "deduce" /\ pc' = "deduce" /\ ~Known(lit[1])
      /\ InferLiterals(<<lit>>, FALSE, <<NO_LEMMA>>)
      /\ arrChoicePointStack' = Append(arrChoicePointStack, level)
      /\ UNCHANGED <<problem, smurfVars, unitLemmas, cache, lemmaVars, unitVars, pc, resultVars>>
  BY DEF SelectNewBranchPoint, Deduced, IsUnknown, Known
<1>2. lit[1] \in Var /\ NO_LEMMA \in Lemma
  BY Literals DEF Lemma, NO_LEMMA
<1>3. /\ TrailOk' /\ SameBelow(Depth + 1) /\ Depth' = Depth + 1
      /\ arrBacktrackStack'[Depth + 1] = NewEntry(lit, FALSE, NO_LEMMA)
      /\ At(lit[1])' = Depth + 1 /\ Known(lit[1])'
  BY <1>1, <1>2, InferredOne
<1>4. /\ Depth \in Nat /\ \A v \in Var : Known(v) => At(v) \in 1..Depth
  BY TrailIs
<1>5. PICK b \in Nat : b = Depth + 1
  BY <1>4
<1>6. PICK d \in Nat : d = b + 1 /\ b <= d /\ b <= b
  BY <1>4, <1>5
<1>7. Depth' + 1 = d
  BY <1>3, <1>5, <1>6
<1>8. SameBelow(b) /\ TrailOk /\ TrailOk'
  BY <1>3, <1>5
<1>9. level \in Level /\ level.nBranchVble = lit[1]
  BY <1>2 DEF Level, TypesOk
<1>10. /\ Slot \in Nat /\ Slot' = Slot + 1 /\ arrChoicePointStack' \in Seq(Level)
       /\ \A k \in 1..Slot : arrChoicePointStack'[k] = arrChoicePointStack[k]
       /\ arrChoicePointStack'[Slot + 1] = level
  <2>1. arrChoicePointStack \in Seq(Level)
    BY DEF LevelsOk
  <2> HIDE DEF level
  <2> QED
    BY <1>1, <1>9, <2>1, AppendProperties DEF Slot
<1>11. PICK n \in Nat : n = Slot + 1 /\ n = Slot'
  BY <1>10
<1>12. \A k \in 1..Slot : ChoiceAt(k) \in 1..Depth /\ ChoiceAt(k) < b
  <2>1. \A k \in 1..Slot : ChoiceAt(k) \in 1..Depth
    BY LevelIs
  <2> QED
    BY <1>4, <1>5, <2>1
<1>13. \A k \in 1..Slot : LevelOk(k)' /\ ChoiceAt(k)' = ChoiceAt(k) /\ ChoiceVar(k)' = ChoiceVar(k)
  <2>1. \A k \in 1..Slot : \A m \in found' \ found : m[ChoiceVar(k)] = arrSolution[ChoiceVar(k)]
    BY <1>1 DEF resultVars
  <2> QED
    BY <1>1, <1>8, <1>10, <1>12, <2>1, LevelKept
<1>14. ChoiceVar(n)' = lit[1] /\ ChoiceAt(n)' = b
  <2>1. arrChoicePointStack'[n].nBranchVble = lit[1]
    BY <1>9, <1>10, <1>11
  <2> QED
    BY <1>3, <1>5, <2>1 DEF ChoiceVar, ChoiceAt, At
<1>15. \A f \in Fn : /\ StateOk(problem[f], pCurrentState[f], arrSmurfPath[f], b)'
                     /\ StateOk(problem[f], pCurrentState[f], arrSmurfPath[f], d)'
  <2> SUFFICES ASSUME NEW f \in Fn
               PROVE  /\ StateOk(problem[f], pCurrentState[f], arrSmurfPath[f], b)'
                      /\ StateOk(problem[f], pCurrentState[f], arrSmurfPath[f], d)'
    OBVIOUS
  <2>1. PICK F : F = problem[f]
    OBVIOUS
  <2>2. PICK s : s = pCurrentState[f]
    OBVIOUS
  <2>3. PICK path \in Lemma : path = arrSmurfPath[f]
    BY DEF TypesOk
  <2>4. StateOk(F, s, path, b)
    BY <1>1, <1>5, <2>1, <2>2, <2>3 DEF StatesOk
  <2>5. StateOk(F, s, path, b)' /\ StateOk(F, s, path, d)'
    BY ONLY <1>6, <1>8, <2>4, b \in Nat, d \in Nat, path \in Lemma, StateKept
  <2>6. problem'[f] = F /\ pCurrentState'[f] = s /\ arrSmurfPath'[f] = path
    BY <1>1, <2>1, <2>2, <2>3 DEF smurfVars
  <2> QED
    BY <2>5, <2>6
<1>16. LevelsOk'
  <2>1. LevelOk(n)'
    <3>1. PICK v \in Var : v = lit[1]
      BY <1>2
    <3>2. Known(v)' /\ At(v)' = b
      BY <1>3, <1>5, <3>1
    <3>3. \A m \in found : ~AgreesBelow(m, b)'
      BY <1>1, <1>5, <1>6, <1>8, AgreesKept DEF FoundOk
    <3>4. PICK c : c = arrChoicePointStack'[n]
      OBVIOUS
    <3>5. c.nBranchVble = v /\ c.state = pCurrentState /\ c.path = arrSmurfPath
      BY <1>10, <1>11, <3>1, <3>4
    <3>6. \A f \in Fn : StateOk(problem[f], c.state[f], c.path[f], b)'
      BY <1>1, <1>15, <3>5 DEF smurfVars
    <3>7. found' = found
      BY <1>1 DEF resultVars
    <3> QED
      BY <1>10, <3>2, <3>3, <3>4, <3>5, <3>6, <3>7 DEF LevelOk
  <2>2. \A k \in 1..Slot' : k \in 1..Slot \/ k = n
    BY <1>10, <1>11
  <2>3. \A k \in 1..Slot' : LevelOk(k)'
    BY <1>13, <2>1, <2>2
  <2>4. ASSUME NEW j \in 1..Slot', NEW k \in 1..Slot', j < k PROVE ChoiceAt(j)' < ChoiceAt(k)'
    <3>1. j \in 1..Slot
      BY <1>10, <2>4
    <3>2. CASE k \in 1..Slot
      BY <1>13, <2>4, <3>1, <3>2 DEF LevelsOk
    <3>3. CASE k = n
      BY <1>12, <1>13, <1>14, <3>1, <3>3
    <3> QED
      BY <2>2, <3>2, <3>3
  <2> QED
    BY <1>10, <2>3, <2>4 DEF LevelsOk
<1>17. ListsOk'
  <2>1. unitLemmas' = unitLemmas
    BY <1>1
  <2> SUFFICES ASSUME NEW s \in 0..NumVars PROVE ListOk(s)'
    BY <2>1 DEF ListsOk
  <2>2. s > 0 /\ s <= Slot => ChoiceAt(s)' = ChoiceAt(s)
    BY <1>10, <1>13
  <2>3. s > Slot => unitLemmas[s] = <<>>
    BY DEF ListsOk, ListOk
  <2>4. ASSUME NEW i \in 1..Len(unitLemmas[s])
        PROVE  /\ At(unitLemmas[s][i].nWatchedVble0) < b
               /\ s < Slot' => At(unitLemmas[s][i].nWatchedVble0) < ChoiceAt(s + 1)'
    <3>1. PICK p \in LemmaInfo : p = unitLemmas[s][i] /\ Placed(p, s)
      BY ListEntryIs
    <3>2. At(p.nWatchedVble0) \in 1..Depth
      BY <3>1, InUseAt DEF Placed
    <3>3. At(p.nWatchedVble0) < b
      BY <1>4, <1>5, <3>2
    <3>4. unitLemmas[s] # <<>>
      BY <2>4
    <3>5. s \in 0..Slot
      BY <1>10, <2>3, <3>4
    <3>6. CASE s < Slot
      <4>1. s + 1 \in 1..Slot
        BY <1>10, <3>6
      <4>2. ChoiceAt(s + 1)' = ChoiceAt(s + 1)
        BY <1>13, <4>1
      <4> QED
        BY <3>1, <3>3, <3>6, <4>2 DEF Placed
    <3>7. CASE s = Slot
      <4>1. s + 1 = n
        BY <1>11, <3>7
      <4>2. ChoiceAt(s + 1)' = b
        BY <1>14, <4>1
      <4> QED
        BY <3>1, <3>3, <4>2
    <3> QED
      BY <1>10, <3>5, <3>6, <3>7
  <2>5. s > Slot' \/ (s = Slot' /\ pc' = "pop") => unitLemmas[s] = <<>>
    BY <1>1, <1>10, <2>3
  <2> QED
    BY <1>8, <2>1, <2>2, <2>4, <2>5, ListKept
<1>18. \A i \in 1..Depth' : i \in 1..Depth \/ i = Depth + 1
  BY <1>3, <1>4
<1>19. PICK e : e = arrBacktrackStack'[Depth + 1]
  OBVIOUS
<1>20. e.atom = lit[1] /\ ~e.bWasChoicePoint /\ e.lemma = NO_LEMMA
  <2>1. e = NewEntry(lit, FALSE, NO_LEMMA)
    BY <1>3, <1>19
  <2>2. e.atom = lit[1] /\ e.lemma = NO_LEMMA
    BY ONLY <2>1 DEF NewEntry
  <2>3. ~e.bWasChoicePoint
    BY ONLY <2>1 DEF NewEntry
  <2> QED
    BY <2>2, <2>3
<1>21. \A i \in 1..Depth : i < b /\ arrBacktrackStack'[i] = arrBacktrackStack[i]
  BY <1>4, <1>5, <1>8 DEF SameBelow
<1>22. ReasonsOk'
  <2>1. \A k \in 1..Slot : k \in 1..Slot'
    BY <1>10
  <2>2. \A i \in 1..Depth : Chosen(i)' \/ Reason(i)'
    BY <1>8, <1>10, <1>21, <2>1, ReasonsKept
  <2>3. Chosen(b)'
    <3>1. n \in 1..Slot'
      BY <1>10, <1>11
    <3>2. arrChoicePointStack'[n].nBranchVble = lit[1]
      BY <1>9, <1>10, <1>11
    <3>3. arrBacktrackStack'[b].atom = lit[1]
      BY <1>5, <1>19, <1>20
    <3> QED
      BY <3>1, <3>2, <3>3 DEF Chosen
  <2> QED
    BY <1>5, <1>18, <2>2, <2>3 DEF ReasonsOk
<1>23. ImpliedOk'
  <2>1. \A L : Implied(L)' <=> Implied(L)
    BY <1>1 DEF Implied, Models, resultVars
  <2>2. ASSUME NEW i \in 1..Depth', arrBacktrackStack'[i].lemma # NO_LEMMA
        PROVE  Implied(arrBacktrackStack[i].lemma)'
    <3>1. i \in 1..Depth
      BY <1>18, <1>19, <1>20, <2>2
    <3>2. PICK L : L = arrBacktrackStack'[i].lemma
      OBVIOUS
    <3>3. Implied(L)
      BY <1>21, <2>2, <3>1, <3>2 DEF ImpliedOk
    <3> QED
      BY <2>1, <3>2, <3>3
  <2> QED
    BY <1>1, <2>1, <2>2 DEF ImpliedOk, unitVars, Implied, Models, resultVars
<1>24. ReversedOk'
  <2> SUFFICES ASSUME NEW i \in 1..Depth', arrBacktrackStack'[i].bWasChoicePoint
               PROVE  InLists(arrBacktrackStack'[i], unitLemmas', pUnitLemmaList')
    BY DEF ReversedOk
  <2>1. i \in 1..Depth
    BY <1>18, <1>19, <1>20
  <2>2. arrBacktrackStack'[i] = arrBacktrackStack[i]
    BY <1>21, <2>1
  <2>3. unitLemmas' = unitLemmas /\ pUnitLemmaList' = pUnitLemmaList
    BY <1>1 DEF unitVars
  <2> QED
    BY <2>1, <2>2, <2>3 DEF ReversedOk
<1>25. StatesOk'
  BY <1>1, <1>7, <1>15 DEF StatesOk
<1>26. ConflictOk'
  BY <1>1 DEF ConflictOk, lemmaVars
<1>27. PendingOk' /\ FlipOk' /\ UnitOk'
  <2>1. PendingOk'
    BY <1>1 DEF PendingOk, unitVars
  <2> QED
    BY <1>1, <2>1 DEF FlipOk, UnitOk
<1>28. FoundOk'
  <2>1. \A m : AgreesBelow(m, d)' => AgreesBelow(m, b)
    BY <1>6, <1>8, AgreesKept
  <2>2. \A m \in found : ~AgreesBelow(m, b)
    BY <1>1, <1>5 DEF FoundOk
  <2> QED
    BY <1>1, <1>7, <2>1, <2>2 DEF FoundOk, resultVars, Models
<1>29. TypesOk'
  BY <1>1 DEF TypesOk, smurfVars
<1> QED
  BY <1>3, <1>16, <1>17, <1>22, <1>23, <1>24, <1>25, <1>26, <1>27, <1>28, <1>29

-----------------------------------------------------------------------------
(* A solution *)

(* A model that is left and agrees with every choice agrees with all that  *)
(* was inferred from them.                                                 *)
LEMMA ChoicesDecide ==
  ASSUME TrailOk, LevelsOk, ReasonsOk, ImpliedOk, NEW m \in Models \ found,
         \A k \in 1..Slot : m[ChoiceVar(k)] = arrSolution[ChoiceVar(k)]
  PROVE  \A v \in Var : Known(v) => m[v] = arrSolution[v]
<1> DEFINE T == {i \in 1..Depth : m[arrBacktrackStack[i].atom]
                                    # arrSolution[arrBacktrackStack[i].atom]}
<1>1. T = {}
  <2> SUFFICES ASSUME T # {} PROVE FALSE
    OBVIOUS
  <2>1. T \subseteq Nat
    OBVIOUS
  <2>2. PICK i \in T : \A j \in T : i <= j
    <3> HIDE DEF T
    <3> QED
      BY <2>1, LeastNumber
  <2>3. PICK e \in Entry : e = arrBacktrackStack[i] /\ e.atom \in Var
    BY TrailIs
  <2>4. ~Chosen(i)
    BY <2>2 DEF Chosen, ChoiceVar
  <2>5. PICK this : this = <<e.atom, arrSolution[e.atom]>>
    OBVIOUS
  <2>6. this \in e.lemma /\ \A l \in e.lemma \ {this} : IsFalse(l) /\ At(l[1]) < i
    BY <2>3, <2>4, <2>5 DEF ReasonsOk, Reason
  <2>7. Implied(e.lemma)
    BY <2>3, <2>6 DEF ImpliedOk, NO_LEMMA
  <2>8. PICK l \in e.lemma : m[l[1]] = l[2]
    BY <2>7 DEF Implied
  <2>9. l # this
    BY <2>2, <2>3, <2>5, <2>8
  <2>10. l \in Literal /\ IsFalse(l) /\ At(l[1]) < i /\ l[1] \in Var /\ Known(l[1])
    <3>1. l \in Literal
      BY EntryIs DEF Lemma
    <3> QED
      BY <2>6, <2>9, <3>1, FalseIsKnown
  <2>11. m[l[1]] # arrSolution[l[1]]
    BY <2>8, <2>10, Literals DEF IsFalse
  <2>12. At(l[1]) \in 1..Depth /\ arrBacktrackStack[At(l[1])].atom = l[1]
    BY <2>10, TrailIs
  <2>13. At(l[1]) \in T
    BY <2>11, <2>12
  <2> QED
    BY <2>2, <2>10, <2>12, <2>13
<1>2. \A v \in Var : Known(v) => At(v) \in 1..Depth /\ arrBacktrackStack[At(v)].atom = v
  BY TrailIs
<1> QED
  BY <1>1, <1>2

LEMMA RecordSolutionKeeps ==
  ASSUME IInv, RecordSolution
  PROVE  IInv'
<1> USE DEF IInv
<1> DEFINE L == {<<v, NEG(arrSolution[v])>> :
                   v \in {arrChoicePointStack[i].nBranchVble : i \in 1..Slot}}
<1>1. pc = "deduce" /\ Conflict(L) /\ UNCHANGED <<problem, ret>>
      /\ found' = found \cup Cube(arrSolution)
      /\ \A f \in Fn : pCurrentState[f] = true_ptr
  BY DEF RecordSolution, Deduced, Unresolved
<1>2. \A k \in 1..Slot : ChoiceVar(k) \in Var /\ Known(ChoiceVar(k))
  BY LevelIs
<1>3. \A v \in Var : Known(v) => arrSolution[v] \in Value /\ At(v) <= Depth
  BY TrailIs
<1>4. arrSolution \in Partial
  BY DEF TrailOk
<1>5. \A l \in L : l \in Literal /\ IsFalse(l)
  <2> SUFFICES ASSUME NEW l \in L PROVE l \in Literal /\ IsFalse(l)
    OBVIOUS
  <2>1. PICK k \in 1..Slot : l = <<ChoiceVar(k), NEG(arrSolution[ChoiceVar(k)])>>
    BY DEF ChoiceVar
  <2>2. PICK v \in Var : v = ChoiceVar(k) /\ Known(v)
    BY <1>2
  <2>3. PICK val \in Value : val = arrSolution[v]
    BY <1>3, <2>2
  <2>4. l = <<v, NEG(val)>> /\ l \in Literal /\ NEG(NEG(val)) = val
    BY <2>1, <2>2, <2>3, Literals
  <2>5. l[1] = v /\ l[2] = NEG(val)
    BY <2>4
  <2> QED
    BY <2>3, <2>4, <2>5 DEF IsFalse
<1>6. \A m \in Cube(arrSolution) : m \in Assignment
                                   /\ \A v \in Var : Known(v) => m[v] = arrSolution[v]
  <2>1. \A m \in Cube(arrSolution) : m \in Assignment
    BY DEF Cube
  <2> QED
    BY <1>4, <2>1, CubeIs DEF Known
<1>7. Cube(arrSolution) \subseteq Models
  <2> SUFFICES ASSUME NEW m \in Cube(arrSolution), NEW f \in Fn PROVE m \in problem[f]
    BY <1>6 DEF Models
  <2>1. AgreesBelow(m, Depth + 1)
    <3>1. \A v \in Var : At(v) < Depth + 1 => Known(v)
      BY TrailIs
    <3> QED
      BY <1>6, <3>1 DEF AgreesBelow
  <2>2. m \in pCurrentState[f]
    BY <1>1, <1>6 DEF true_ptr
  <2> QED
    BY <1>1, <2>1, <2>2 DEF StatesOk, StateOk
<1>8. \A m \in Models \ found' : \E l \in L : m[l[1]] = l[2]
  <2> SUFFICES ASSUME NEW m \in Models \ found', \A l \in L : m[l[1]] # l[2] PROVE FALSE
    OBVIOUS
  <2>1. m \in Models \ found /\ m \in Assignment
    BY <1>1 DEF Models
  <2>2. \A k \in 1..Slot : m[ChoiceVar(k)] = arrSolution[ChoiceVar(k)]
    <3> SUFFICES ASSUME NEW k \in 1..Slot PROVE m[ChoiceVar(k)] = arrSolution[ChoiceVar(k)]
      OBVIOUS
    <3>1. PICK v \in Var : v = ChoiceVar(k) /\ Known(v)
      BY <1>2
    <3>2. PICK l : l = <<v, NEG(arrSolution[v])>>
      OBVIOUS
    <3>3. l \in L
      BY <3>1, <3>2 DEF ChoiceVar
    <3>4. m[v] # NEG(arrSolution[v])
      BY <3>2, <3>3
    <3>5. m[v] \in Value /\ arrSolution[v] \in Value
      BY <1>3, <2>1, <3>1 DEF Assignment
    <3> QED
      BY <3>1, <3>4, <3>5, Literals
  <2>3. \A v \in Var : Known(v) => m[v] = arrSolution[v]
    BY <2>1, <2>2, ChoicesDecide
  <2>4. m \in Cube(arrSolution)
    BY <1>4, <2>1, <2>3, CubeIs DEF Known
  <2> QED
    BY <1>1, <2>4
<1>9. L \in Lemma /\ found \subseteq found' /\ found' \subseteq Models
  BY <1>1, <1>5, <1>7 DEF Lemma, FoundOk
<1>10. \A k \in 1..Slot : \A m \in found' \ found : m[ChoiceVar(k)] = arrSolution[ChoiceVar(k)]
  BY <1>1, <1>2, <1>6
<1> HIDE DEF L
<1> QED
  BY <1>1, <1>5, <1>8, <1>9, <1>10, ConflictKeeps

-----------------------------------------------------------------------------
(* Back to a level *)

LEMMA ConcatIs ==
  ASSUME NEW s \in Seq(LemmaInfo), NEW t \in Seq(LemmaInfo), NEW u \in {s \o t}
  PROVE  /\ u \in Seq(LemmaInfo)
         /\ \A i \in 1..Len(s) : i \in 1..Len(u) /\ u[i] = s[i]
         /\ \A j \in 1..Len(t) : Len(s) + j \in 1..Len(u) /\ u[Len(s) + j] = t[j]
         /\ \A i \in 1..Len(u) : \/ i \in 1..Len(s)
                                 \/ \E j \in 1..Len(t) : i = Len(s) + j
<1>1. PICK k \in Nat : k = Len(s)
  BY LenProperties
<1>2. PICK n \in Nat : n = Len(t)
  BY LenProperties
<1>3. /\ u \in Seq(LemmaInfo) /\ Len(u) = k + n
      /\ \A i \in 1..k + n : u[i] = IF i <= k THEN s[i] ELSE t[i - k]
  <2>1. /\ s \o t \in Seq(LemmaInfo) /\ Len(s \o t) = Len(s) + Len(t)
        /\ \A i \in 1..Len(s) + Len(t) :
             (s \o t)[i] = IF i <= Len(s) THEN s[i] ELSE t[i - Len(s)]
    BY ONLY ConcatProperties, s \in Seq(LemmaInfo), t \in Seq(LemmaInfo)
  <2>2. u = s \o t
    OBVIOUS
  <2> QED
    BY ONLY <1>1, <1>2, <2>1, <2>2
<1>4. \A i \in 1..k : i \in 1..Len(u) /\ u[i] = s[i]
  BY <1>3
<1>5. \A j \in 1..n : k + j \in 1..Len(u) /\ u[k + j] = t[j]
  <2> SUFFICES ASSUME NEW j \in 1..n PROVE k + j \in 1..Len(u) /\ u[k + j] = t[j]
    OBVIOUS
  <2>1. k + j \in 1..k + n /\ ~(k + j <= k) /\ (k + j) - k = j
    OBVIOUS
  <2> QED
    BY <1>3, <2>1
<1>6. \A i \in 1..Len(u) : i \in 1..k \/ \E j \in 1..n : i = k + j
  <2> SUFFICES ASSUME NEW i \in 1..k + n, i > k PROVE \E j \in 1..n : i = k + j
    BY <1>3
  <2>1. i - k \in 1..n /\ i = k + (i - k)
    OBVIOUS
  <2> QED
    BY <2>1
<1> QED
  BY <1>1, <1>2, <1>3, <1>4, <1>5, <1>6

LEMMA FiniteVars ==
  /\ IsFiniteSet(Var) /\ Cardinality(Var) = NumVars
  /\ \A T \in SUBSET Var : IsFiniteSet(T) /\ Cardinality(T) \in 0..NumVars
<1>1. 1 \in Int /\ NumVars \in Int /\ NumVars >= 1
  BY NumVarsAssumption
<1>2. IsFiniteSet(Var) /\ Cardinality(Var) = NumVars
  <2>1. /\ IsFiniteSet(1..NumVars)
        /\ Cardinality(1..NumVars) = IF 1 > NumVars THEN 0 ELSE NumVars - 1 + 1
    BY <1>1, FS_Interval
  <2> QED
    BY <1>1, <2>1 DEF Var
<1>3. ASSUME NEW T \in SUBSET Var PROVE IsFiniteSet(T) /\ Cardinality(T) \in 0..NumVars
  <2>1. IsFiniteSet(T) /\ Cardinality(T) <= Cardinality(Var)
    BY <1>2, FS_Subset
  <2>2. Cardinality(T) \in Nat
    BY <2>1, FS_CardinalityType
  <2> QED
    BY <1>1, <1>2, <2>1, <2>2
<1> QED
  BY <1>2, <1>3

(* Every pending lemma has a watch that is not on the trail, until the     *)
(* lemmas of the level join. *)
LEMMA BackJumpKeeps ==
  ASSUME IInv, BackJump
  PROVE  IInv'
<1> USE DEF IInv
<1>1. /\ pc = "backjump" /\ pc' = "pop" /\ Slot > 0
      /\ pUnitLemmaList' = pUnitLemmaList \o unitLemmas[Slot]
      /\ unitLemmas' = [unitLemmas EXCEPT ![Slot] = <<>>]
      /\ nNumForcedInfsBelowCurrentCP' =
           Cardinality({v \in Atoms(arrTempLemma) : OnLevel(v) /\ NotYetPopped(v)})
      /\ nOldBacktrackStackIndex' = arrBacktrackStackIndex[Top.nBranchVble]
      /\ pCurrentState' = Top.state /\ arrSmurfPath' = Top.path
      /\ UNCHANGED <<problem, trailVars, arrChoicePointStack, cache, arrTempLemma,
                     arrLemmaFlag, arrUnsetLemmaFlagVars, nFlipped, nKept, resultVars>>
  BY DEF BackJump
<1>2. PICK b \in Nat : b = Depth + 1
  BY TrailLength
<1>3. TrailOk' /\ SameBelow(b) /\ Depth' = Depth /\ SameBelow(Depth + 1)
  BY <1>1, SameTrail
<1>4. Grows
  <2>1. Depth' >= Depth
    BY <1>3, TrailLength
  <2> QED
    BY <1>1, <1>3, <2>1 DEF Grows, resultVars
<1>5. /\ LevelsOk' /\ Slot' = Slot
      /\ \A k \in 1..Slot : ChoiceAt(k)' = ChoiceAt(k) /\ ChoiceVar(k)' = ChoiceVar(k)
  BY <1>4, LevelsGrow
<1>6. Slot \in Nat /\ Slot \in 1..Slot /\ Slot <= NumVars
  BY <1>1, SlotBounded
<1>7. PICK n \in 1..Slot : n = Slot
  BY <1>6
<1>8. PICK c \in Level : c = arrChoicePointStack[n]
  BY LevelIs
<1>9. /\ c = Top /\ c.nBranchVble = ChoiceVar(n) /\ c.nBranchVble \in Var
      /\ c.state \in [Fn -> Function] /\ c.path \in [Fn -> Lemma]
  BY <1>7, <1>8, LevelIs DEF Top, ChoiceVar
<1>10. PICK a \in Nat : a = ChoiceAt(n) /\ a \in 1..Depth /\ a <= b /\ a <= a
  <2>1. ChoiceAt(n) \in 1..Depth /\ Depth \in Nat
    BY LevelIs, TrailLength
  <2> QED
    BY <1>2, <2>1
<1>11. ChoiceAt(n)' = a /\ ChoiceAt(Slot)' = a /\ At(c.nBranchVble) = a
  BY <1>5, <1>7, <1>9, <1>10 DEF ChoiceAt
<1>12. StatesOk'
  <2> SUFFICES ASSUME NEW f \in Fn
               PROVE  StateOk(problem[f], pCurrentState[f], arrSmurfPath[f], a)'
    BY <1>1, <1>11 DEF StatesOk
  <2>1. PICK F : F = problem[f]
    OBVIOUS
  <2>2. PICK s : s = c.state[f]
    OBVIOUS
  <2>3. PICK path \in Lemma : path = c.path[f]
    BY <1>9
  <2>4. StateOk(F, s, path, a)
    <3>1. LevelOk(n)
      BY DEF LevelsOk
    <3> QED
      BY <1>8, <1>11, <2>1, <2>2, <2>3, <3>1 DEF LevelOk
  <2>5. StateOk(F, s, path, a)'
    BY ONLY <1>3, <1>10, <2>4, TrailOk, a \in Nat, b \in Nat, path \in Lemma, StateKept
  <2>6. problem'[f] = F /\ pCurrentState'[f] = s /\ arrSmurfPath'[f] = path
    BY <1>1, <1>9, <2>1, <2>2, <2>3
  <2> QED
    BY <2>5, <2>6
<1>13. TypesOk'
  BY <1>1, <1>9 DEF TypesOk
<1>14. ReasonsOk'
  BY <1>3, <1>4, ReasonsGrow DEF ReasonsOk
<1>15. PICK old \in Seq(LemmaInfo) : old = pUnitLemmaList
  BY DEF PendingOk
<1>16. PICK unit \in Seq(LemmaInfo) : unit = unitLemmas[n]
  BY <1>6, <1>7 DEF ListsOk
<1>17. PICK new \in Seq(LemmaInfo) :
         /\ new = pUnitLemmaList'
         /\ \A i \in 1..Len(old) : i \in 1..Len(new) /\ new[i] = old[i]
         /\ \A j \in 1..Len(unit) : Len(old) + j \in 1..Len(new) /\ new[Len(old) + j] = unit[j]
         /\ \A i \in 1..Len(new) : \/ i \in 1..Len(old)
                                   \/ \E j \in 1..Len(unit) : i = Len(old) + j
  <2>1. PICK new : new = old \o unit
    OBVIOUS
  <2>2. new = pUnitLemmaList'
    BY <1>1, <1>7, <1>15, <1>16, <2>1
  <2>3. /\ new \in Seq(LemmaInfo)
        /\ \A i \in 1..Len(old) : i \in 1..Len(new) /\ new[i] = old[i]
        /\ \A j \in 1..Len(unit) : Len(old) + j \in 1..Len(new) /\ new[Len(old) + j] = unit[j]
        /\ \A i \in 1..Len(new) : \/ i \in 1..Len(old)
                                  \/ \E j \in 1..Len(unit) : i = Len(old) + j
    BY ONLY <2>1, ConcatIs, old \in Seq(LemmaInfo), unit \in Seq(LemmaInfo),
            new \in {old \o unit}
  <2> QED
    BY ONLY <2>2, <2>3
<1>18. /\ \A s \in 0..NumVars : s # n => unitLemmas'[s] = unitLemmas[s]
       /\ unitLemmas'[n] = <<>> /\ unitLemmas' \in [0..NumVars -> Seq(LemmaInfo)]
  BY <1>1, <1>6, <1>7 DEF ListsOk
<1>19. ImpliedOk'
  <2>1. \A j \in 1..Len(unit) : Implied(unit[j].lemma)
    BY <1>6, <1>7, <1>16 DEF ImpliedOk
  <2>2. \A i \in 1..Len(old) : Implied(old[i].lemma)
    BY <1>15 DEF ImpliedOk
  <2>3. \A i \in 1..Len(new) : Implied(new[i].lemma)
    BY <1>17, <2>1, <2>2
  <2>4. \A s \in 0..NumVars : \A i \in 1..Len(unitLemmas'[s]) : Implied(unitLemmas'[s][i].lemma)
    <3>1. \A s \in 0..NumVars : s = n => \A i \in 1..Len(unitLemmas'[s]) : FALSE
      BY <1>18
    <3> QED
      BY <1>18, <3>1 DEF ImpliedOk
  <2>5. arrBacktrackStack' = arrBacktrackStack /\ cache' = cache /\ found' = found
    BY <1>1 DEF trailVars, resultVars
  <2>6. \A i \in 1..Depth' : arrBacktrackStack'[i].lemma # NO_LEMMA =>
                               Implied(arrBacktrackStack'[i].lemma)
    BY <1>3, <2>5 DEF ImpliedOk
  <2>7. \A L \in cache' : Implied(L)
    BY <2>5 DEF ImpliedOk
  <2> QED
    BY <1>1, <1>17, <2>3, <2>4, <2>5, <2>6, <2>7, ImpliedParts
<1>20. ListsOk'
  <2> SUFFICES ASSUME NEW s \in 0..NumVars PROVE ListOk(s)'
    BY <1>18 DEF ListsOk
  <2>1. CASE s = n
    <3>1. unitLemmas'[s] = <<>> /\ Len(unitLemmas'[s]) = 0
      BY <1>18, <2>1
    <3> QED
      BY <3>1 DEF ListOk, Distinct
  <2>2. CASE s # n
    <3>1. s > 0 /\ s <= Slot => ChoiceAt(s)' = ChoiceAt(s)
      BY <1>5, <1>6
    <3>2. ASSUME NEW i \in 1..Len(unitLemmas[s])
          PROVE  /\ At(unitLemmas[s][i].nWatchedVble0) < b
                 /\ s < Slot' => At(unitLemmas[s][i].nWatchedVble0) < ChoiceAt(s + 1)'
      <4>1. PICK p \in LemmaInfo : p = unitLemmas[s][i] /\ Placed(p, s)
        BY ListEntryIs
      <4>2. At(p.nWatchedVble0) \in 1..Depth /\ Depth \in Nat
        BY <4>1, InUseAt, TrailLength DEF Placed
      <4>3. s < Slot => s + 1 \in 1..Slot
        BY <1>6
      <4>4. s < Slot' => At(p.nWatchedVble0) < ChoiceAt(s + 1)'
        BY <1>5, <4>1, <4>3 DEF Placed
      <4>5. At(p.nWatchedVble0) < b
        BY <1>2, <4>2
      <4> QED
        BY <4>1, <4>4, <4>5
    <3>3. s > Slot' \/ (s = Slot' /\ pc' = "pop") => unitLemmas[s] = <<>>
      BY <1>5, <1>7, <2>2 DEF ListsOk, ListOk
    <3> QED
      BY <1>3, <1>18, <2>2, <3>1, <3>2, <3>3, ListKept
  <2> QED
    BY <2>1, <2>2
<1>21. ReversedOk'
  <2>1. ASSUME NEW e, NEW j \in 1..Len(old), Made(old[j], e)
        PROVE  \E k \in 1..Len(new) : Made(new[k], e)
    BY <1>17, <2>1
  <2>2. ASSUME NEW e, NEW s \in 0..NumVars, NEW j \in 1..Len(unitLemmas[s]),
               Made(unitLemmas[s][j], e), s # n
        PROVE  \E r \in 0..NumVars : \E k \in 1..Len(unitLemmas'[r]) : Made(unitLemmas'[r][k], e)
    BY <1>18, <2>2
  <2>3. ASSUME NEW e, NEW j \in 1..Len(unit), Made(unit[j], e)
        PROVE  \E k \in 1..Len(new) : Made(new[k], e)
    <3>1. PICK k \in 1..Len(new) : new[k] = unit[j]
      BY <1>17
    <3> QED
      BY <2>3, <3>1
  <2>4. \A e : InLists(e, unitLemmas, old) => InLists(e, unitLemmas', new)
    BY <1>16, <2>1, <2>2, <2>3 DEF InLists
  <2>5. arrBacktrackStack' = arrBacktrackStack
    BY <1>1 DEF trailVars
  <2> QED
    BY <1>3, <1>15, <1>17, <2>4, <2>5 DEF ReversedOk
<1>22. \A v \in Var : /\ At(v)' = At(v) /\ arrSolution'[v] = arrSolution[v]
                      /\ (Known(v)' <=> Known(v))
  BY <1>1 DEF trailVars, At, Known
<1>23. Live' = Live
  BY <1>1 DEF Live, Known, trailVars
<1>24. Atoms(arrTempLemma) \subseteq Var /\ \A l \in arrTempLemma : l[1] \in Atoms(arrTempLemma)
  BY AtomsAreVars DEF ConflictOk
<1>25. ConflictOk'
  <2> DEFINE before == {v \in Atoms(arrTempLemma) : OnLevel(v) /\ NotYetPopped(v)}
             after  == {v \in arrLemmaFlag : At(v) \in a..Depth}
  <2>1. Depth \in Nat /\ \A v \in Var : /\ At(v) \in Nat
                                        /\ Known(v) <=> At(v) <= Depth
    BY TrailIs
  <2>2. arrLemmaFlag = Atoms(arrTempLemma) \cup arrUnsetLemmaFlagVars
    BY <1>1 DEF ConflictOk
  <2>3. \A v \in arrUnsetLemmaFlagVars : v \in Var /\ ~Known(v)
    BY <1>1 DEF ConflictOk
  <2>4. \A v \in Var : OnLevel(v) <=> At(v) >= a
    BY <1>9, <1>11 DEF OnLevel, At
  <2>5. \A v \in Atoms(arrTempLemma) : NotYetPopped(v) <=> Known(v)
    <3>1. CASE nOldBacktrackStackIndex = 0 /\ Live = arrTempLemma
      <4>1. \A l \in arrTempLemma : Known(l[1])
        BY <3>1 DEF Live
      <4>2. \A v \in Atoms(arrTempLemma) : Known(v)
        BY <4>1 DEF Atoms
      <4> QED
        BY <3>1, <4>2 DEF NotYetPopped
    <3>2. CASE nOldBacktrackStackIndex = Depth + 1
      BY <1>24, <2>1, <3>2 DEF NotYetPopped, At
    <3> QED
      BY <1>1, <3>1, <3>2 DEF ConflictOk
  <2>6. before = after
    <3>1. \A v \in Var : At(v) \in a..Depth <=> At(v) >= a /\ Known(v)
      BY <1>10, <2>1
    <3> QED
      BY <1>24, <2>2, <2>3, <2>4, <2>5, <3>1
  <2>7. after = OnLevelFlagged'
    BY <1>1, <1>3, <1>11 DEF OnLevelFlagged, trailVars, At
  <2>8. Cardinality(before) \in 0..NumVars
    <3>1. before \in SUBSET Var
      BY <1>24
    <3> HIDE DEF before
    <3> QED
      BY <3>1, FiniteVars
  <2>9. nNumForcedInfsBelowCurrentCP' = Cardinality(OnLevelFlagged)'
        /\ nNumForcedInfsBelowCurrentCP' \in 0..NumVars
    BY <1>1, <2>6, <2>7, <2>8
  <2>10. \A l \in Live' : IsFalse(l)'
    BY <1>1, <1>23 DEF ConflictOk, IsFalse, trailVars
  <2>11. \A v \in arrUnsetLemmaFlagVars' : ~Known(v)'
    BY <1>1, <1>22, <2>3
  <2>12. Implied(Live)'
    BY <1>1, <1>23 DEF ConflictOk, Implied, Models, resultVars
  <2>13. nOldBacktrackStackIndex' = ChoiceAt(Slot)'
    BY <1>1, <1>9, <1>11 DEF At
  <2> QED
    BY <1>1, <1>5, <2>2, <2>9, <2>10, <2>11, <2>12, <2>13 DEF ConflictOk
<1>26. \A i \in 1..Len(old) : /\ old[i] \in LemmaInfo /\ ~Known(old[i].nWatchedVble0)
                              /\ InfoOk(old[i], Depth + 1)
  BY <1>1, <1>15 DEF PendingOk, PendingOne
<1>27. \A j \in 1..Len(unit) : unit[j] \in LemmaInfo /\ Placed(unit[j], n)
  <2>1. n \in 0..NumVars
    BY <1>6, <1>7
  <2> QED
    BY <1>16, <2>1, ListEntryIs
<1>28. \A p \in LemmaInfo : /\ p.nWatchedVble0 \in Var
                            /\ Missed(p)' <=> Missed(p)
  BY <1>1, <1>3, InfoIs DEF Missed, At, trailVars
<1>29. ASSUME NEW i \in 1..Len(new) PROVE PendingOne(new[i])'
  <2>1. CASE i \in 1..Len(old)
    <3>1. PICK p \in LemmaInfo : p = old[i] /\ ~Known(p.nWatchedVble0) /\ InfoOk(p, b)
      BY <1>2, <1>26, <2>1
    <3>2. ~Known(p.nWatchedVble0)' /\ InfoOk(p, b)'
      BY <1>3, <1>22, <1>28, <3>1, InfoKept
    <3>3. b = Depth' + 1
      BY <1>2, <1>3
    <3> QED
      BY <1>17, <2>1, <3>1, <3>2, <3>3 DEF PendingOne
  <2>2. ASSUME NEW j \in 1..Len(unit), i = Len(old) + j PROVE PendingOne(new[i])'
    <3>1. PICK p \in LemmaInfo : p = unit[j] /\ Placed(p, n)
      BY <1>27
    <3>2. At(p.nWatchedVble0) \in 1..Depth /\ Depth \in Nat
      BY <3>1, InUseAt, TrailLength DEF Placed
    <3>3. InUse(p)' /\ At(p.nWatchedVble0)' = At(p.nWatchedVble0)
      BY <1>2, <1>3, <3>1, <3>2, InUseKept DEF Placed
    <3>4. a < At(p.nWatchedVble0)
      BY <1>10, <3>1 DEF Placed
    <3>5. new[i] = p
      BY <1>17, <2>2, <3>1
    <3> QED
      BY <1>1, <1>11, <3>3, <3>4, <3>5 DEF PendingOne
  <2> QED
    BY <1>17, <2>1, <2>2
<1>30. ASSUME NEW i \in 1..Len(new), NEW j \in 1..Len(new), i # j,
              new[i].nWatchedVble0 = new[j].nWatchedVble0
       PROVE  ~Known(new[i].nWatchedVble0)' /\ PairOk(new[i], new[j])'
  <2>1. \A k \in 1..Len(new) : k \in 1..Len(old) => new[k] = old[k] /\ ~Known(new[k].nWatchedVble0)
    BY <1>17, <1>26
  <2>2. \A k \in 1..Len(unit) : Known(unit[k].nWatchedVble0)
    BY <1>27 DEF Placed, InUse
  <2>3. \A k \in 1..Len(new) : k \in 1..Len(old) \/ Known(new[k].nWatchedVble0)
    BY <1>17, <2>2
  <2>4. CASE i \in 1..Len(old)
    <3>1. j \in 1..Len(old)
      BY <1>30, <2>1, <2>3, <2>4
    <3>2. PICK p \in LemmaInfo : p = old[i] /\ p = new[i]
      BY <1>26, <2>1, <2>4
    <3>3. PICK r \in LemmaInfo : r = old[j] /\ r = new[j]
      BY <1>26, <2>1, <3>1
    <3>4. ~Known(p.nWatchedVble0) /\ PairOk(p, r)
      BY <1>1, <1>15, <1>30, <2>4, <3>1, <3>2, <3>3 DEF PendingOk
    <3>5. PairOk(p, r)'
      <4>1. \A l \in Live : arrSolution'[l[1]] = arrSolution[l[1]]
        BY <1>1 DEF trailVars
      <4> QED
        BY <1>1, <1>23, <1>28, <3>4, <4>1 DEF PairOk
    <3> QED
      BY <1>22, <1>28, <3>2, <3>3, <3>4, <3>5
  <2>5. CASE i \notin 1..Len(old)
    <3>1. j \notin 1..Len(old)
      BY <1>30, <2>1, <2>3, <2>5
    <3>2. PICK u \in 1..Len(unit) : i = Len(old) + u
      BY <1>17, <2>5
    <3>3. PICK w \in 1..Len(unit) : j = Len(old) + w
      BY <1>17, <3>1
    <3>4. unit[u].nWatchedVble0 = unit[w].nWatchedVble0
      BY <1>17, <1>30, <3>2, <3>3
    <3>5. Distinct(unit)
      BY <1>6, <1>7, <1>16 DEF ListsOk, ListOk
    <3>6. u = w
      BY <3>4, <3>5 DEF Distinct
    <3> QED
      BY <1>30, <3>2, <3>3, <3>6
  <2> QED
    BY <2>4, <2>5
<1>31. PendingOk'
  BY <1>1, <1>17, <1>29, <1>30 DEF PendingOk
<1>32. FlipOk' /\ UnitOk' /\ FoundOk'
  BY <1>1 DEF FlipOk, UnitOk, FoundOk, Models, resultVars
<1> QED
  BY <1>3, <1>5, <1>12, <1>13, <1>14, <1>19, <1>20, <1>21, <1>25, <1>31, <1>32

LEMMA NowhereToBacktrackKeeps ==
  ASSUME IInv, NowhereToBacktrack
  PROVE  IInv'
<1> USE DEF IInv
<1>1. /\ pc = "backjump" /\ pc' = "done"
      /\ UNCHANGED <<problem, smurfVars, trailVars, levelVars, cache, lemmaVars, unitVars, found>>
  BY DEF NowhereToBacktrack
<1>2. Grows /\ TrailOk' /\ LevelsOk' /\ ReasonsOk' /\ StatesOk' /\ Depth' = Depth
  BY <1>1, TrailPartsKept DEF levelVars
<1>3. ListsOk'
  BY <1>1, <1>2, ListsGrow DEF levelVars
<1>4. TypesOk'
  BY <1>1 DEF TypesOk, smurfVars
<1>5. ImpliedOk' /\ ReversedOk'
  BY <1>1, <1>2 DEF ImpliedOk, Implied, Models, ReversedOk, trailVars, levelVars, unitVars
<1>6. ConflictOk'
  BY <1>1 DEF ConflictOk, lemmaVars
<1>7. PendingOk' /\ FlipOk' /\ UnitOk' /\ FoundOk'
  BY <1>1 DEF PendingOk, FlipOk, UnitOk, FoundOk, Models, unitVars
<1> QED
  BY <1>2, <1>3, <1>4, <1>5, <1>6, <1>7

-----------------------------------------------------------------------------
(* Pop: what it does to the trail and the levels *)

PopEntry == arrBacktrackStack[Depth]
PopAtom  == PopEntry.atom

Flagged  == PopAtom \in arrLemmaFlag
AtChoice == PopAtom = Top.nBranchVble
Forced   == nNumForcedInfsBelowCurrentCP - (IF Flagged THEN 1 ELSE 0)
Derives  == Flagged /\ UniqueImplicationPoint(PopEntry, Forced)

PopKeeps == IF Derives THEN LiteralsLeft(PopAtom) ELSE arrTempLemma
PopAdds  == IF Flagged /\ ~AtChoice THEN Resolvent(PopEntry.lemma) ELSE {}

LEMMA PopSteps ==
  ASSUME Pop
  PROVE  /\ pc = "pop"
         /\ arrBacktrackStack' = Front(arrBacktrackStack)
         /\ arrBacktrackStackIndex' = [arrBacktrackStackIndex EXCEPT ![PopAtom] = NOT_ON_STACK]
         /\ arrSolution' = [arrSolution EXCEPT ![PopAtom] = BOOL_UNKNOWN]
         /\ arrTempLemma' = PopKeeps \cup PopAdds
         /\ arrLemmaFlag' = arrLemmaFlag \cup Atoms(PopAdds)
         /\ arrUnsetLemmaFlagVars' = arrUnsetLemmaFlagVars \cup Atoms(arrTempLemma \ PopKeeps)
         /\ nNumForcedInfsBelowCurrentCP' =
              Forced + Cardinality({v \in Atoms(PopAdds) : OnLevel(v)})
         /\ pUnitLemmaList' = IF Derives THEN <<NewLemma(PopKeeps, PopAtom)>> \o pUnitLemmaList
                                         ELSE pUnitLemmaList
         /\ nFlipped' = IF AtChoice THEN <<PopAtom, NEG(arrSolution[PopAtom])>> ELSE nFlipped
         /\ arrChoicePointStack' = IF AtChoice THEN Front(arrChoicePointStack)
                                               ELSE arrChoicePointStack
         /\ pc' = IF ~AtChoice THEN "pop" ELSE IF Flagged THEN "flip" ELSE "backjump"
         /\ UNCHANGED <<problem, smurfVars, unitLemmas, cache, nOldBacktrackStackIndex,
                        nKept, resultVars>>
BY DEF Pop, PopEntry, PopAtom, Flagged, AtChoice, Forced, Derives, PopKeeps, PopAdds, Listed,
       Depth, Last

LEMMA PopTrail ==
  ASSUME IInv, Pop
  PROVE  /\ TrailOk' /\ SameBelow(Depth) /\ Depth \in Nat /\ Depth > 0 /\ Depth' = Depth - 1
         /\ Slot \in 1..Slot /\ Slot \in Nat /\ Slot <= NumVars
         /\ PopAtom \in Var /\ At(PopAtom) = Depth /\ Known(PopAtom)
         /\ arrSolution[PopAtom] \in Value /\ PopEntry \in Entry
         /\ \A v \in Var : v = PopAtom => ~Known(v)' /\ At(v)' = NOT_ON_STACK
         /\ \A v \in Var : v # PopAtom => /\ Known(v)' = Known(v) /\ At(v)' = At(v)
                                          /\ arrSolution'[v] = arrSolution[v]
                                          /\ Known(v) => At(v) < Depth
         /\ ChoiceAt(Slot) \in 1..Depth
         /\ AtChoice => ChoiceAt(Slot) = Depth /\ ChoiceVar(Slot) = PopAtom
         /\ ~AtChoice => ChoiceAt(Slot) < Depth
         /\ \A k \in 1..Slot : k # Slot => ChoiceAt(k) < Depth
         /\ \A k \in 1..Slot : ChoiceAt(k) \in Nat /\ ChoiceAt(k) <= ChoiceAt(Slot)
<1> USE DEF IInv
<1>1. pc = "pop" /\ Slot > 0
  BY PopSteps DEF ConflictOk
<1>2. Slot \in Nat /\ Slot <= NumVars /\ Slot \in 1..Slot
  BY <1>1, SlotBounded
<1>3. /\ ChoiceVar(Slot) \in Var /\ Known(ChoiceVar(Slot)) /\ ChoiceAt(Slot) \in 1..Depth
      /\ arrBacktrackStack[ChoiceAt(Slot)].atom = ChoiceVar(Slot)
  BY <1>2, LevelIs
<1>4. Depth \in Nat /\ Depth > 0 /\ Depth \in 1..Depth
  BY <1>3, TrailLength
<1>5. PICK atom : atom = PopAtom
  OBVIOUS
<1>6. /\ TrailOk' /\ SameBelow(Depth) /\ Depth' = Depth - 1
      /\ atom \in Var /\ At(atom) = Depth /\ Known(atom)
      /\ ~Known(atom)' /\ At(atom)' = NOT_ON_STACK
      /\ \A v \in Var : v # atom => /\ Known(v)' = Known(v) /\ At(v)' = At(v)
                                    /\ arrSolution'[v] = arrSolution[v]
                                    /\ Known(v) => At(v) < Depth
  <2>1. atom = arrBacktrackStack[Depth].atom
    BY <1>5 DEF PopAtom, PopEntry
  <2>2. /\ arrBacktrackStack' = Front(arrBacktrackStack)
        /\ arrBacktrackStackIndex' = [arrBacktrackStackIndex EXCEPT ![atom] = NOT_ON_STACK]
        /\ arrSolution' = [arrSolution EXCEPT ![atom] = BOOL_UNKNOWN]
    BY <1>5, PopSteps
  <2> QED
    BY <1>4, <2>1, <2>2, Popped
<1>7. arrSolution[atom] \in Value /\ PopEntry \in Entry
  BY <1>4, <1>6, TrailIs DEF PopEntry
<1>8. AtChoice <=> ChoiceVar(Slot) = atom
  BY <1>5 DEF AtChoice, Top, ChoiceVar
<1>9. ChoiceVar(Slot) = atom => ChoiceAt(Slot) = Depth
  BY <1>6 DEF ChoiceAt
<1>10. ChoiceVar(Slot) # atom => ChoiceAt(Slot) < Depth
  BY <1>3, <1>6 DEF ChoiceAt
<1>11. \A k \in 1..Slot : k # Slot => ChoiceAt(k) < ChoiceAt(Slot) /\ ChoiceAt(k) \in Nat
  <2>1. \A k \in 1..Slot : k # Slot => k < Slot
    BY <1>2
  <2> QED
    BY <1>2, <2>1, LevelIs DEF LevelsOk
<1>12. \A k \in 1..Slot : k # Slot => ChoiceAt(k) < Depth
  BY <1>3, <1>4, <1>11
<1>13. \A k \in 1..Slot : ChoiceAt(k) \in Nat /\ ChoiceAt(k) <= ChoiceAt(Slot)
  BY <1>3, <1>11
<1> QED
  BY <1>2, <1>3, <1>4, <1>5, <1>6, <1>7, <1>8, <1>9, <1>10, <1>12, <1>13

LEMMA PopLevels ==
  ASSUME IInv, Pop
  PROVE  /\ LevelsOk' /\ StatesOk' /\ ReasonsOk' /\ ListsOk' /\ TypesOk' /\ FoundOk' /\ UnitOk'
         /\ Slot' = IF AtChoice THEN Slot - 1 ELSE Slot
         /\ \A k \in 1..Slot' : k \in 1..Slot /\ ChoiceAt(k)' = ChoiceAt(k)
<1> USE DEF IInv
<1>1. /\ TrailOk' /\ SameBelow(Depth) /\ Depth \in Nat /\ Depth > 0 /\ Depth' = Depth - 1
      /\ Slot \in 1..Slot /\ Slot \in Nat /\ Slot <= NumVars
      /\ ChoiceAt(Slot) \in 1..Depth
      /\ AtChoice => ChoiceAt(Slot) = Depth /\ ChoiceVar(Slot) = PopAtom
      /\ ~AtChoice => ChoiceAt(Slot) < Depth
      /\ \A k \in 1..Slot : k # Slot => ChoiceAt(k) < Depth
      /\ \A k \in 1..Slot : ChoiceAt(k) \in Nat /\ ChoiceAt(k) <= ChoiceAt(Slot)
  BY PopTrail
<1>2. /\ pc = "pop"
      /\ arrChoicePointStack' = IF AtChoice THEN Front(arrChoicePointStack)
                                            ELSE arrChoicePointStack
      /\ pc' = IF ~AtChoice THEN "pop" ELSE IF Flagged THEN "flip" ELSE "backjump"
      /\ UNCHANGED <<problem, smurfVars, unitLemmas, cache, resultVars>>
  BY PopSteps
<1>3. PICK b \in Nat : b = Depth
  BY <1>1
<1>4. SameBelow(b) /\ TrailOk /\ TrailOk' /\ b <= b
  BY <1>1, <1>3
<1>5. PICK a \in Nat : a = ChoiceAt(Slot) /\ a <= b /\ a <= a
  BY <1>1, <1>3
<1>6. /\ Slot' = IF AtChoice THEN Slot - 1 ELSE Slot
      /\ arrChoicePointStack' \in Seq(Level)
      /\ \A k \in 1..Slot' : k \in 1..Slot /\ arrChoicePointStack'[k] = arrChoicePointStack[k]
                             /\ (AtChoice => k # Slot)
  <2>1. PICK t \in Seq(Level) : t = arrChoicePointStack
    BY DEF LevelsOk
  <2>2. CASE AtChoice
    <3>1. /\ Front(t) \in Seq(Level) /\ Len(Front(t)) = Len(t) - 1
          /\ \A i \in 1..Len(t) - 1 : Front(t)[i] = t[i]
      BY <1>1, <2>1, FrontIs DEF Slot
    <3>2. arrChoicePointStack' = Front(t)
      BY <1>2, <2>1, <2>2
    <3>3. Slot' = Slot - 1 /\ Slot = Len(t)
      BY <2>1, <3>1, <3>2 DEF Slot
    <3>4. \A k \in 1..Slot - 1 : k \in 1..Slot /\ k # Slot
      BY ONLY <1>1
    <3> QED
      BY <2>1, <2>2, <3>1, <3>2, <3>3, <3>4
  <2>3. CASE ~AtChoice
    BY <1>2, <2>1, <2>3 DEF Slot
  <2> QED
    BY <2>2, <2>3
<1>7. \A k \in 1..Slot' : ChoiceAt(k) < b
  BY <1>1, <1>3, <1>6
<1>8. \A k \in 1..Slot' : LevelOk(k)' /\ ChoiceAt(k)' = ChoiceAt(k)
  <2> SUFFICES ASSUME NEW k \in 1..Slot' PROVE LevelOk(k)' /\ ChoiceAt(k)' = ChoiceAt(k)
    OBVIOUS
  <2>1. k \in 1..Slot /\ ChoiceAt(k) < b /\ arrChoicePointStack'[k] = arrChoicePointStack[k]
    BY <1>6, <1>7
  <2>2. UNCHANGED problem
        /\ \A m \in found' \ found : m[ChoiceVar(k)] = arrSolution[ChoiceVar(k)]
    BY <1>2 DEF resultVars
  <2> QED
    BY ONLY <1>4, <2>1, <2>2, LevelsOk, b \in Nat, LevelKept
<1>9. LevelsOk'
  <2>1. \A j, k \in 1..Slot' : j < k => ChoiceAt(j)' < ChoiceAt(k)'
    BY <1>6, <1>8 DEF LevelsOk
  <2> QED
    BY <1>6, <1>8, <2>1 DEF LevelsOk
<1>10. \A f \in Fn : StateOk(problem[f], pCurrentState[f], arrSmurfPath[f], a)'
  <2> SUFFICES ASSUME NEW f \in Fn
               PROVE  StateOk(problem[f], pCurrentState[f], arrSmurfPath[f], a)'
    OBVIOUS
  <2>1. PICK F : F = problem[f]
    OBVIOUS
  <2>2. PICK s : s = pCurrentState[f]
    OBVIOUS
  <2>3. PICK path \in Lemma : path = arrSmurfPath[f]
    BY DEF TypesOk
  <2>4. StateOk(F, s, path, a)
    BY <1>2, <1>5, <2>1, <2>2, <2>3 DEF StatesOk
  <2>5. StateOk(F, s, path, a)'
    BY ONLY <1>4, <1>5, <2>4, a \in Nat, b \in Nat, path \in Lemma, StateKept
  <2>6. problem'[f] = F /\ pCurrentState'[f] = s /\ arrSmurfPath'[f] = path
    BY <1>2, <2>1, <2>2, <2>3 DEF smurfVars
  <2> QED
    BY <2>5, <2>6
<1>11. StatesOk'
  <2>1. CASE AtChoice
    <3>1. pc' # "pop" /\ Depth' + 1 = a
      BY <1>1, <1>2, <1>5, <2>1
    <3> QED
      BY <1>10, <3>1 DEF StatesOk
  <2>2. CASE ~AtChoice
    <3>1. pc' = "pop" /\ Slot' = Slot /\ Slot \in 1..Slot'
      BY <1>1, <1>2, <1>6, <2>2
    <3>2. PICK n \in 1..Slot' : n = Slot' /\ n = Slot
      BY <3>1
    <3>3. ChoiceAt(n)' = a
      BY <1>5, <1>8, <3>2
    <3>4. ChoiceAt(Slot)' = a
      BY <3>2, <3>3
    <3> QED
      BY <1>10, <3>1, <3>4 DEF StatesOk
  <2> QED
    BY <2>1, <2>2
<1>12. ReasonsOk'
  <2>1. \A k \in 1..Slot : ChoiceAt(k) < b =>
          k \in 1..Slot' /\ arrChoicePointStack'[k] = arrChoicePointStack[k]
    <3> SUFFICES ASSUME NEW k \in 1..Slot, ChoiceAt(k) < b
                 PROVE  k \in 1..Slot' /\ arrChoicePointStack'[k] = arrChoicePointStack[k]
      OBVIOUS
    <3>1. AtChoice => k # Slot
      BY <1>1, <1>3
    <3>2. k \in 1..Slot'
      BY <1>1, <1>6, <3>1
    <3> QED
      BY <1>6, <3>2
  <2>2. \A i \in 1..Depth : i < b => Chosen(i)' \/ Reason(i)'
    BY <1>4, <2>1, ReasonsKept
  <2>3. \A i \in 1..Depth' : i \in 1..Depth /\ i < b
    BY <1>1, <1>3
  <2> QED
    BY <2>2, <2>3 DEF ReasonsOk
<1>13. ListsOk'
  <2>1. unitLemmas' = unitLemmas /\ Slot' \in Nat
    BY <1>1, <1>2, <1>6
  <2> SUFFICES ASSUME NEW s \in 0..NumVars PROVE ListOk(s)'
    BY <2>1 DEF ListsOk
  <2>2. s >= Slot => unitLemmas[s] = <<>> /\ Len(unitLemmas[s]) = 0
    <3>1. s > Slot \/ s = Slot => unitLemmas[s] = <<>>
      BY <1>2 DEF ListsOk, ListOk
    <3> QED
      BY <1>1, <3>1
  <2>3. CASE s >= Slot
    <3>1. unitLemmas'[s] = <<>> /\ Len(unitLemmas'[s]) = 0
      BY <2>1, <2>2, <2>3
    <3> QED
      BY <3>1 DEF ListOk, Distinct
  <2>4. CASE s < Slot
    <3>1. s <= Slot' /\ s + 1 \in 1..Slot
      BY <1>1, <1>6, <2>4
    <3>2. s > 0 /\ s <= Slot => ChoiceAt(s)' = ChoiceAt(s)
      <4>1. s > 0 => s \in 1..Slot'
        BY <2>1, <3>1
      <4> QED
        BY <1>8, <4>1
    <3>3. ASSUME NEW i \in 1..Len(unitLemmas[s])
          PROVE  /\ At(unitLemmas[s][i].nWatchedVble0) < b
                 /\ s < Slot' => At(unitLemmas[s][i].nWatchedVble0) < ChoiceAt(s + 1)'
      <4>1. PICK p \in LemmaInfo : p = unitLemmas[s][i] /\ Placed(p, s)
        BY ListEntryIs
      <4>2. At(p.nWatchedVble0) \in 1..Depth /\ At(p.nWatchedVble0) < ChoiceAt(s + 1)
        BY <2>4, <4>1, InUseAt DEF Placed
      <4>3. ChoiceAt(s + 1) \in Nat /\ ChoiceAt(s + 1) <= a
        BY <1>1, <1>5, <3>1
      <4>4. At(p.nWatchedVble0) < b
        BY ONLY <1>5, <4>2, <4>3, a \in Nat, b \in Nat, <1>1
      <4>5. s < Slot' => At(p.nWatchedVble0) < ChoiceAt(s + 1)'
        <5>1. s < Slot' => s + 1 \in 1..Slot'
          BY <2>1
        <5> QED
          BY <1>8, <4>2, <5>1
      <4> QED
        BY <4>1, <4>4, <4>5
    <3>4. s > Slot' \/ (s = Slot' /\ pc' = "pop") => unitLemmas[s] = <<>>
      <4>1. s = Slot' => AtChoice
        BY <1>6, <2>4, <1>1
      <4>2. ~(s > Slot')
        BY <2>1, <3>1
      <4> QED
        BY <1>2, <4>1, <4>2
    <3> QED
      BY ONLY <1>4, <2>1, <3>2, <3>3, <3>4, LevelsOk, ListsOk, b \in Nat, s \in 0..NumVars, ListKept
  <2> QED
    BY <1>1, <2>3, <2>4
<1>14. TypesOk' /\ FoundOk' /\ UnitOk'
  BY <1>2 DEF TypesOk, FoundOk, UnitOk, smurfVars, resultVars, Models
<1> QED
  BY <1>6, <1>8, <1>9, <1>11, <1>12, <1>13, <1>14

-----------------------------------------------------------------------------
(* Pop: the conflict lemma is resolved with the lemma of the inference     *)

LEMMA PopLive ==
  ASSUME IInv, Pop, NEW this, this = <<PopAtom, arrSolution[PopAtom]>>,
         NEW that, that = <<PopAtom, NEG(arrSolution[PopAtom])>>
  PROVE  /\ LiteralsLeft(PopAtom) = Live /\ Live \subseteq PopKeeps /\ PopKeeps \subseteq arrTempLemma
         /\ \A l \in Live : l \in Literal /\ l[1] \in Var /\ IsFalse(l) /\ Known(l[1])
         /\ \A l \in Live : l[1] = PopAtom => l = that
         /\ Flagged => that \in Live
         /\ ~Flagged => Live' = Live /\ PopKeeps = arrTempLemma /\ PopAdds = {}
         /\ Flagged /\ ~AtChoice => Reason(Depth)
         /\ \A l \in Live : l[1] # PopAtom => l \in Live'
         /\ Flagged /\ ~AtChoice => \A l \in PopEntry.lemma \ {this} : l \in Live'
         /\ \A l \in Live' : /\ l[1] # PopAtom /\ IsFalse(l)'
                             /\ l \in Live \/ (Flagged /\ ~AtChoice /\ l \in PopEntry.lemma \ {this})
         /\ \A l \in PopAdds : /\ l \in Literal /\ l[1] \in Var /\ l[1] \notin arrLemmaFlag
                               /\ Known(l[1]) /\ l[1] # PopAtom
<1> USE DEF IInv
<1>1. /\ Depth \in Nat /\ Depth > 0 /\ Depth' = Depth - 1
      /\ Slot \in 1..Slot /\ Slot \in Nat
      /\ PopAtom \in Var /\ At(PopAtom) = Depth /\ Known(PopAtom)
      /\ arrSolution[PopAtom] \in Value /\ PopEntry \in Entry
      /\ \A v \in Var : v = PopAtom => ~Known(v)' /\ At(v)' = NOT_ON_STACK
      /\ \A v \in Var : v # PopAtom => /\ Known(v)' = Known(v) /\ At(v)' = At(v)
                                       /\ arrSolution'[v] = arrSolution[v]
                                       /\ Known(v) => At(v) < Depth
      /\ ~AtChoice => ChoiceAt(Slot) < Depth
      /\ \A k \in 1..Slot : k # Slot => ChoiceAt(k) < Depth
  BY PopTrail
<1>2. pc = "pop" /\ arrTempLemma' = PopKeeps \cup PopAdds
  BY PopSteps
<1>3. \A v \in Var : At(v) \in Nat /\ (Known(v) <=> At(v) <= Depth)
  BY TrailIs
<1>4. /\ arrTempLemma \in Lemma /\ arrLemmaFlag = Atoms(arrTempLemma) \cup arrUnsetLemmaFlagVars
      /\ \A l \in Live : IsFalse(l)
      /\ \A v \in arrUnsetLemmaFlagVars : ~Known(v)
  BY <1>2 DEF ConflictOk
<1>5. \A l \in arrTempLemma : l \in Literal /\ l[1] \in Var /\ l[1] \in Atoms(arrTempLemma)
  BY <1>4, AtomsAreVars
<1>6. LiteralsLeft(PopAtom) = Live
  BY <1>1, <1>3, <1>5 DEF LiteralsLeft, Live, At
<1>7. Live \subseteq PopKeeps /\ PopKeeps \subseteq arrTempLemma
  BY <1>6 DEF PopKeeps, Live
<1>8. \A l \in Live : l \in Literal /\ l[1] \in Var /\ IsFalse(l) /\ Known(l[1]) /\ l \in arrTempLemma
  BY <1>4, <1>5 DEF Live
<1>9. \A l \in Live : l[1] = PopAtom => l = that
  <2> SUFFICES ASSUME NEW l \in Live, l[1] = PopAtom PROVE l = that
    OBVIOUS
  <2>1. l = <<l[1], l[2]>> /\ l[2] = NEG(arrSolution[l[1]])
    BY <1>8, FalseIsKnown, Literals
  <2> QED
    BY <2>1
<1>10. \A v \in arrLemmaFlag : Known(v) => \E l \in Live : l[1] = v
  <2> SUFFICES ASSUME NEW v \in arrLemmaFlag, Known(v) PROVE \E l \in Live : l[1] = v
    OBVIOUS
  <2>1. PICK l \in arrTempLemma : l[1] = v
    BY <1>4 DEF Atoms
  <2> QED
    BY <2>1 DEF Live
<1>11. Flagged => that \in Live
  BY <1>1, <1>9, <1>10 DEF Flagged
<1>12. ~Flagged => PopKeeps = arrTempLemma /\ PopAdds = {}
  BY DEF PopKeeps, PopAdds, Derives
<1>13. \A l \in Literal : l[1] # PopAtom => /\ Known(l[1])' <=> Known(l[1])
                                            /\ IsFalse(l) => IsFalse(l)'
  BY <1>1, Literals DEF IsFalse
<1>14. \A l \in Live : l[1] # PopAtom => l \in Live'
  BY <1>2, <1>7, <1>8, <1>13 DEF Live
<1>15. PopEntry.lemma \in Lemma /\ PopEntry.lemma \subseteq Literal
  BY <1>1, EntryIs DEF Lemma
<1>16. ASSUME Flagged, ~AtChoice
       PROVE  /\ Reason(Depth)
              /\ \A l \in PopEntry.lemma \ {this} : IsFalse(l) /\ l[1] # PopAtom /\ Known(l[1])
              /\ \A l \in PopEntry.lemma \ {this} : l \in Live'
  <2>1. ~Chosen(Depth)
    <3> SUFFICES ASSUME NEW k \in 1..Slot, ChoiceVar(k) = PopAtom PROVE FALSE
      BY DEF Chosen, ChoiceVar, PopAtom, PopEntry
    <3>1. ChoiceAt(k) = Depth
      BY <1>1 DEF ChoiceAt
    <3> QED
      BY <1>1, <1>16, <3>1
  <2>2. Reason(Depth)
    BY <1>1, <2>1 DEF ReasonsOk
  <2>3. \A l \in PopEntry.lemma \ {this} : IsFalse(l) /\ At(l[1]) < Depth
    BY <2>2 DEF Reason, PopEntry, PopAtom
  <2>4. \A l \in PopEntry.lemma \ {this} : IsFalse(l) /\ l[1] # PopAtom /\ Known(l[1])
    BY <1>1, <1>15, <2>3, FalseIsKnown
  <2>5. ASSUME NEW l \in PopEntry.lemma \ {this} PROVE l \in Live'
    <3>1. l \in Literal /\ Known(l[1])'
      BY <1>13, <1>15, <2>4
    <3>2. CASE l[1] \in arrLemmaFlag
      <4>1. PICK r \in Live : r[1] = l[1]
        BY <1>10, <2>4, <3>2
      <4>2. r = l
        BY <1>8, <2>4, <3>1, <4>1, FalseIsKnown, Literals
      <4> QED
        BY <1>14, <2>4, <4>1, <4>2
    <3>3. CASE l[1] \notin arrLemmaFlag
      <4>1. l \in PopAdds
        BY <1>16, <3>3 DEF PopAdds, Resolvent
      <4> QED
        BY <1>2, <3>1, <4>1 DEF Live
    <3> QED
      BY <3>2, <3>3
  <2> QED
    BY <2>2, <2>4, <2>5
<1>17. \A l \in PopAdds : /\ Flagged /\ ~AtChoice /\ l \in PopEntry.lemma \ {this}
                          /\ l \in Literal /\ l[1] \in Var /\ l[1] \notin arrLemmaFlag
  <2>1. \A l \in PopAdds : /\ Flagged /\ ~AtChoice /\ l \in PopEntry.lemma
                           /\ l[1] \notin arrLemmaFlag
    BY DEF PopAdds, Resolvent
  <2>2. Flagged => this[1] \in arrLemmaFlag
    BY DEF Flagged
  <2> QED
    BY <1>15, <2>1, <2>2, Literals
<1>18. \A l \in Live' : /\ l[1] # PopAtom /\ IsFalse(l)'
                        /\ l \in Live \/ (Flagged /\ ~AtChoice /\ l \in PopEntry.lemma \ {this})
  <2> SUFFICES ASSUME NEW l \in Live'
               PROVE  /\ l[1] # PopAtom /\ IsFalse(l)'
                      /\ l \in Live \/ (Flagged /\ ~AtChoice /\ l \in PopEntry.lemma \ {this})
    OBVIOUS
  <2>1. l \in PopKeeps \cup PopAdds /\ Known(l[1])'
    BY <1>2 DEF Live
  <2>2. l \in Literal /\ l[1] \in Var
    BY <1>5, <1>7, <1>17, <2>1
  <2>3. l[1] # PopAtom /\ Known(l[1])
    BY <1>1, <2>1, <2>2
  <2>4. CASE l \in PopKeeps
    <3>1. l \in Live
      BY <1>7, <2>3, <2>4 DEF Live
    <3> QED
      BY <1>8, <1>13, <2>2, <2>3, <3>1
  <2>5. CASE l \in PopAdds
    BY <1>13, <1>16, <1>17, <2>2, <2>3, <2>5
  <2> QED
    BY <2>1, <2>4, <2>5
<1>19. ~Flagged => Live' = Live
  <2>1. ~Flagged => \A l \in Live : l[1] # PopAtom
    BY <1>4, <1>5, <1>8 DEF Flagged
  <2> QED
    BY <1>14, <1>18, <2>1
<1>20. \A l \in PopAdds : Known(l[1]) /\ l[1] # PopAtom
  BY <1>16, <1>17
<1> QED
  BY <1>6, <1>7, <1>8, <1>9, <1>11, <1>12, <1>14, <1>16, <1>17, <1>18, <1>19, <1>20

(* The flagged atoms of the level, without the one that is popped.         *)
LEMMA PopForced ==
  ASSUME IInv, Pop
  PROVE  /\ OnLevelFlagged \ {PopAtom} \subseteq Var
         /\ Forced = Cardinality(OnLevelFlagged \ {PopAtom}) /\ Forced \in 0..NumVars
<1> USE DEF IInv
<1>1. pc = "pop" /\ nNumForcedInfsBelowCurrentCP = Cardinality(OnLevelFlagged)
      /\ arrLemmaFlag \subseteq Var
  BY PopSteps DEF ConflictOk
<1>2. PICK T \in SUBSET Var : T = OnLevelFlagged
  BY <1>1 DEF OnLevelFlagged
<1>3. Flagged <=> PopAtom \in T
  <2>1. At(PopAtom) \in ChoiceAt(Slot)..Depth
    BY PopTrail
  <2> QED
    BY <1>2, <2>1 DEF OnLevelFlagged, Flagged
<1>4. IsFiniteSet(T) /\ Cardinality(T) \in Int
  BY FiniteVars
<1>5. Cardinality(T \ {PopAtom}) = IF PopAtom \in T THEN Cardinality(T) - 1 ELSE Cardinality(T)
  BY <1>4, FS_RemoveElement
<1>6. T \ {PopAtom} \in SUBSET Var
  OBVIOUS
<1>7. Cardinality(T \ {PopAtom}) \in 0..NumVars
  BY <1>6, FiniteVars
<1>8. Forced = Cardinality(T \ {PopAtom})
  BY <1>1, <1>2, <1>3, <1>4, <1>5 DEF Forced
<1> QED
  BY <1>2, <1>6, <1>7, <1>8

(* While the level is popped the count stays that of the flagged atoms.    *)
LEMMA PopCounts ==
  ASSUME IInv, Pop, ~AtChoice
  PROVE  nNumForcedInfsBelowCurrentCP' = Cardinality(OnLevelFlagged)'
<1> USE DEF IInv
<1>1. /\ Depth \in Nat /\ Depth > 0 /\ Depth' = Depth - 1
      /\ Slot \in 1..Slot /\ Slot \in Nat
      /\ PopAtom \in Var /\ At(PopAtom) = Depth
      /\ \A v \in Var : v = PopAtom => At(v)' = NOT_ON_STACK
      /\ \A v \in Var : v # PopAtom => At(v)' = At(v) /\ (Known(v) => At(v) < Depth)
      /\ ChoiceAt(Slot) \in 1..Depth
  BY PopTrail
<1>2. /\ arrLemmaFlag' = arrLemmaFlag \cup Atoms(PopAdds)
      /\ nNumForcedInfsBelowCurrentCP' = Forced + Cardinality({v \in Atoms(PopAdds) : OnLevel(v)})
  BY PopSteps
<1>3. PICK a \in Nat : a = ChoiceAt(Slot) /\ a = ChoiceAt(Slot)'
  <2>1. Slot' = Slot /\ \A k \in 1..Slot' : ChoiceAt(k)' = ChoiceAt(k)
    BY PopLevels
  <2>2. PICK n \in 1..Slot : n = Slot
    BY <1>1
  <2>3. ChoiceAt(n)' = ChoiceAt(n)
    BY <2>1
  <2>4. ChoiceAt(Slot)' = ChoiceAt(Slot)
    BY <2>1, <2>2, <2>3 DEF ChoiceAt, ChoiceVar
  <2> QED
    BY <1>1, <2>4
<1>4. PICK T \in SUBSET Var : T = OnLevelFlagged \ {PopAtom} /\ Forced = Cardinality(T)
  BY PopForced
<1>5. \A v \in Atoms(PopAdds) : v \in Var /\ v \notin arrLemmaFlag /\ Known(v) /\ v # PopAtom
  <2>1. \A l \in PopAdds : l[1] \in Var /\ l[1] \notin arrLemmaFlag /\ Known(l[1]) /\ l[1] # PopAtom
    BY PopLive
  <2> QED
    BY <2>1 DEF Atoms
<1>6. PICK N \in SUBSET Var : N = {v \in Atoms(PopAdds) : OnLevel(v)}
  BY <1>5
<1>7. /\ NOT_ON_STACK > Depth /\ NOT_ON_STACK \in Nat
      /\ \A v \in Var : At(v) \in Nat /\ (Known(v) <=> At(v) <= Depth)
  <2>1. Depth <= NumVars
    BY TrailIs
  <2> QED
    BY <1>1, <2>1, TrailIs, NumVarsAssumption DEF NOT_ON_STACK
<1>8. arrLemmaFlag \subseteq Var
  BY DEF ConflictOk
<1>9. OnLevelFlagged' = T \cup N
  <2>1. OnLevelFlagged' = {v \in arrLemmaFlag \cup Atoms(PopAdds) : At(v)' \in a..Depth'}
    BY <1>2, <1>3 DEF OnLevelFlagged
  <2>2. T = {v \in arrLemmaFlag : At(v) \in a..Depth} \ {PopAtom}
    BY <1>3, <1>4 DEF OnLevelFlagged
  <2>3. \A v \in Var : At(v)' \in a..Depth' <=> v # PopAtom /\ At(v) \in a..Depth
    <3> SUFFICES ASSUME NEW v \in Var
                 PROVE  At(v)' \in a..Depth' <=> v # PopAtom /\ At(v) \in a..Depth
      OBVIOUS
    <3>1. CASE v = PopAtom
      BY <1>1, <1>7, <3>1
    <3>2. CASE v # PopAtom
      BY <1>1, <1>7, <3>2
    <3> QED
      BY <3>1, <3>2
  <2>4. \A v \in Atoms(PopAdds) : OnLevel(v) <=> At(v) \in a..Depth
    <3>1. \A v \in Var : OnLevel(v) <=> At(v) >= a
      BY <1>3 DEF OnLevel, At, ChoiceAt, ChoiceVar, Top
    <3> QED
      BY <1>1, <1>5, <1>7, <3>1
  <2> QED
    BY <1>5, <1>6, <1>8, <2>1, <2>2, <2>3, <2>4
<1>10. T \cap N = {}
  BY <1>4, <1>5, <1>6 DEF OnLevelFlagged
<1>11. IsFiniteSet(T) /\ IsFiniteSet(N) /\ Cardinality(T) \in Int /\ Cardinality(N) \in Int
  BY FiniteVars
<1>12. Cardinality(T \cup N) = Cardinality(T) + Cardinality(N)
  <2>1. Cardinality(T \cup N) = Cardinality(T) + Cardinality(N) - Cardinality(T \cap N)
    BY <1>11, FS_Union
  <2>2. Cardinality(T \cap N) = 0
    BY <1>10, FS_EmptySet
  <2> QED
    BY <1>11, <2>1, <2>2
<1>13. Cardinality(OnLevelFlagged)' = Cardinality(OnLevelFlagged')
  OBVIOUS
<1> QED
  BY <1>2, <1>4, <1>6, <1>9, <1>12, <1>13

LEMMA PopConflict ==
  ASSUME IInv, Pop
  PROVE  ConflictOk'
<1> USE DEF IInv
<1>1. /\ pc = "pop" /\ arrTempLemma' = PopKeeps \cup PopAdds
      /\ arrLemmaFlag' = arrLemmaFlag \cup Atoms(PopAdds)
      /\ arrUnsetLemmaFlagVars' = arrUnsetLemmaFlagVars \cup Atoms(arrTempLemma \ PopKeeps)
      /\ nNumForcedInfsBelowCurrentCP' = Forced + Cardinality({v \in Atoms(PopAdds) : OnLevel(v)})
      /\ pc' = IF ~AtChoice THEN "pop" ELSE IF Flagged THEN "flip" ELSE "backjump"
      /\ UNCHANGED <<problem, nOldBacktrackStackIndex, resultVars>>
  BY PopSteps
<1>2. /\ arrTempLemma \in Lemma /\ arrUnsetLemmaFlagVars \subseteq Var /\ arrLemmaFlag \subseteq Var
      /\ arrLemmaFlag = Atoms(arrTempLemma) \cup arrUnsetLemmaFlagVars
      /\ \A v \in arrUnsetLemmaFlagVars : ~Known(v)
      /\ Implied(Live) /\ nOldBacktrackStackIndex = ChoiceAt(Slot)
  BY <1>1 DEF ConflictOk
<1>3. PICK this : this = <<PopAtom, arrSolution[PopAtom]>>
  OBVIOUS
<1>4. PICK that : that = <<PopAtom, NEG(arrSolution[PopAtom])>>
  OBVIOUS
<1>5. /\ LiteralsLeft(PopAtom) = Live /\ Live \subseteq PopKeeps /\ PopKeeps \subseteq arrTempLemma
      /\ \A l \in Live : l[1] = PopAtom => l = that
      /\ ~Flagged => Live' = Live /\ PopKeeps = arrTempLemma /\ PopAdds = {}
      /\ Flagged /\ ~AtChoice => Reason(Depth)
      /\ \A l \in Live : l[1] # PopAtom => l \in Live'
      /\ Flagged /\ ~AtChoice => \A l \in PopEntry.lemma \ {this} : l \in Live'
      /\ \A l \in Live' : l[1] # PopAtom /\ IsFalse(l)'
      /\ \A l \in PopAdds : l \in Literal /\ l[1] \in Var
  BY <1>3, <1>4, PopLive
<1>6. /\ PopAtom \in Var /\ arrSolution[PopAtom] \in Value
      /\ Depth \in Nat /\ Depth > 0 /\ Depth' = Depth - 1
      /\ \A v \in Var : v = PopAtom => ~Known(v)'
      /\ \A v \in Var : v # PopAtom => Known(v)' = Known(v)
      /\ AtChoice => ChoiceAt(Slot) = Depth
      /\ Slot \in 1..Slot
  BY PopTrail
<1>7. /\ arrTempLemma' \in Lemma /\ arrUnsetLemmaFlagVars' \subseteq Var /\ arrLemmaFlag' \subseteq Var
      /\ arrLemmaFlag' = Atoms(arrTempLemma') \cup arrUnsetLemmaFlagVars'
  <2>1. Atoms(arrTempLemma) = Atoms(PopKeeps) \cup Atoms(arrTempLemma \ PopKeeps)
    BY <1>5 DEF Atoms
  <2>2. Atoms(arrTempLemma') = Atoms(PopKeeps) \cup Atoms(PopAdds)
    BY <1>1 DEF Atoms
  <2>3. Atoms(PopAdds) \subseteq Var
    BY <1>5 DEF Atoms
  <2>4. arrTempLemma' \in Lemma
    BY <1>1, <1>2, <1>5 DEF Lemma
  <2> QED
    BY <1>1, <1>2, <2>1, <2>2, <2>3, <2>4
<1>8. \A v \in arrUnsetLemmaFlagVars' : ~Known(v)'
  <2>1. \A v \in Var : ~Known(v) => ~Known(v)'
    BY <1>6
  <2>2. \A l \in arrTempLemma \ PopKeeps : l[1] \in Var /\ ~Known(l[1])
    <3>1. \A l \in arrTempLemma : l[1] \in Var
      BY <1>2, AtomsAreVars
    <3> QED
      BY <1>5, <3>1 DEF Live
  <2>3. \A v \in Atoms(arrTempLemma \ PopKeeps) : v \in Var /\ ~Known(v)
    BY <2>2 DEF Atoms
  <2> QED
    BY <1>1, <1>2, <2>1, <2>3
<1>9. ~(Flagged /\ AtChoice) => Implied(Live)'
  <2> SUFFICES ASSUME ~(Flagged /\ AtChoice), NEW m \in Models \ found
               PROVE  \E l \in Live' : m[l[1]] = l[2]
    BY <1>1 DEF Implied, Models, resultVars
  <2>1. PICK l \in Live : m[l[1]] = l[2]
    BY <1>2 DEF Implied
  <2>2. CASE l[1] # PopAtom \/ ~Flagged
    BY <1>5, <2>1, <2>2
  <2>3. CASE l[1] = PopAtom /\ Flagged
    <3>1. m[PopAtom] # arrSolution[PopAtom]
      BY <1>4, <1>5, <1>6, <2>1, <2>3, Literals
    <3>2. this \in PopEntry.lemma
      BY <1>3, <1>5, <2>3 DEF Reason, PopEntry, PopAtom
    <3>3. Implied(PopEntry.lemma)
      <4>1. Depth \in 1..Depth
        BY <1>6
      <4> QED
        BY <3>2, <4>1 DEF ImpliedOk, NO_LEMMA, PopEntry
    <3>4. PICK r \in PopEntry.lemma : m[r[1]] = r[2]
      BY <3>3 DEF Implied
    <3>5. r # this
      BY <1>3, <3>1, <3>4
    <3> QED
      BY <1>5, <2>3, <3>4, <3>5
  <2> QED
    BY <2>2, <2>3
<1>10. /\ nNumForcedInfsBelowCurrentCP' \in 0..NumVars
       /\ ~AtChoice => nNumForcedInfsBelowCurrentCP' = Cardinality(OnLevelFlagged)'
  <2>1. CASE AtChoice
    <3>1. {v \in Atoms(PopAdds) : OnLevel(v)} = {}
      BY <2>1 DEF PopAdds, Atoms
    <3>2. Forced \in 0..NumVars
      BY PopForced
    <3>3. nNumForcedInfsBelowCurrentCP' = Forced + 0
      BY <1>1, <3>1, FS_EmptySet
    <3> QED
      BY <2>1, <3>2, <3>3
  <2>2. CASE ~AtChoice
    <3>1. OnLevelFlagged' \in SUBSET Var
      BY <1>7 DEF OnLevelFlagged
    <3>2. Cardinality(OnLevelFlagged') \in 0..NumVars
      BY <3>1, FiniteVars
    <3> QED
      BY <2>2, <3>2, PopCounts
  <2> QED
    BY <2>1, <2>2
<1>11. CASE ~AtChoice
  <2>1. Slot' = Slot /\ \A k \in 1..Slot' : ChoiceAt(k)' = ChoiceAt(k)
    BY <1>11, PopLevels
  <2>2. PICK n \in 1..Slot : n = Slot
    BY <1>6
  <2>3. ChoiceAt(n)' = ChoiceAt(n)
    BY <2>1
  <2>4. ChoiceAt(Slot)' = ChoiceAt(Slot)
    BY <2>1, <2>2, <2>3 DEF ChoiceAt, ChoiceVar
  <2>5. Slot' > 0
    BY <1>6, <2>1
  <2>6. pc' = "pop" /\ nOldBacktrackStackIndex' = ChoiceAt(Slot)'
    BY <1>1, <1>2, <1>11, <2>4
  <2> QED
    BY <1>5, <1>7, <1>8, <1>9, <1>10, <1>11, <2>5, <2>6 DEF ConflictOk
<1>12. CASE AtChoice /\ ~Flagged
  <2>1. pc' = "backjump" /\ nOldBacktrackStackIndex' = Depth' + 1
    BY <1>1, <1>2, <1>6, <1>12
  <2> QED
    BY <1>5, <1>7, <1>8, <1>9, <1>10, <1>12, <2>1 DEF ConflictOk
<1>13. CASE AtChoice /\ Flagged
  <2>1. pc' = "flip"
    BY <1>1, <1>13
  <2> QED
    BY <1>7, <1>10, <2>1 DEF ConflictOk
<1> QED
  BY <1>11, <1>12, <1>13

(* Of some atoms on the trail one was assigned last.                       *)
LEMMA LastAssigned ==
  ASSUME TrailOk, NEW T \in SUBSET Var, T # {}, \A v \in T : Known(v)
  PROVE  \E v \in T : \A w \in T : At(w) <= At(v)
<1> DEFINE ages == {Depth - At(v) : v \in T}
<1>1. Depth \in Nat /\ \A v \in T : At(v) \in 1..Depth
  BY TrailIs
<1>2. ages \in SUBSET Nat /\ ages # {}
  BY <1>1
<1>3. PICK n \in ages : \A k \in ages : n <= k
  <2> HIDE DEF ages
  <2> QED
    BY <1>2, LeastNumber
<1>4. PICK v \in T : n = Depth - At(v)
  BY <1>3
<1>5. \A w \in T : Depth - At(v) <= Depth - At(w)
  BY <1>3, <1>4
<1>6. \A w \in T : At(w) <= At(v)
  BY <1>1, <1>5
<1> QED
  BY <1>6

(* The lemma derived when an atom is popped has that atom as its first     *)
(* watch and the last of the others as its second.                         *)
LEMMA PopInfo ==
  ASSUME IInv, Pop, Derives, NEW new, new = NewLemma(PopKeeps, PopAtom),
         NEW b \in Nat, b = Depth
  PROVE  /\ new \in LemmaInfo /\ new.lemma = Live /\ new.nWatchedVble0 = PopAtom
         /\ Implied(new.lemma) /\ InfoOk(new, b)' /\ At(new.nWatchedVble1)' < b
<1> USE DEF IInv
<1>1. PICK this : this = <<PopAtom, arrSolution[PopAtom]>>
  OBVIOUS
<1>2. PICK that : that = <<PopAtom, NEG(arrSolution[PopAtom])>>
  OBVIOUS
<1>3. Flagged /\ PopKeeps = Live
  BY PopLive DEF Derives, PopKeeps
<1>4. /\ \A l \in Live : l \in Literal /\ l[1] \in Var /\ IsFalse(l) /\ Known(l[1])
      /\ \A l \in Live : l[1] = PopAtom => l = that
      /\ that \in Live
      /\ \A l \in Live : l[1] # PopAtom => l \in Live'
      /\ \A l \in Live' : IsFalse(l)'
  BY <1>1, <1>2, <1>3, PopLive
<1>5. /\ TrailOk' /\ SameBelow(b) /\ b > 0 /\ Depth' = b - 1
      /\ PopAtom \in Var /\ At(PopAtom) = b /\ arrSolution[PopAtom] \in Value
      /\ \A v \in Var : v # PopAtom => At(v)' = At(v) /\ (Known(v) => At(v) < b)
  BY PopTrail
<1>6. PICK T \in SUBSET Var : T = Atoms(Live) \ {PopAtom}
  BY <1>4 DEF Atoms
<1>7. \A v \in T : Known(v) /\ v # PopAtom /\ At(v)' = At(v) /\ At(v) < b /\ At(v) \in Nat
  <2>1. \A v \in T : Known(v) /\ v # PopAtom
    BY <1>4, <1>6 DEF Atoms
  <2> QED
    BY <1>5, <2>1, TrailIs
<1>8. PICK w \in 0..NumVars :
        w = IF T = {} THEN 0
            ELSE CHOOSE v \in T : \A u \in T : At(u) <= At(v)
  <2>1. T # {} => \E v \in T : \A u \in T : At(u) <= At(v)
    BY <1>7, LastAssigned
  <2>2. PICK c : c = CHOOSE v \in T : \A u \in T : At(u) <= At(v)
    OBVIOUS
  <2>3. T # {} => c \in T
    BY <2>1, <2>2
  <2>4. T \subseteq 0..NumVars /\ 0 \in 0..NumVars
    BY Vars, NumVarsAssumption
  <2>5. PICK w : w = IF T = {} THEN 0 ELSE c
    OBVIOUS
  <2>6. w \in 0..NumVars
    BY ONLY <2>3, <2>4, <2>5
  <2> QED
    BY <2>2, <2>5, <2>6
<1>9. T # {} => w \in T /\ \A u \in T : At(u) <= At(w)
  <2>1. T # {} => \E v \in T : \A u \in T : At(u) <= At(v)
    BY <1>7, LastAssigned
  <2> QED
    BY <1>8, <2>1
<1>10. new = [lemma |-> Live, nWatchedVble0 |-> PopAtom, nWatchedVble1 |-> w]
  BY <1>3, <1>6, <1>8 DEF NewLemma, At
<1>11. /\ new.lemma = Live /\ new.nWatchedVble0 = PopAtom /\ new.nWatchedVble1 = w
       /\ Live \in Lemma /\ new \in LemmaInfo
  BY <1>4, <1>5, <1>10 DEF LemmaInfo, Lemma
<1>12. At(w)' < b /\ (T # {} => At(w)' = At(w))
  <2>1. CASE T = {}
    <3>1. w = 0
      BY <1>8, <2>1
    <3>2. At(0)' = 0
      BY <1>5, TrailIs DEF SameBelow
    <3> QED
      BY <1>5, <2>1, <3>1, <3>2
  <2>2. CASE T # {}
    BY <1>7, <1>9, <2>2
  <2> QED
    BY <2>1, <2>2
<1>13. \A l \in Live : l[1] # PopAtom => IsFalse(l)' /\ At(l[1])' <= At(w)'
  <2> SUFFICES ASSUME NEW l \in Live, l[1] # PopAtom
               PROVE  IsFalse(l)' /\ At(l[1])' <= At(w)'
    OBVIOUS
  <2>1. l[1] \in T
    BY <1>4, <1>6 DEF Atoms
  <2> QED
    BY <1>4, <1>7, <1>9, <1>12, <2>1
<1>14. \E val \in Value : <<PopAtom, val>> \in Live /\ <<PopAtom, NEG(val)>> \notin Live
  <2>1. PICK val \in Value : val = NEG(arrSolution[PopAtom])
    BY <1>5, Literals
  <2>2. that = <<PopAtom, val>>
    BY <1>2, <2>1
  <2>3. PICK neg : neg = NEG(val)
    OBVIOUS
  <2>4. neg # val
    BY <1>5, <2>3, Literals
  <2>5. <<PopAtom, neg>> # that /\ <<PopAtom, neg>>[1] = PopAtom
    BY ONLY <2>2, <2>4
  <2>6. <<PopAtom, neg>> \notin Live
    BY <1>4, <2>5
  <2> QED
    BY <1>4, <2>2, <2>3, <2>6
<1>15. InfoOk(new, b)'
  BY <1>11, <1>13, <1>14 DEF InfoOk, Other
<1>16. Implied(Live)
  BY PopSteps DEF ConflictOk
<1> QED
  BY <1>11, <1>12, <1>15, <1>16

(* A new lemma goes before those that were listed.                         *)
LEMMA PopList ==
  ASSUME IInv, Pop, NEW old \in Seq(LemmaInfo), old = pUnitLemmaList,
         NEW list, list = pUnitLemmaList'
  PROVE  /\ list \in Seq(LemmaInfo)
         /\ Derives => 1 \in 1..Len(list) /\ list[1] = NewLemma(PopKeeps, PopAtom)
         /\ \A j \in 1..Len(old) : \E i \in 1..Len(list) : list[i] = old[j]
         /\ \A i \in 1..Len(list) : \/ Derives /\ i = 1
                                    \/ i \in 1..Len(old) /\ list[i] = old[i] /\ ~Derives
                                    \/ i - 1 \in 1..Len(old) /\ list[i] = old[i - 1] /\ Derives
<1>1. CASE ~Derives
  BY <1>1, PopSteps
<1>2. CASE Derives
  <2>1. PICK new : new = NewLemma(PopKeeps, PopAtom)
    OBVIOUS
  <2>2. Depth \in Nat
    BY PopTrail
  <2>3. new \in LemmaInfo
    BY <1>2, <2>1, <2>2, PopInfo
  <2>4. PICK one \in Seq(LemmaInfo) : one = <<new>> /\ Len(one) = 1 /\ one[1] = new
    <3>1. \A D : \A x \in D : <<x>> \in Seq(D) /\ Len(<<x>>) = 1 /\ <<x>>[1] = x
      OBVIOUS
    <3> QED
      BY ONLY <2>3, <3>1
  <2>5. list = one \o old
    BY <1>2, <2>1, <2>4, PopSteps
  <2>6. /\ list \in Seq(LemmaInfo)
        /\ \A i \in 1..Len(one) : i \in 1..Len(list) /\ list[i] = one[i]
        /\ \A j \in 1..Len(old) : Len(one) + j \in 1..Len(list) /\ list[Len(one) + j] = old[j]
        /\ \A i \in 1..Len(list) : \/ i \in 1..Len(one)
                                   \/ \E j \in 1..Len(old) : i = Len(one) + j
    BY ONLY <2>5, ConcatIs, one \in Seq(LemmaInfo), old \in Seq(LemmaInfo),
            list \in {one \o old}
  <2>7. /\ list \in Seq(LemmaInfo)
        /\ \A i \in 1..1 : i \in 1..Len(list) /\ list[i] = one[i]
        /\ \A j \in 1..Len(old) : 1 + j \in 1..Len(list) /\ list[1 + j] = old[j]
        /\ \A i \in 1..Len(list) : i \in 1..1 \/ \E j \in 1..Len(old) : i = 1 + j
    BY <2>4, <2>6
  <2>8. 1 \in 1..Len(list) /\ list[1] = new
    BY <2>4, <2>7
  <2>9. ASSUME NEW i \in 1..Len(list)
        PROVE  i = 1 \/ (i - 1 \in 1..Len(old) /\ list[i] = old[i - 1])
    <3>1. CASE i \in 1..1
      BY <3>1
    <3>2. ASSUME NEW j \in 1..Len(old), i = 1 + j
          PROVE  i - 1 \in 1..Len(old) /\ list[i] = old[i - 1]
      <4>1. i - 1 = j
        BY <3>2
      <4>2. list[1 + j] = old[j]
        BY <2>7
      <4> QED
        BY <3>2, <4>1, <4>2
    <3> QED
      BY <2>7, <3>1, <3>2
  <2>10. \A j \in 1..Len(old) : \E i \in 1..Len(list) : list[i] = old[j]
    BY <2>7
  <2> QED
    BY <1>2, <2>1, <2>7, <2>8, <2>9, <2>10
<1> QED
  BY <1>1, <1>2

LEMMA PopListed ==
  ASSUME IInv, Pop
  PROVE  ImpliedOk' /\ ReversedOk'
<1> USE DEF IInv
<1>1. UNCHANGED <<problem, unitLemmas, cache, resultVars>>
  BY PopSteps
<1>2. /\ Depth \in Nat /\ Depth > 0 /\ Depth' = Depth - 1 /\ SameBelow(Depth)
  BY PopTrail
<1>3. \A i \in 1..Depth' : i \in 1..Depth /\ arrBacktrackStack'[i] = arrBacktrackStack[i]
  <2>1. \A i \in 1..Depth' : i \in 1..Depth /\ i < Depth
    BY <1>2
  <2> QED
    BY <1>2, <2>1 DEF SameBelow
<1>4. PICK old \in Seq(LemmaInfo) : old = pUnitLemmaList
  BY DEF PendingOk
<1>5. PICK list : list = pUnitLemmaList'
  OBVIOUS
<1>6. /\ Derives => list[1] = NewLemma(PopKeeps, PopAtom)
      /\ \A j \in 1..Len(old) : \E i \in 1..Len(list) : list[i] = old[j]
      /\ \A i \in 1..Len(list) : \/ Derives /\ i = 1
                                 \/ \E j \in 1..Len(old) : list[i] = old[j]
  BY <1>4, <1>5, PopList
<1>7. ImpliedOk'
  <2>1. \A j \in 1..Len(old) : Implied(old[j].lemma)
    BY <1>4 DEF ImpliedOk
  <2>2. Derives => Implied(list[1].lemma)
    <3>1. PICK new : new = NewLemma(PopKeeps, PopAtom)
      OBVIOUS
    <3>2. Derives => Implied(new.lemma)
      BY <1>2, <3>1, PopInfo
    <3> QED
      BY <1>6, <3>1, <3>2
  <2>3. \A i \in 1..Len(list) : Implied(list[i].lemma)
    BY <1>6, <2>1, <2>2
  <2>4. \A i \in 1..Depth' : arrBacktrackStack'[i].lemma # NO_LEMMA =>
                               Implied(arrBacktrackStack'[i].lemma)
    BY <1>3 DEF ImpliedOk
  <2>5. found' = found /\ cache' = cache /\ unitLemmas' = unitLemmas
    BY <1>1 DEF resultVars
  <2>6. \A L \in cache' : Implied(L)
    BY <2>5 DEF ImpliedOk
  <2>7. \A s \in 0..NumVars : \A i \in 1..Len(unitLemmas'[s]) : Implied(unitLemmas'[s][i].lemma)
    BY <2>5 DEF ImpliedOk
  <2> QED
    BY <1>1, <1>5, <2>3, <2>4, <2>5, <2>6, <2>7, ImpliedParts
<1>8. ReversedOk'
  <2>1. ASSUME NEW e, NEW j \in 1..Len(old), Made(old[j], e)
        PROVE  \E i \in 1..Len(list) : Made(list[i], e)
    BY <1>6, <2>1
  <2>2. \A e : InLists(e, unitLemmas, old) => InLists(e, unitLemmas', list)
    BY <1>1, <2>1 DEF InLists
  <2> QED
    BY <1>3, <1>4, <1>5, <2>2 DEF ReversedOk
<1> QED
  BY <1>7, <1>8

LEMMA InfoWeaker ==
  ASSUME TrailOk, NEW p \in LemmaInfo, NEW c \in Nat, NEW d \in Nat, d <= c, InfoOk(p, c)
  PROVE  InfoOk(p, d)
<1>1. At(p.nWatchedVble1) \in Nat
  BY InfoIs, TrailIs
<1>2. At(p.nWatchedVble1) < d => At(p.nWatchedVble1) < c
  BY <1>1
<1> QED
  BY <1>2 DEF InfoOk

LEMMA PopPendingOne ==
  ASSUME IInv, Pop, NEW p \in LemmaInfo, PendingOne(p)
  PROVE  /\ PendingOne(p)'
         /\ ~Known(p.nWatchedVble0) => ~Known(p.nWatchedVble0)'
         /\ p.nWatchedVble0 = PopAtom => ~AtChoice /\ p.lemma = PopEntry.lemma
<1> USE DEF IInv
<1>1. /\ TrailOk' /\ SameBelow(Depth) /\ Depth \in Nat /\ Depth > 0 /\ Depth' = Depth - 1
      /\ Slot \in 1..Slot /\ Slot \in Nat
      /\ PopAtom \in Var /\ At(PopAtom) = Depth /\ Known(PopAtom)
      /\ \A v \in Var : v = PopAtom => ~Known(v)'
      /\ \A v \in Var : v # PopAtom => Known(v)' = Known(v) /\ (Known(v) => At(v) < Depth)
      /\ ChoiceAt(Slot) \in 1..Depth
      /\ AtChoice => ChoiceAt(Slot) = Depth
  BY PopTrail
<1>2. pc = "pop" /\ pc' = IF ~AtChoice THEN "pop" ELSE IF Flagged THEN "flip" ELSE "backjump"
  BY PopSteps
<1>3. PICK b \in Nat : b = Depth /\ b <= b /\ b = Depth' + 1
  BY <1>1
<1>4. SameBelow(b)
  BY <1>1, <1>3
<1>5. PICK v \in Var : v = p.nWatchedVble0
  BY InfoIs
<1>6. CASE ~Known(v) /\ InfoOk(p, Depth + 1)
  <2>1. ~Known(v)' /\ v # PopAtom
    BY <1>1, <1>6
  <2>2. InfoOk(p, b)
    <3>1. Depth + 1 \in Nat /\ b <= Depth + 1
      BY <1>3
    <3> QED
      BY <1>6, <3>1, InfoWeaker
  <2>3. InfoOk(p, b)'
    BY ONLY <1>1, <1>3, <1>4, <2>2, TrailOk, p \in LemmaInfo, b \in Nat, InfoKept
  <2>4. InfoOk(p, Depth + 1)'
    BY <1>3, <2>3
  <2> QED
    BY <1>5, <2>1, <2>4 DEF PendingOne
<1>7. CASE InUse(p) /\ ChoiceAt(Slot) < At(v)
  <2>1. Known(v) /\ At(v) \in 1..Depth /\ arrBacktrackStack[At(v)].lemma = p.lemma
    BY <1>5, <1>7, InUseAt DEF InUse
  <2>2. ~AtChoice /\ pc' = "pop"
    BY <1>1, <1>2, <1>7, <2>1
  <2>3. CASE v = PopAtom
    <3>1. At(v) = b /\ ~Known(v)' /\ p.lemma = PopEntry.lemma
      BY <1>1, <1>3, <2>1, <2>3 DEF PopEntry
    <3>2. InfoOk(p, b)
      BY <1>5, <1>7, <3>1 DEF InUse
    <3>3. InfoOk(p, b)'
      BY ONLY <1>1, <1>3, <1>4, <3>2, TrailOk, p \in LemmaInfo, b \in Nat, InfoKept
    <3>4. InfoOk(p, Depth + 1)'
      BY <1>3, <3>3
    <3> QED
      BY <1>5, <2>1, <2>2, <3>1, <3>4 DEF PendingOne
  <2>4. CASE v # PopAtom
    <3>1. At(p.nWatchedVble0) < b
      BY <1>1, <1>3, <1>5, <2>1, <2>4
    <3>2. InUse(p)' /\ At(v)' = At(v)
      BY <1>1, <1>4, <1>5, <1>7, <3>1, InUseKept
    <3>3. ChoiceAt(Slot)' = ChoiceAt(Slot)
      <4>1. Slot' = Slot /\ \A k \in 1..Slot' : ChoiceAt(k)' = ChoiceAt(k)
        BY <2>2, PopLevels
      <4>2. PICK n \in 1..Slot : n = Slot
        BY <1>1
      <4>3. ChoiceAt(n)' = ChoiceAt(n)
        BY <4>1
      <4> QED
        BY <4>1, <4>2, <4>3 DEF ChoiceAt, ChoiceVar
    <3> QED
      BY <1>5, <1>7, <2>1, <2>2, <2>4, <3>2, <3>3 DEF PendingOne
  <2> QED
    BY <2>3, <2>4
<1> QED
  BY <1>5, <1>6, <1>7 DEF PendingOne

(* Of two lemmas that could make the same inference one is not unit as soon *)
(* as an atom that only it depends on is popped.                           *)
LEMMA PopPair ==
  ASSUME IInv, Pop, NEW p \in LemmaInfo, NEW r \in LemmaInfo, PairOk(p, r),
         InfoOk(p, Depth + 1), InfoOk(r, Depth + 1)
  PROVE  PairOk(p, r)'
<1> USE DEF IInv
<1>1. /\ Depth \in Nat /\ Depth > 0 /\ Depth' = Depth - 1
      /\ PopAtom \in Var /\ At(PopAtom) = Depth /\ Known(PopAtom)
      /\ arrSolution[PopAtom] \in Value
      /\ \A v \in Var : v = PopAtom => At(v)' = NOT_ON_STACK
      /\ \A v \in Var : v # PopAtom => At(v)' = At(v) /\ arrSolution'[v] = arrSolution[v]
  BY PopTrail
<1>2. pc' = IF ~AtChoice THEN "pop" ELSE IF Flagged THEN "flip" ELSE "backjump"
  BY PopSteps
<1>3. /\ NOT_ON_STACK > Depth /\ NOT_ON_STACK \in Nat /\ At(0) = 0
      /\ \A v \in Var : At(v) \in Nat
      /\ \A v \in Var : At(v) = Depth => v = PopAtom
  <2>1. Depth <= NumVars
    BY TrailIs
  <2>2. \A v \in Var : At(v) = Depth => v = PopAtom
    BY <1>1, TrailIs DEF PopAtom, PopEntry
  <2> QED
    BY <1>1, <2>1, <2>2, TrailIs, NumVarsAssumption DEF NOT_ON_STACK
<1>4. \A q \in LemmaInfo : Missed(q) => Missed(q)'
  <2> SUFFICES ASSUME NEW q \in LemmaInfo, Missed(q) PROVE Missed(q)'
    OBVIOUS
  <2>1. PICK w \in 0..NumVars : w = q.nWatchedVble1
    BY InfoIs
  <2>2. At(w) > Depth
    BY <2>1 DEF Missed
  <2>3. w \in Var /\ w # PopAtom
    BY <1>1, <1>3, <2>2 DEF Var
  <2>4. At(w)' = At(w) /\ At(w) \in Nat
    BY <1>1, <1>3, <2>3
  <2>5. At(w)' > Depth'
    BY ONLY <1>1, <2>2, <2>4
  <2> QED
    BY <2>1, <2>5 DEF Missed
<1>5. PICK that : that = <<PopAtom, NEG(arrSolution[PopAtom])>>
  OBVIOUS
<1>6. PICK this : this = <<PopAtom, arrSolution[PopAtom]>>
  OBVIOUS
<1>7. ASSUME NEW q \in LemmaInfo, InfoOk(q, Depth + 1), Other(q, that) PROVE Missed(q)'
  <2>1. PICK w \in 0..NumVars : w = q.nWatchedVble1
    BY InfoIs
  <2>2. CASE At(w) < Depth + 1
    <3>1. that \in Literal /\ that[1] = PopAtom
      BY <1>1, <1>5, Literals
    <3>2. At(PopAtom) <= At(w)
      BY <1>7, <2>1, <2>2, <3>1 DEF InfoOk
    <3>3. At(w) \in Nat
      BY TrailIs
    <3>4. At(w) = Depth
      BY ONLY <1>1, <2>2, <3>2, <3>3
    <3>5. w \in Var
      BY <1>1, <1>3, <3>4 DEF Var
    <3>6. At(w)' = NOT_ON_STACK
      BY <1>1, <1>3, <3>4, <3>5
    <3> QED
      BY <1>1, <1>3, <2>1, <3>6 DEF Missed
  <2>3. CASE ~(At(w) < Depth + 1)
    <3>1. At(w) \in Nat
      BY TrailIs
    <3>2. Missed(q)
      BY <1>1, <2>1, <2>3, <3>1 DEF Missed
    <3> QED
      BY <1>4, <3>2
  <2> QED
    BY <2>2, <2>3
<1>8. CASE Missed(p) \/ Missed(r)
  BY <1>4, <1>8 DEF PairOk
<1>9. CASE \A l \in Live : Other(p, <<l[1], NEG(arrSolution[l[1]])>>)
                           \/ Other(r, <<l[1], NEG(arrSolution[l[1]])>>)
  <2>1. CASE Flagged
    <3>1. that \in Live /\ that[1] = PopAtom
      BY <1>5, <1>6, <2>1, PopLive
    <3>2. Other(p, that) \/ Other(r, that)
      BY <1>5, <1>9, <3>1
    <3> QED
      BY <1>7, <3>2 DEF PairOk
  <2>2. CASE ~Flagged
    <3>1. Live' = Live /\ \A l \in Live' : l[1] # PopAtom
      BY <1>5, <1>6, <2>2, PopLive
    <3>2. \A l \in Live : l[1] \in Var
      BY <1>5, <1>6, PopLive
    <3>3. \A l \in Live' : arrSolution'[l[1]] = arrSolution[l[1]]
      BY <1>1, <3>1, <3>2
    <3>4. pc' # "flip"
      BY <1>2, <2>2
    <3>5. \A l \in Live' : Other(p, <<l[1], NEG(arrSolution'[l[1]])>>)
                           \/ Other(r, <<l[1], NEG(arrSolution'[l[1]])>>)
      BY <1>9, <3>1, <3>3
    <3> QED
      BY <3>4, <3>5 DEF PairOk, Other
  <2> QED
    BY <2>1, <2>2
<1> QED
  BY <1>8, <1>9 DEF PairOk

LEMMA PopPending ==
  ASSUME IInv, Pop
  PROVE  PendingOk'
<1> USE DEF IInv
<1>1. PICK old \in Seq(LemmaInfo) : old = pUnitLemmaList
  BY DEF PendingOk
<1>2. PICK list \in Seq(LemmaInfo) :
        /\ list = pUnitLemmaList'
        /\ Derives => list[1] = NewLemma(PopKeeps, PopAtom)
        /\ \A i \in 1..Len(list) : \/ Derives /\ i = 1
                                   \/ i \in 1..Len(old) /\ list[i] = old[i] /\ ~Derives
                                   \/ i - 1 \in 1..Len(old) /\ list[i] = old[i - 1] /\ Derives
  BY <1>1, PopList
<1>3. /\ pc = "pop" /\ pc' \in {"pop", "flip", "backjump"}
      /\ pc' = IF ~AtChoice THEN "pop" ELSE IF Flagged THEN "flip" ELSE "backjump"
  BY PopSteps
<1>4. \A j \in 1..Len(old) : old[j] \in LemmaInfo /\ PendingOne(old[j])
  BY <1>1, <1>3 DEF PendingOk
<1>5. PICK b \in Nat : b = Depth /\ b = Depth' + 1
  BY PopTrail
<1>6. /\ PopAtom \in Var /\ Known(PopAtom)
      /\ \A v \in Var : v = PopAtom => ~Known(v)'
      /\ \A v \in Var : v # PopAtom => arrSolution'[v] = arrSolution[v]
  BY PopTrail
<1>7. PICK new : new = NewLemma(PopKeeps, PopAtom)
  OBVIOUS
<1>8. Derives => /\ new \in LemmaInfo /\ new.lemma = Live /\ new.nWatchedVble0 = PopAtom
                 /\ InfoOk(new, b)'
  BY <1>5, <1>7, PopInfo
<1>9. Derives => PendingOne(new)' /\ ~Known(new.nWatchedVble0)'
  BY <1>5, <1>6, <1>8 DEF PendingOne
<1>10. \A j \in 1..Len(old) :
         /\ PendingOne(old[j])'
         /\ ~Known(old[j].nWatchedVble0) => ~Known(old[j].nWatchedVble0)'
         /\ old[j].nWatchedVble0 = PopAtom => ~AtChoice /\ old[j].lemma = PopEntry.lemma
  BY <1>4, PopPendingOne
<1>11. \A i \in 1..Len(list) : list[i] \in LemmaInfo /\ PendingOne(list[i])'
  <2>1. \A i \in 1..Len(list) : list[i] \in LemmaInfo
    OBVIOUS
  <2>2. \A i \in 1..Len(list) : Derives /\ i = 1 => PendingOne(list[i])'
    BY <1>2, <1>7, <1>9
  <2>3. \A i \in 1..Len(list) : i \in 1..Len(old) /\ list[i] = old[i] => PendingOne(list[i])'
    BY <1>10
  <2>4. \A i \in 1..Len(list) : i - 1 \in 1..Len(old) /\ list[i] = old[i - 1] => PendingOne(list[i])'
    BY <1>10
  <2> QED
    BY <1>2, <2>1, <2>2, <2>3, <2>4
<1>12. ASSUME NEW i \in 1..Len(old), NEW j \in 1..Len(old), i # j,
              old[i].nWatchedVble0 = old[j].nWatchedVble0
       PROVE  ~Known(old[i].nWatchedVble0)' /\ PairOk(old[i], old[j])'
  <2>1. PICK p \in LemmaInfo : p = old[i] /\ PendingOne(p)
    BY <1>4
  <2>2. PICK r \in LemmaInfo : r = old[j] /\ PendingOne(r)
    BY <1>4
  <2>3. ~Known(p.nWatchedVble0) /\ PairOk(p, r) /\ ~Known(r.nWatchedVble0)
    BY <1>1, <1>3, <1>12, <2>1, <2>2 DEF PendingOk
  <2>4. InfoOk(p, Depth + 1) /\ InfoOk(r, Depth + 1)
    BY <2>1, <2>2, <2>3 DEF PendingOne, InUse
  <2>5. PairOk(p, r)'
    BY <2>3, <2>4, PopPair
  <2>6. ~Known(p.nWatchedVble0)'
    BY <2>1, <2>3, PopPendingOne
  <2> QED
    BY <2>1, <2>2, <2>5, <2>6
<1>13. ASSUME NEW j \in 1..Len(old), Derives, old[j].nWatchedVble0 = PopAtom
       PROVE  PairOk(new, old[j])' /\ PairOk(old[j], new)'
  <2>1. PICK this : this = <<PopAtom, arrSolution[PopAtom]>>
    OBVIOUS
  <2>2. PICK that : that = <<PopAtom, NEG(arrSolution[PopAtom])>>
    OBVIOUS
  <2>3. /\ \A l \in Live : l \in Literal /\ l[1] \in Var
        /\ \A l \in Live' : /\ l[1] # PopAtom /\ IsFalse(l)'
                            /\ l \in Live \/ (Flagged /\ ~AtChoice /\ l \in PopEntry.lemma \ {this})
    BY <2>1, <2>2, PopLive
  <2>4. old[j].lemma = PopEntry.lemma /\ pc' # "flip"
    BY <1>3, <1>10, <1>13
  <2>5. \A l \in PopEntry.lemma : l \in Literal
    BY <1>4, <2>4, InfoIs
  <2>6. \A l \in Live' : Other(new, <<l[1], NEG(arrSolution'[l[1]])>>)
                         \/ Other(old[j], <<l[1], NEG(arrSolution'[l[1]])>>)
    <3> SUFFICES ASSUME NEW l \in Live'
                 PROVE  Other(new, <<l[1], NEG(arrSolution'[l[1]])>>)
                        \/ Other(old[j], <<l[1], NEG(arrSolution'[l[1]])>>)
      OBVIOUS
    <3>1. l \in Literal /\ l[1] # PopAtom /\ l[2] = NEG(arrSolution'[l[1]])
      <4>1. l[1] # PopAtom /\ IsFalse(l)' /\ (l \in Live \/ l \in PopEntry.lemma)
        BY <2>3
      <4>2. l \in Literal
        BY <2>3, <2>5, <4>1
      <4>3. arrSolution'[l[1]] = NEG(l[2])
        BY <4>1 DEF IsFalse
      <4> QED
        BY <4>1, <4>2, <4>3, Literals
    <3>2. l = <<l[1], NEG(arrSolution'[l[1]])>>
      BY <3>1, Literals
    <3>3. Other(new, l) \/ Other(old[j], l)
      BY <1>8, <1>13, <2>3, <2>4, <3>1 DEF Other
    <3> QED
      BY <3>2, <3>3
  <2> QED
    BY <2>4, <2>6 DEF PairOk, Other
<1>14. ASSUME NEW i \in 1..Len(list), NEW j \in 1..Len(list), i # j,
              list[i].nWatchedVble0 = list[j].nWatchedVble0
       PROVE  ~Known(list[i].nWatchedVble0)' /\ PairOk(list[i], list[j])'
  <2>1. CASE ~Derives
    <3>1. i \in 1..Len(old) /\ j \in 1..Len(old) /\ list[i] = old[i] /\ list[j] = old[j]
      BY <1>2, <2>1
    <3> QED
      BY <1>12, <1>14, <3>1
  <2>2. CASE Derives
    <3>1. \A k \in 1..Len(list) : k = 1 \/ (k - 1 \in 1..Len(old) /\ list[k] = old[k - 1])
      BY <1>2, <2>2
    <3>2. list[1] = new
      BY <1>2, <1>7, <2>2
    <3>3. CASE i # 1 /\ j # 1
      <4>1. i - 1 \in 1..Len(old) /\ list[i] = old[i - 1]
        BY <3>1, <3>3
      <4>2. j - 1 \in 1..Len(old) /\ list[j] = old[j - 1]
        BY <3>1, <3>3
      <4>3. i - 1 # j - 1
        BY <1>14
      <4> QED
        BY <1>12, <1>14, <4>1, <4>2, <4>3
    <3>4. CASE i = 1
      <4>1. j - 1 \in 1..Len(old) /\ list[j] = old[j - 1]
        BY <1>14, <3>1, <3>4
      <4> QED
        BY <1>8, <1>9, <1>13, <1>14, <2>2, <3>2, <3>4, <4>1
    <3>5. CASE j = 1
      <4>1. i - 1 \in 1..Len(old) /\ list[i] = old[i - 1]
        BY <1>14, <3>1, <3>5
      <4> QED
        BY <1>8, <1>9, <1>13, <1>14, <2>2, <3>2, <3>5, <4>1
    <3> QED
      BY <3>3, <3>4, <3>5
  <2> QED
    BY <2>1, <2>2
<1> QED
  BY <1>2, <1>3, <1>11, <1>14 DEF PendingOk

LEMMA PopFlip ==
  ASSUME IInv, Pop
  PROVE  FlipOk'
<1> USE DEF IInv
<1> SUFFICES ASSUME AtChoice, Flagged PROVE FlipOk'
  BY PopSteps DEF FlipOk
<1>1. Derives
  BY DEF Derives, UniqueImplicationPoint, AtChoice, PopAtom
<1>2. PICK old \in Seq(LemmaInfo) : old = pUnitLemmaList
  BY DEF PendingOk
<1>3. PICK new : new = NewLemma(PopKeeps, PopAtom)
  OBVIOUS
<1>4. PICK list \in Seq(LemmaInfo) : list = pUnitLemmaList' /\ 1 \in 1..Len(list) /\ list[1] = new
  BY <1>1, <1>2, <1>3, PopList
<1>5. PICK b \in Nat : b = Depth /\ b = Depth' + 1 /\ b <= b
  BY PopTrail
<1>6. /\ new.lemma = Live /\ new.nWatchedVble0 = PopAtom /\ At(new.nWatchedVble1)' < b
      /\ new \in LemmaInfo
  BY <1>1, <1>3, <1>5, PopInfo
<1>7. PICK this : this = <<PopAtom, arrSolution[PopAtom]>>
  OBVIOUS
<1>8. PICK that : that = <<PopAtom, NEG(arrSolution[PopAtom])>>
  OBVIOUS
<1>9. that \in Live /\ nFlipped' = that
  BY <1>7, <1>8, PopLive, PopSteps
<1>10. /\ TrailOk' /\ SameBelow(b) /\ Slot \in 1..Slot
       /\ PopAtom \in Var /\ arrSolution[PopAtom] \in Value
       /\ ChoiceVar(Slot) = PopAtom /\ ChoiceAt(Slot) = b
  BY <1>5, PopTrail
<1>11. ~Missed(new)'
  <2>1. At(new.nWatchedVble1)' \in Nat
    BY <1>6, <1>10, InfoIs DEF TrailOk, At
  <2> QED
    BY <1>5, <1>6, <2>1, PopTrail DEF Missed
<1>12. found' = found
  BY PopSteps DEF resultVars
<1>13. ASSUME NEW m \in found, AgreesBelow(m, b)' PROVE m[PopAtom] # NEG(arrSolution[PopAtom])
  <2>1. AgreesBelow(m, b)
    BY ONLY <1>5, <1>10, <1>13, TrailOk, b \in Nat, AgreesKept
  <2>2. LevelOk(Slot)
    BY <1>10 DEF LevelsOk
  <2>3. m[PopAtom] = arrSolution[PopAtom]
    BY <1>10, <2>1, <2>2 DEF LevelOk, ChoiceVar, ChoiceAt
  <2> QED
    BY <1>10, <2>3, Literals
<1>14. \A m \in found' : AgreesBelow(m, Depth + 1)' => m[nFlipped'[1]] # nFlipped'[2]
  BY <1>5, <1>8, <1>9, <1>12, <1>13
<1> QED
  BY <1>4, <1>6, <1>8, <1>9, <1>11, <1>14 DEF FlipOk

LEMMA PopStepKeeps ==
  ASSUME IInv, Pop
  PROVE  IInv'
BY PopTrail, PopLevels, PopListed, PopConflict, PopPending, PopFlip DEF IInv

-----------------------------------------------------------------------------
(* The inferences at the end of BackTrack                                  *)

(* An inference with a listed lemma that is unit.                          *)
LEMMA ListedInfers ==
  ASSUME IInv, pc \in {"flip", "unit"}, pc' = "unit",
         NEW b \in Nat, b = Depth + 1, NEW c \in Nat, c <= b,
         NEW lit \in Literal, NEW was \in BOOLEAN, ~Known(lit[1]),
         NEW j \in 1..Len(pUnitLemmaList), NEW p \in LemmaInfo, p = pUnitLemmaList[j],
         p.nWatchedVble0 = lit[1], lit \in p.lemma, InfoOk(p, c), At(p.nWatchedVble1) < c,
         InferLiterals(<<lit>>, was, <<p.lemma>>),
         UNCHANGED <<problem, smurfVars, levelVars, cache, pUnitLemmaList, resultVars>>
  PROVE  /\ TypesOk' /\ TrailOk' /\ ReasonsOk' /\ StatesOk' /\ LevelsOk' /\ ImpliedOk'
         /\ ListsOk' /\ ReversedOk' /\ PendingOk' /\ FlipOk'
         /\ SameBelow(b) /\ Depth' = b /\ At(lit[1])' = b /\ Known(lit[1])'
         /\ arrBacktrackStack'[b].lemma = p.lemma
         /\ \A v \in Var : v # lit[1] => Known(v)' = Known(v) /\ At(v)' = At(v)
         /\ Slot' = Slot /\ \A k \in 1..Slot : ChoiceAt(k)' = ChoiceAt(k) /\ ChoiceAt(k) < b
         /\ \A m : AgreesBelow(m, Depth + 1)' => AgreesBelow(m, b) /\ m[lit[1]] = lit[2]
<1> USE DEF IInv
<1>1. /\ p.lemma \in Lemma /\ \A l \in p.lemma : l \in Literal /\ l[1] \in Var
      /\ p.nWatchedVble0 \in Var
  BY InfoIs, Literals
<1>2. /\ TrailOk' /\ SameBelow(Depth + 1) /\ Depth' = Depth + 1
      /\ arrBacktrackStack'[Depth + 1] = NewEntry(lit, was, p.lemma)
      /\ arrSolution'[lit[1]] = lit[2] /\ At(lit[1])' = Depth + 1 /\ Known(lit[1])'
      /\ \A v \in Var : v # lit[1] => Known(v)' = Known(v) /\ At(v)' = At(v)
  BY <1>1, InferredOne
<1>3. Depth \in Nat /\ b <= b /\ SameBelow(b) /\ Depth' = b /\ At(lit[1])' = b
  BY <1>2, TrailLength
<1>4. Grows
  <2>1. Depth' >= Depth
    BY <1>2, <1>3
  <2> QED
    BY <1>2, <2>1 DEF Grows, levelVars, resultVars
<1>5. StatesOk'
  BY <1>4, StatesGrow
<1>6. TypesOk'
  BY DEF TypesOk, smurfVars
<1>7. /\ LevelsOk' /\ Slot' = Slot
      /\ \A k \in 1..Slot : ChoiceAt(k)' = ChoiceAt(k)
  BY <1>4, LevelsGrow
<1>8. \A k \in 1..Slot : ChoiceAt(k) < b
  <2>1. \A k \in 1..Slot : ChoiceAt(k) \in 1..Depth
    BY LevelIs
  <2> QED
    BY <1>3, <2>1
<1>9. ListsOk'
  BY <1>4, ListsGrow DEF levelVars
<1>10. PICK e : e = arrBacktrackStack'[b]
  OBVIOUS
<1>11. e.atom = lit[1] /\ e.lemma = p.lemma
  <2>1. e = NewEntry(lit, was, p.lemma)
    BY <1>2, <1>10
  <2> QED
    BY ONLY <2>1 DEF NewEntry
<1>12. \A l \in p.lemma \ {lit} : Other(p, l)
  <2> SUFFICES ASSUME NEW l \in p.lemma, l # lit, l[1] = lit[1] PROVE FALSE
    BY DEF Other
  <2>1. PICK val \in Value : /\ <<lit[1], val>> \in p.lemma
                             /\ <<lit[1], NEG(val)>> \notin p.lemma
    BY DEF InfoOk
  <2>2. l = <<lit[1], l[2]>> /\ lit = <<lit[1], lit[2]>> /\ l[2] \in Value /\ lit[2] \in Value
    BY <1>1, Literals
  <2>3. l[2] # lit[2]
    BY <2>2
  <2>4. l[2] = NEG(val) \/ lit[2] = NEG(val)
    BY <2>2, <2>3, Literals
  <2> QED
    BY <2>1, <2>2, <2>4
<1>13. \A l \in p.lemma \ {lit} : IsFalse(l)' /\ At(l[1])' < b
  <2> SUFFICES ASSUME NEW l \in p.lemma \ {lit} PROVE IsFalse(l)' /\ At(l[1])' < b
    OBVIOUS
  <2>1. IsFalse(l) /\ At(l[1]) <= At(p.nWatchedVble1)
    BY <1>1, <1>12 DEF InfoOk
  <2>2. At(l[1]) \in Nat /\ At(p.nWatchedVble1) \in Nat
    BY <1>1, InfoIs, TrailIs
  <2>3. At(l[1]) < b
    BY ONLY <2>1, <2>2, At(p.nWatchedVble1) < c, c <= b, c \in Nat, b \in Nat
  <2> QED
    BY ONLY <1>1, <1>2, <1>3, <2>1, <2>3, TrailOk, b \in Nat, FalseKept
<1>14. Reason(b)'
  <2>1. lit = <<lit[1], arrSolution'[lit[1]]>>
    BY <1>2, Literals
  <2> QED
    BY <1>10, <1>11, <1>13, <2>1 DEF Reason
<1>15. \A i \in 1..Depth' : i = b \/ i \in 1..Depth
  BY <1>2, <1>3
<1>16. /\ \A i \in 1..Depth : Chosen(i)' \/ Reason(i)'
       /\ \A i \in 1..Depth : arrBacktrackStack'[i] = arrBacktrackStack[i]
  BY <1>4, ReasonsGrow
<1>17. ReasonsOk'
  BY <1>14, <1>15, <1>16 DEF ReasonsOk
<1>18. ImpliedOk'
  <2>1. Implied(p.lemma)
    BY DEF ImpliedOk
  <2>2. \A i \in 1..Depth' : arrBacktrackStack'[i].lemma # NO_LEMMA =>
                               Implied(arrBacktrackStack'[i].lemma)
    BY <1>10, <1>11, <1>15, <1>16, <2>1 DEF ImpliedOk
  <2>3. /\ found' = found /\ cache' = cache /\ unitLemmas' = unitLemmas
        /\ pUnitLemmaList' = pUnitLemmaList
    BY DEF resultVars, levelVars
  <2>4. \A L \in cache' : Implied(L)
    BY <2>3 DEF ImpliedOk
  <2>5. \A s \in 0..NumVars : \A i \in 1..Len(unitLemmas'[s]) : Implied(unitLemmas'[s][i].lemma)
    BY <2>3 DEF ImpliedOk
  <2>6. \A i \in 1..Len(pUnitLemmaList') : Implied(pUnitLemmaList'[i].lemma)
    BY <2>3 DEF ImpliedOk
  <2> QED
    BY <2>2, <2>3, <2>4, <2>5, <2>6, ImpliedParts
<1>19. ReversedOk'
  <2> SUFFICES ASSUME NEW i \in 1..Depth', arrBacktrackStack'[i].bWasChoicePoint
               PROVE  InLists(arrBacktrackStack'[i], unitLemmas', pUnitLemmaList')
    BY DEF ReversedOk
  <2>1. unitLemmas' = unitLemmas /\ pUnitLemmaList' = pUnitLemmaList
    BY DEF levelVars
  <2>2. CASE i \in 1..Depth
    BY <1>16, <2>1, <2>2 DEF ReversedOk
  <2>3. CASE i = b
    <3>1. Made(pUnitLemmaList[j], e)
      BY <1>11 DEF Made
    <3>2. InLists(e, unitLemmas', pUnitLemmaList')
      BY <2>1, <3>1 DEF InLists
    <3> QED
      BY <1>10, <2>3, <3>2
  <2> QED
    BY <1>15, <2>2, <2>3
<1>20. PendingOk' /\ FlipOk'
  BY DEF PendingOk, FlipOk
<1>21. ASSUME NEW m, AgreesBelow(m, Depth + 1)'
       PROVE  AgreesBelow(m, b) /\ m[lit[1]] = lit[2]
  <2>1. PICK d \in Nat : d = b + 1 /\ b <= d
    BY <1>3
  <2>2. AgreesBelow(m, d)'
    BY <1>3, <1>21, <2>1
  <2>3. AgreesBelow(m, b)
    BY ONLY <1>2, <1>3, <2>1, <2>2, TrailOk, b \in Nat, d \in Nat, AgreesKept
  <2>4. m[lit[1]] = lit[2]
    BY <1>1, <1>2, <1>3, <2>1, <2>2 DEF AgreesBelow
  <2> QED
    BY <2>3, <2>4
<1> QED
  BY <1>2, <1>3, <1>5, <1>6, <1>7, <1>8, <1>9, <1>10, <1>11, <1>17, <1>18, <1>19, <1>20, <1>21

LEMMA FlipKeeps ==
  ASSUME IInv, Flip
  PROVE  IInv'
<1> USE DEF IInv
<1>1. /\ pc = "flip" /\ pc' = "unit" /\ nKept' = 1
      /\ arrLemmaFlag' = arrLemmaFlag \ (Atoms(arrTempLemma) \cup arrUnsetLemmaFlagVars)
      /\ InferLiterals(<<nFlipped>>, TRUE, <<pUnitLemmaList[1].lemma>>)
      /\ UNCHANGED <<problem, smurfVars, levelVars, cache, arrTempLemma,
                     arrUnsetLemmaFlagVars, nNumForcedInfsBelowCurrentCP,
                     nOldBacktrackStackIndex, pUnitLemmaList, nFlipped, resultVars>>
  BY DEF Flip
<1>2. PICK b \in Nat : b = Depth + 1 /\ b <= b
  BY TrailLength
<1>3. PICK list \in Seq(LemmaInfo) : list = pUnitLemmaList
  BY DEF PendingOk
<1>4. /\ Len(list) > 0 /\ nFlipped \in list[1].lemma
      /\ list[1].nWatchedVble0 = nFlipped[1] /\ ~Missed(list[1])
      /\ \A m \in found : AgreesBelow(m, b) => m[nFlipped[1]] # nFlipped[2]
  BY <1>1, <1>2, <1>3 DEF FlipOk
<1>5. 1 \in 1..Len(list) /\ Len(list) \in Nat
  BY <1>4, LenProperties
<1>6. \A i \in 1..Len(list) : /\ list[i] \in LemmaInfo /\ ~Known(list[i].nWatchedVble0)
                              /\ InfoOk(list[i], b)
  BY <1>1, <1>2, <1>3 DEF PendingOk, PendingOne
<1>7. PICK p \in LemmaInfo : p = list[1] /\ InfoOk(p, b) /\ ~Known(p.nWatchedVble0)
  BY <1>5, <1>6
<1>8. PICK lit \in Literal : lit = nFlipped /\ lit \in p.lemma /\ p.nWatchedVble0 = lit[1]
                             /\ lit[1] \in Var
  BY <1>4, <1>7, InfoIs, Literals
<1>9. At(p.nWatchedVble1) < b /\ At(p.nWatchedVble1) \in Nat
  <2>1. At(p.nWatchedVble1) \in Nat
    BY InfoIs, TrailIs
  <2>2. ~(At(p.nWatchedVble1) > Depth)
    BY <1>4, <1>7 DEF Missed
  <2> QED
    BY <1>2, <2>1, <2>2, TrailLength
<1>10. /\ TypesOk' /\ TrailOk' /\ ReasonsOk' /\ StatesOk' /\ LevelsOk' /\ ImpliedOk'
       /\ ListsOk' /\ ReversedOk' /\ PendingOk' /\ FlipOk'
       /\ SameBelow(b) /\ Depth' = b /\ At(lit[1])' = b /\ Known(lit[1])'
       /\ arrBacktrackStack'[b].lemma = p.lemma
       /\ \A v \in Var : v # lit[1] => Known(v)' = Known(v) /\ At(v)' = At(v)
       /\ Slot' = Slot /\ \A k \in 1..Slot : ChoiceAt(k)' = ChoiceAt(k) /\ ChoiceAt(k) < b
       /\ \A m : AgreesBelow(m, Depth + 1)' => AgreesBelow(m, b) /\ m[lit[1]] = lit[2]
  <2>1. PICK j \in 1..Len(pUnitLemmaList) : j = 1 /\ p = pUnitLemmaList[j]
    BY <1>3, <1>5, <1>7
  <2>2. PICK was \in BOOLEAN : was = TRUE
    OBVIOUS
  <2>3. /\ InferLiterals(<<lit>>, was, <<p.lemma>>)
        /\ UNCHANGED <<problem, smurfVars, levelVars, cache, pUnitLemmaList, resultVars>>
    BY <1>1, <1>3, <1>7, <1>8, <2>2
  <2>4. IInv /\ pc \in {"flip", "unit"} /\ pc' = "unit" /\ was \in BOOLEAN /\ ~Known(lit[1])
    BY <1>1, <1>7, <1>8
  <2> HIDE DEF IInv
  <2> QED
    BY ONLY <1>2, <1>7, <1>8, <1>9, <2>1, <2>3, <2>4, b \in Nat, ListedInfers
<1>11. ConflictOk'
  <2>1. arrLemmaFlag' = {}
    BY <1>1 DEF ConflictOk
  <2> QED
    BY <1>1, <2>1 DEF ConflictOk
<1>12. Known(lit[1])' /\ FlippedAt' = b /\ nFlipped' = lit /\ pUnitLemmaList' = list
  <2>1. nFlipped' = lit /\ pUnitLemmaList' = list
    BY <1>1, <1>3, <1>8
  <2>2. FlippedAt' = b
    BY <1>10, <2>1 DEF FlippedAt
  <2> QED
    BY <1>10, <2>1, <2>2
<1>13. TrailOk' /\ SameBelow(b) /\ Depth \in Nat /\ b = Depth + 1
  BY <1>2, <1>10, TrailLength
<1>14. /\ \A v \in Var : /\ At(v) \in Nat /\ (Known(v) <=> At(v) <= Depth)
                         /\ v # lit[1] => Known(v)' = Known(v) /\ At(v)' = At(v)
       /\ \A v \in 0..NumVars : At(v)' \in Nat
  BY <1>10, TrailIs DEF TrailOk, At
<1>15. \A v \in Var : ~Known(v) => At(v)' >= b
  <2> SUFFICES ASSUME NEW v \in Var, ~Known(v) PROVE At(v)' >= b
    OBVIOUS
  <2>1. CASE v = lit[1]
    BY <1>10, <2>1
  <2>2. CASE v # lit[1]
    BY <1>13, <1>14, <2>2
  <2> QED
    BY <2>1, <2>2
<1>16. KeptOk(1)'
  <2>1. At(p.nWatchedVble1)' = At(p.nWatchedVble1)
    <3>1. p.nWatchedVble1 \in Var \/ p.nWatchedVble1 = 0
      BY InfoIs DEF Var
    <3> QED
      BY <1>9, <1>10, <3>1 DEF SameBelow
  <2>2. At(p.nWatchedVble1)' < b
    BY <1>9, <2>1
  <2>3. PICK one : one = 1
    OBVIOUS
  <2>4. b + one - 1 = b
    BY <2>3
  <2>5. list[one] = p
    BY <1>7, <2>3
  <2>6. KeptOk(one)'
    BY <1>8, <1>10, <1>12, <2>2, <2>4, <2>5 DEF KeptOk
  <2> QED
    BY <2>3, <2>6
<1>17. \A i \in 1..Len(list) : InfoOk(list[i], b)' /\ At(list[i].nWatchedVble0)' >= b
  <2> SUFFICES ASSUME NEW i \in 1..Len(list)
               PROVE  InfoOk(list[i], b)' /\ At(list[i].nWatchedVble0)' >= b
    OBVIOUS
  <2>1. PICK q \in LemmaInfo : q = list[i] /\ ~Known(q.nWatchedVble0) /\ InfoOk(q, b)
    BY <1>6
  <2>2. At(q.nWatchedVble0)' >= b
    BY <1>15, <2>1, InfoIs
  <2>3. InfoOk(q, b)'
    BY ONLY <1>2, <1>10, <2>1, TrailOk, b \in Nat, InfoKept
  <2> QED
    BY <2>1, <2>2, <2>3
<1>18. \A i, j \in 1..Len(list) : i # j /\ list[i].nWatchedVble0 = list[j].nWatchedVble0 =>
         At(list[i].nWatchedVble1)' >= b \/ At(list[j].nWatchedVble1)' >= b
  <2>1. \A q \in LemmaInfo : Missed(q) => At(q.nWatchedVble1)' >= b
    <3> SUFFICES ASSUME NEW q \in LemmaInfo, Missed(q) PROVE At(q.nWatchedVble1)' >= b
      OBVIOUS
    <3>1. PICK w \in 0..NumVars : w = q.nWatchedVble1
      BY InfoIs
    <3>2. At(w) > Depth /\ At(0) = 0
      BY <3>1, TrailIs DEF Missed
    <3>3. w \in Var
      BY <1>13, <3>2 DEF Var
    <3>4. ~Known(w)
      BY <1>13, <1>14, <3>2, <3>3
    <3> QED
      BY <1>15, <3>1, <3>3, <3>4
  <2> SUFFICES ASSUME NEW i \in 1..Len(list), NEW j \in 1..Len(list), i # j,
                      list[i].nWatchedVble0 = list[j].nWatchedVble0
               PROVE  At(list[i].nWatchedVble1)' >= b \/ At(list[j].nWatchedVble1)' >= b
    OBVIOUS
  <2>2. PairOk(list[i], list[j])
    BY <1>1, <1>3 DEF PendingOk
  <2>3. Missed(list[i]) \/ Missed(list[j])
    BY <1>1, <2>2 DEF PairOk
  <2> QED
    BY <1>6, <2>1, <2>3
<1>19. \A s \in 0..NumVars : \A i \in 1..Len(unitLemmas[s]) :
         At(unitLemmas[s][i].nWatchedVble0)' < b
  <2> SUFFICES ASSUME NEW s \in 0..NumVars, NEW i \in 1..Len(unitLemmas[s])
               PROVE  At(unitLemmas[s][i].nWatchedVble0)' < b
    OBVIOUS
  <2>1. PICK q \in LemmaInfo : q = unitLemmas[s][i] /\ Placed(q, s)
    BY ListEntryIs
  <2>2. Known(q.nWatchedVble0) /\ At(q.nWatchedVble0) \in 1..Depth /\ q.nWatchedVble0 \in Var
    BY <2>1, InUseAt, InfoIs DEF Placed
  <2>3. q.nWatchedVble0 # lit[1]
    BY <1>7, <1>8, <2>2
  <2>4. At(q.nWatchedVble0)' < b
    BY <1>13, <1>14, <2>2, <2>3
  <2>5. unitLemmas' = unitLemmas
    BY <1>1 DEF levelVars
  <2> QED
    BY <2>1, <2>4, <2>5
<1>20. UnitOk'
  <2>1. nFlipped' \in Literal /\ Known(nFlipped[1])'
    BY <1>12
  <2>2. nKept' \in 1..Len(pUnitLemmaList') /\ Depth' = FlippedAt' + nKept' - 1
    BY <1>1, <1>5, <1>10, <1>12
  <2>3. \A i \in 1..nKept' : KeptOk(i)'
    <3>1. \A i \in 1..1 : i = 1
      OBVIOUS
    <3> QED
      BY <1>1, <1>16, <3>1
  <2>4. \A k \in 1..Slot' : ChoiceAt(k)' < FlippedAt'
    BY <1>10, <1>12
  <2>5. unitLemmas' = unitLemmas
    BY <1>1 DEF levelVars
  <2> QED
    BY <1>12, <1>17, <1>18, <1>19, <2>1, <2>2, <2>3, <2>4, <2>5 DEF UnitOk
<1>21. FoundOk'
  <2>1. found' = found /\ ret' = ret /\ problem' = problem
    BY <1>1 DEF resultVars
  <2>2. \A m \in found : ~AgreesBelow(m, Depth + 1)'
    BY <1>4, <1>8, <1>10
  <2> QED
    BY <1>1, <2>1, <2>2 DEF FoundOk, Models
<1> QED
  BY <1>10, <1>11, <1>20, <1>21

(* What UnitOk says of the list of unit lemmas and of where the choice is. *)
UnitFacts(list, c) ==
  /\ c \in Nat /\ Depth \in Nat /\ c \in 1..Depth /\ nKept \in Nat /\ Len(list) \in Nat
  /\ nFlipped[1] \in Var /\ Known(nFlipped[1])
  /\ nKept \in 1..Len(list) /\ Depth = c + nKept - 1
  /\ \A i \in 1..nKept : /\ At(list[i].nWatchedVble0) = c + i - 1
                         /\ c + i - 1 \in 1..Depth
                         /\ arrBacktrackStack[c + i - 1].lemma = list[i].lemma
                         /\ At(list[i].nWatchedVble1) < c
  /\ \A i \in 1..Len(list) : /\ list[i] \in LemmaInfo /\ InfoOk(list[i], c)
                             /\ At(list[i].nWatchedVble0) >= c
  /\ \A i \in 1..Len(list) : Known(list[i].nWatchedVble0) =>
       \E k \in 1..nKept : list[k].nWatchedVble0 = list[i].nWatchedVble0
  /\ \A i, j \in 1..Len(list) : i # j /\ list[i].nWatchedVble0 = list[j].nWatchedVble0 =>
       At(list[i].nWatchedVble1) >= c \/ At(list[j].nWatchedVble1) >= c
  /\ \A k \in 1..Slot : ChoiceAt(k) < c
  /\ \A s \in 0..NumVars : \A i \in 1..Len(unitLemmas[s]) :
       At(unitLemmas[s][i].nWatchedVble0) < c

LEMMA UnitIs ==
  ASSUME IInv, pc = "unit", NEW list \in Seq(LemmaInfo), list = pUnitLemmaList,
         NEW c, c = FlippedAt
  PROVE  UnitFacts(list, c)
<1> USE DEF IInv
<1>1. /\ nFlipped \in Literal /\ Known(nFlipped[1])
      /\ nKept \in 1..Len(list) /\ Depth = c + nKept - 1
      /\ \A i \in 1..nKept : KeptOk(i)
      /\ \A i \in 1..Len(list) : InfoOk(list[i], c) /\ At(list[i].nWatchedVble0) >= c
      /\ \A i, j \in 1..Len(list) : i # j /\ list[i].nWatchedVble0 = list[j].nWatchedVble0 =>
           At(list[i].nWatchedVble1) >= c \/ At(list[j].nWatchedVble1) >= c
      /\ \A k \in 1..Slot : ChoiceAt(k) < c
      /\ \A s \in 0..NumVars : \A i \in 1..Len(unitLemmas[s]) :
           At(unitLemmas[s][i].nWatchedVble0) < c
  BY DEF UnitOk
<1>2. nFlipped[1] \in Var
  BY <1>1, Literals
<1>3. c \in 1..Depth /\ Depth \in Nat /\ c \in Nat
  <2>1. At(nFlipped[1]) \in 1..Depth /\ Depth \in Nat
    BY <1>1, <1>2, TrailIs
  <2> QED
    BY <2>1 DEF FlippedAt
<1>4. Len(list) \in Nat /\ nKept \in Nat
  BY <1>1, LenProperties
<1>5. \A i \in 1..nKept : /\ At(list[i].nWatchedVble0) = c + i - 1
                          /\ arrBacktrackStack[c + i - 1].lemma = list[i].lemma
                          /\ At(list[i].nWatchedVble1) < c
  BY <1>1 DEF KeptOk
<1>6. \A i \in 1..nKept : c + i - 1 \in 1..Depth
  BY <1>1, <1>3, <1>4
<1>7. \A i \in 1..Len(list) : list[i] \in LemmaInfo
  OBVIOUS
<1>8. ASSUME NEW i \in 1..Len(list), Known(list[i].nWatchedVble0)
      PROVE  \E k \in 1..nKept : list[k].nWatchedVble0 = list[i].nWatchedVble0
  <2>1. PICK v \in Var : v = list[i].nWatchedVble0
    BY <1>7, InfoIs
  <2>2. At(v) \in 1..Depth /\ arrBacktrackStack[At(v)].atom = v /\ At(v) >= c
    BY <1>1, <1>8, <2>1, TrailIs
  <2>3. PICK k \in 1..nKept : At(v) = c + k - 1
    <3>1. At(v) - c + 1 \in 1..nKept
      BY <1>1, <1>3, <1>4, <2>2
    <3> QED
      BY <1>3, <2>2, <3>1
  <2>4. k \in 1..Len(list)
    BY <1>1, <1>4
  <2>5. PICK u \in Var : u = list[k].nWatchedVble0
    BY <1>7, <2>4, InfoIs
  <2>6. At(u) = At(v)
    BY <1>5, <2>3, <2>5
  <2>7. u = v
    BY <2>2, <2>6, TrailIs
  <2> QED
    BY <2>1, <2>5, <2>7
<1> QED
  BY <1>1, <1>2, <1>3, <1>4, <1>5, <1>6, <1>7, <1>8 DEF UnitFacts

(* Each unit lemma infers an atom that is still unknown.                   *)
LEMMA NextIsUnknown ==
  ASSUME IInv, pc = "unit", nKept < Len(pUnitLemmaList), StillUnit(NextUnit)
  PROVE  ~Known(NextUnit.nWatchedVble0)
<1>1. PICK list \in Seq(LemmaInfo) : list = pUnitLemmaList
  BY DEF IInv, PendingOk
<1>2. PICK c : c = FlippedAt
  OBVIOUS
<1>3. UnitFacts(list, c)
  BY <1>1, <1>2, UnitIs
<1>4. /\ c \in Nat /\ nKept \in Nat /\ Len(list) \in Nat
      /\ \A i \in 1..nKept : At(list[i].nWatchedVble1) < c
      /\ \A i \in 1..Len(list) : list[i] \in LemmaInfo
      /\ \A i \in 1..Len(list) : Known(list[i].nWatchedVble0) =>
           \E k \in 1..nKept : list[k].nWatchedVble0 = list[i].nWatchedVble0
      /\ \A i, j \in 1..Len(list) : i # j /\ list[i].nWatchedVble0 = list[j].nWatchedVble0 =>
           At(list[i].nWatchedVble1) >= c \/ At(list[j].nWatchedVble1) >= c
  BY <1>3 DEF UnitFacts
<1>5. PICK n \in 1..Len(list) : n = nKept + 1 /\ list[n] = NextUnit
  BY <1>1, <1>4 DEF NextUnit
<1>6. At(list[n].nWatchedVble1) < c
  BY <1>2, <1>5 DEF StillUnit, FlippedAt, At
<1> SUFFICES ASSUME Known(list[n].nWatchedVble0) PROVE FALSE
  BY <1>5
<1>7. PICK k \in 1..nKept : list[k].nWatchedVble0 = list[n].nWatchedVble0
  BY <1>4
<1>8. k # n /\ k \in 1..Len(list)
  BY <1>4, <1>5
<1>9. At(list[k].nWatchedVble1) < c
  BY <1>4
<1>10. At(list[k].nWatchedVble1) \in Nat /\ At(list[n].nWatchedVble1) \in Nat
  BY <1>4, <1>8, InfoIs, TrailIs DEF IInv
<1> QED
  BY <1>4, <1>6, <1>7, <1>8, <1>9, <1>10

LEMMA UnitInfersKeeps ==
  ASSUME IInv, UnitInfers
  PROVE  IInv'
<1>1. PICK list \in Seq(LemmaInfo) : list = pUnitLemmaList
  BY DEF IInv, PendingOk
<1>2. PICK c \in Nat : c = FlippedAt
  <2>1. pc = "unit"
    BY DEF UnitInfers
  <2>2. FlippedAt \in Nat
    BY <1>1, <2>1, UnitIs DEF UnitFacts
  <2> QED
    BY <2>2
<1>3. PICK lit : lit = CHOOSE l \in NextUnit.lemma : l[1] = NextUnit.nWatchedVble0
  OBVIOUS
<1>4. /\ pc = "unit" /\ pc' = "unit" /\ nKept < Len(list) /\ StillUnit(NextUnit)
      /\ InferLiterals(<<lit>>, FALSE, <<NextUnit.lemma>>)
      /\ nKept' = nKept + 1
      /\ UNCHANGED <<problem, smurfVars, levelVars, cache, lemmaVars, pUnitLemmaList,
                     nFlipped, resultVars>>
  BY <1>1, <1>3 DEF UnitInfers
<1>5. UnitFacts(list, c)
  BY <1>1, <1>2, <1>4, UnitIs
<1> USE DEF UnitFacts
<1>6. PICK n \in 1..Len(list) : n = nKept + 1 /\ list[n] = NextUnit
  BY <1>1, <1>4, <1>5 DEF NextUnit
<1>7. PICK p \in LemmaInfo : /\ p = list[n] /\ p = NextUnit /\ InfoOk(p, c)
                             /\ p.nWatchedVble0 \in Var
  BY <1>5, <1>6, InfoIs
<1>8. ~Known(p.nWatchedVble0)
  BY <1>1, <1>4, <1>7, NextIsUnknown
<1>9. At(p.nWatchedVble1) < c
  BY <1>2, <1>4, <1>7 DEF StillUnit, FlippedAt, At
<1>10. lit \in p.lemma /\ lit[1] = p.nWatchedVble0 /\ lit \in Literal
  <2>1. PICK val \in Value : <<p.nWatchedVble0, val>> \in p.lemma
    BY <1>7 DEF InfoOk
  <2>2. \E l \in p.lemma : l[1] = p.nWatchedVble0
    BY <2>1
  <2>3. lit \in p.lemma /\ lit[1] = p.nWatchedVble0
    BY <1>3, <1>7, <2>2
  <2> QED
    BY <1>7, <2>3, InfoIs
<1>11. PICK b \in Nat : b = Depth + 1 /\ b <= b /\ c <= b /\ c < b /\ c <= c
  BY <1>5
<1>12. /\ TypesOk' /\ TrailOk' /\ ReasonsOk' /\ StatesOk' /\ LevelsOk' /\ ImpliedOk'
       /\ ListsOk' /\ ReversedOk' /\ PendingOk' /\ FlipOk'
       /\ SameBelow(b) /\ Depth' = b /\ At(lit[1])' = b /\ Known(lit[1])'
       /\ arrBacktrackStack'[b].lemma = p.lemma
       /\ \A v \in Var : v # lit[1] => Known(v)' = Known(v) /\ At(v)' = At(v)
       /\ Slot' = Slot /\ \A k \in 1..Slot : ChoiceAt(k)' = ChoiceAt(k) /\ ChoiceAt(k) < b
       /\ \A m : AgreesBelow(m, Depth + 1)' => AgreesBelow(m, b) /\ m[lit[1]] = lit[2]
  <2>1. PICK j \in 1..Len(pUnitLemmaList) : p = pUnitLemmaList[j]
    BY <1>1, <1>7
  <2>2. PICK was \in BOOLEAN : was = FALSE
    OBVIOUS
  <2>3. /\ InferLiterals(<<lit>>, was, <<p.lemma>>)
        /\ UNCHANGED <<problem, smurfVars, levelVars, cache, pUnitLemmaList, resultVars>>
    BY <1>4, <1>7, <2>2
  <2>4. pc \in {"flip", "unit"} /\ pc' = "unit" /\ was \in BOOLEAN /\ ~Known(lit[1])
    BY <1>4, <1>8, <1>10
  <2> QED
    BY ONLY IInv, <1>7, <1>9, <1>10, <1>11, <2>1, <2>3, <2>4, b \in Nat, c \in Nat, ListedInfers
<1> USE DEF IInv
<1>13. nFlipped' = nFlipped /\ pUnitLemmaList' = list /\ FlippedAt' = c /\ Known(nFlipped[1])'
  <2>1. nFlipped' = nFlipped /\ pUnitLemmaList' = list
    BY <1>1, <1>4
  <2>2. nFlipped[1] # lit[1]
    BY <1>5, <1>8, <1>10
  <2>3. FlippedAt' = c
    BY <1>2, <1>5, <1>12, <2>1, <2>2 DEF FlippedAt
  <2>4. PICK v \in Var : v = nFlipped[1]
    BY <1>5
  <2>5. Known(v)'
    BY <1>5, <1>12, <2>2, <2>4
  <2> QED
    BY <2>1, <2>3, <2>4, <2>5
<1>14. \A w \in 0..NumVars : At(w) < c => At(w)' = At(w) /\ At(w)' < c
  <2> SUFFICES ASSUME NEW w \in 0..NumVars, At(w) < c PROVE At(w)' = At(w)
    BY <1>12
  <2>1. w \in Var \/ w = 0
    BY DEF Var
  <2>2. At(w) < b
    <3>1. At(w) \in Nat
      BY TrailIs
    <3> QED
      BY ONLY <1>11, <3>1, At(w) < c, c \in Nat, b \in Nat
  <2> QED
    BY <1>12, <2>1, <2>2 DEF SameBelow
<1>15. \A v \in 0..NumVars : At(v) >= c => At(v)' >= c
  <2> SUFFICES ASSUME NEW v \in 0..NumVars, At(v) >= c PROVE At(v)' >= c
    OBVIOUS
  <2>1. v = 0 => At(v) = 0
    BY TrailIs
  <2>2. v \in Var
    BY <1>5, <2>1 DEF Var
  <2> QED
    BY <1>10, <1>11, <1>12, <2>2
<1>16. ASSUME NEW i \in 1..nKept PROVE KeptOk(i)'
  <2>1. i \in 1..Len(list)
    BY <1>4, <1>5
  <2>2. PICK q \in LemmaInfo : q = list[i]
    BY <1>5, <2>1
  <2>3. PICK k \in 1..Depth : k = c + i - 1
    BY <1>5
  <2>4. At(q.nWatchedVble0) = k /\ arrBacktrackStack[k].lemma = q.lemma /\ At(q.nWatchedVble1) < c
    BY <1>5, <2>2, <2>3
  <2>5. k < b /\ k \in Nat
    BY ONLY <1>5, <1>11, k \in 1..Depth
  <2>6. arrBacktrackStack'[k] = arrBacktrackStack[k] /\ At(q.nWatchedVble0)' = k
    BY <1>12, <2>2, <2>4, <2>5, InfoIs DEF SameBelow
  <2>7. At(q.nWatchedVble1)' < c
    BY <1>14, <2>4, InfoIs
  <2> QED
    BY <1>13, <2>2, <2>3, <2>4, <2>6, <2>7 DEF KeptOk
<1>17. KeptOk(n)'
  <2>1. c + n - 1 = b
    BY <1>5, <1>6, <1>11
  <2>2. At(p.nWatchedVble1)' < c
    BY <1>9, <1>14, InfoIs
  <2>3. At(p.nWatchedVble0)' = b
    BY <1>10, <1>12
  <2> QED
    BY <1>7, <1>12, <1>13, <2>1, <2>2, <2>3 DEF KeptOk
<1>18. \A i \in 1..Len(list) : InfoOk(list[i], c)' /\ At(list[i].nWatchedVble0)' >= c
  <2> SUFFICES ASSUME NEW i \in 1..Len(list)
               PROVE  InfoOk(list[i], c)' /\ At(list[i].nWatchedVble0)' >= c
    OBVIOUS
  <2>1. PICK q \in LemmaInfo : q = list[i] /\ InfoOk(q, c) /\ At(q.nWatchedVble0) >= c
    BY <1>5
  <2>2. At(q.nWatchedVble0)' >= c
    <3>1. q.nWatchedVble0 \in 0..NumVars
      BY InfoIs, Vars
    <3> QED
      BY <1>15, <2>1, <3>1
  <2>3. InfoOk(q, c)'
    BY ONLY <1>11, <1>12, <2>1, TrailOk, b \in Nat, c \in Nat, InfoKept
  <2> QED
    BY <2>1, <2>2, <2>3
<1>19. \A i, j \in 1..Len(list) : i # j /\ list[i].nWatchedVble0 = list[j].nWatchedVble0 =>
         At(list[i].nWatchedVble1)' >= c \/ At(list[j].nWatchedVble1)' >= c
  <2>1. \A i \in 1..Len(list) : list[i].nWatchedVble1 \in 0..NumVars
    BY <1>5, InfoIs
  <2> QED
    BY <1>5, <1>15, <2>1
<1>20. \A s \in 0..NumVars : \A i \in 1..Len(unitLemmas[s]) :
         At(unitLemmas[s][i].nWatchedVble0)' < c
  <2> SUFFICES ASSUME NEW s \in 0..NumVars, NEW i \in 1..Len(unitLemmas[s])
               PROVE  At(unitLemmas[s][i].nWatchedVble0)' < c
    OBVIOUS
  <2>1. PICK q \in LemmaInfo : q = unitLemmas[s][i]
    BY ListEntryIs
  <2>2. At(q.nWatchedVble0) < c /\ q.nWatchedVble0 \in 0..NumVars
    BY <1>5, <2>1, InfoIs, Vars
  <2>3. At(q.nWatchedVble0)' < c
    BY <1>14, <2>2
  <2>4. unitLemmas' = unitLemmas
    BY <1>4 DEF levelVars
  <2> QED
    BY <2>1, <2>3, <2>4
<1>21. UnitOk'
  <2>1. nFlipped' \in Literal
    BY <1>4 DEF UnitOk
  <2>2. nKept' \in 1..Len(list) /\ Depth' = c + nKept' - 1
    <3>1. nKept' = nKept + 1 /\ n = nKept + 1 /\ n \in 1..Len(list)
      BY <1>4, <1>6
    <3>2. c \in Nat /\ Depth \in Nat /\ nKept \in Nat /\ Depth = c + nKept - 1
      BY <1>5
    <3>3. Depth' = Depth + 1
      BY <1>11, <1>12
    <3> QED
      BY ONLY <3>1, <3>2, <3>3
  <2>3. \A i \in 1..nKept' : KeptOk(i)'
    <3>1. \A i \in 1..nKept' : i \in 1..nKept \/ i = n
      BY <1>4, <1>5, <1>6
    <3> QED
      BY <1>16, <1>17, <3>1
  <2>4. \A k \in 1..Slot' : ChoiceAt(k)' < c
    BY <1>5, <1>12
  <2>5. unitLemmas' = unitLemmas
    BY <1>4 DEF levelVars
  <2> QED
    BY <1>13, <1>18, <1>19, <1>20, <2>1, <2>2, <2>3, <2>4, <2>5 DEF UnitOk
<1>22. FoundOk'
  <2>1. found' = found /\ ret' = ret /\ problem' = problem
    BY <1>4 DEF resultVars
  <2>2. \A m \in found : ~AgreesBelow(m, b)
    BY <1>4, <1>11 DEF FoundOk
  <2>3. \A m \in found : ~AgreesBelow(m, Depth + 1)'
    BY <1>12, <2>2
  <2> QED
    BY <1>4, <2>1, <2>3 DEF FoundOk, Models
<1>23. ConflictOk'
  BY <1>4 DEF ConflictOk, lemmaVars
<1> QED
  BY <1>12, <1>21, <1>22, <1>23

LEMMA RemoveAtIs ==
  ASSUME NEW D, NEW s \in Seq(D), NEW k \in 1..Len(s)
  PROVE  /\ RemoveAt(s, k) \in Seq(D) /\ Len(RemoveAt(s, k)) = Len(s) - 1
         /\ \A i \in 1..Len(s) - 1 : RemoveAt(s, k)[i] = IF i < k THEN s[i] ELSE s[i + 1]
<1>1. Len(s) \in Nat /\ k \in Nat
  BY LenProperties
<1>2. PICK a : a = SubSeq(s, 1, k - 1)
  OBVIOUS
<1>3. PICK b : b = SubSeq(s, k + 1, Len(s))
  OBVIOUS
<1>4. a \in Seq(D) /\ Len(a) = k - 1 /\ \A i \in 1..k - 1 : a[i] = s[i]
  BY <1>1, <1>2
<1>5. b \in Seq(D) /\ Len(b) = Len(s) - k /\ \A i \in 1..Len(s) - k : b[i] = s[k + i]
  BY <1>1, <1>3
<1>6. RemoveAt(s, k) = a \o b
  BY <1>2, <1>3 DEF RemoveAt
<1>7. /\ a \o b \in Seq(D) /\ Len(a \o b) = Len(a) + Len(b)
      /\ \A i \in 1..Len(a) + Len(b) : (a \o b)[i] = IF i <= Len(a) THEN a[i] ELSE b[i - Len(a)]
  BY <1>4, <1>5, ConcatProperties
<1>8. Len(a \o b) = Len(s) - 1
  BY <1>1, <1>4, <1>5, <1>7
<1>9. ASSUME NEW i \in 1..Len(s) - 1 PROVE (a \o b)[i] = IF i < k THEN s[i] ELSE s[i + 1]
  <2>1. CASE i < k
    BY <1>1, <1>4, <1>5, <1>7, <2>1
  <2>2. CASE ~(i < k)
    <3>1. i - (k - 1) \in 1..Len(s) - k /\ k + (i - (k - 1)) = i + 1 /\ ~(i <= k - 1)
      BY <1>1, <2>2
    <3>2. (a \o b)[i] = b[i - (k - 1)]
      BY <1>1, <1>4, <1>5, <1>7, <3>1
    <3>3. b[i - (k - 1)] = s[i + 1]
      BY <1>5, <3>1
    <3> QED
      BY <2>2, <3>2, <3>3
  <2> QED
    BY <2>1, <2>2
<1> QED
  BY <1>6, <1>7, <1>8, <1>9

(* A step that changes nothing but which lemmas are listed where.          *)
LEMMA SameTrailKeeps ==
  ASSUME IInv, pc # "pop", pc' # "pop",
         UNCHANGED <<problem, smurfVars, trailVars, arrChoicePointStack, resultVars>>
  PROVE  /\ TrailOk' /\ ReasonsOk' /\ StatesOk' /\ LevelsOk' /\ Slot' = Slot
         /\ \A v \in 0..NumVars : At(v)' = At(v)
         /\ \A v \in Var : Known(v)' = Known(v)
         /\ \A k \in 1..Slot : ChoiceAt(k)' = ChoiceAt(k)
         /\ Depth' = Depth /\ \A p : InUse(p) => InUse(p)'
<1> USE DEF IInv
<1>1. found' = found
  BY DEF resultVars
<1>2. TrailOk' /\ LevelsOk' /\ ReasonsOk' /\ StatesOk' /\ Depth' = Depth /\ Grows
  BY <1>1, TrailPartsKept
<1>3. Slot' = Slot /\ \A k \in 1..Slot : ChoiceAt(k)' = ChoiceAt(k)
  BY <1>2, LevelsGrow
<1>4. arrSolution' = arrSolution /\ arrBacktrackStack' = arrBacktrackStack
      /\ arrBacktrackStackIndex' = arrBacktrackStackIndex
  BY DEF trailVars
<1>5. \A v : At(v)' = At(v) /\ Known(v)' = Known(v)
  BY <1>4 DEF At, Known
<1>6. \A p : InUse(p) => InUse(p)'
  BY <1>4, <1>5 DEF InUse, InfoOk, At, Known, Other, IsFalse
<1> QED
  BY <1>2, <1>3, <1>5, <1>6

LEMMA UnitToCacheKeeps ==
  ASSUME IInv, UnitToCache
  PROVE  IInv'
<1>1. PICK list \in Seq(LemmaInfo) : list = pUnitLemmaList
  BY DEF IInv, PendingOk
<1>2. /\ pc = "unit" /\ pc' = "unit" /\ nKept < Len(list)
      /\ pUnitLemmaList' = RemoveAt(list, nKept + 1)
      /\ cache' = cache \cup {NextUnit.lemma}
      /\ UNCHANGED <<problem, smurfVars, trailVars, levelVars, lemmaVars, nFlipped, nKept,
                     resultVars>>
  BY <1>1 DEF UnitToCache, RestOfList
<1>3. PICK c : c = FlippedAt
  OBVIOUS
<1>4. UnitFacts(list, c)
  BY <1>1, <1>2, <1>3, UnitIs
<1> USE DEF UnitFacts
<1>5. PICK n \in 1..Len(list) : n = nKept + 1 /\ list[n] = NextUnit
  BY <1>1, <1>2, <1>4 DEF NextUnit
<1>6. PICK rest \in Seq(LemmaInfo) :
        /\ rest = pUnitLemmaList' /\ Len(rest) = Len(list) - 1
        /\ \A i \in 1..Len(list) - 1 : rest[i] = IF i < n THEN list[i] ELSE list[i + 1]
  <2>1. PICK rest : rest = RemoveAt(list, n)
    OBVIOUS
  <2>2. /\ RemoveAt(list, n) \in Seq(LemmaInfo) /\ Len(RemoveAt(list, n)) = Len(list) - 1
        /\ \A i \in 1..Len(list) - 1 :
             RemoveAt(list, n)[i] = IF i < n THEN list[i] ELSE list[i + 1]
    BY ONLY list \in Seq(LemmaInfo), n \in 1..Len(list), RemoveAtIs
  <2>3. rest = pUnitLemmaList'
    BY <1>2, <1>5, <2>1
  <2> QED
    BY ONLY <2>1, <2>2, <2>3
<1>7. PICK from \in [1..Len(rest) -> 1..Len(list)] :
        /\ \A i \in 1..Len(rest) : rest[i] = list[from[i]]
        /\ \A i, j \in 1..Len(rest) : i # j => from[i] # from[j]
  <2>1. PICK from : from = [i \in 1..Len(rest) |-> IF i < n THEN i ELSE i + 1]
    OBVIOUS
  <2>2. \A i \in 1..Len(rest) : /\ from[i] = IF i < n THEN i ELSE i + 1
                                /\ from[i] \in 1..Len(list)
    BY <1>4, <1>6, <2>1
  <2>3. from \in [1..Len(rest) -> 1..Len(list)]
    BY <2>1, <2>2
  <2>4. \A i \in 1..Len(rest) : rest[i] = list[from[i]]
    BY <1>6, <2>2
  <2>5. \A i, j \in 1..Len(rest) : i # j => from[i] # from[j]
    BY <1>4, <1>6, <2>2
  <2> QED
    BY <2>3, <2>4, <2>5
<1>8. \A i \in 1..nKept : i \in 1..Len(rest) /\ i \in 1..Len(list) /\ rest[i] = list[i]
  <2> SUFFICES ASSUME NEW i \in 1..nKept
               PROVE  i \in 1..Len(rest) /\ i \in 1..Len(list) /\ rest[i] = list[i]
    OBVIOUS
  <2>1. nKept \in Nat /\ Len(list) \in Nat /\ nKept < Len(list)
    BY <1>2, <1>4
  <2>2. i \in 1..Len(list) - 1 /\ i \in 1..Len(list) /\ i < n
    BY <1>5, <2>1
  <2> QED
    BY <1>6, <2>2
<1> USE DEF IInv
<1>9. /\ TrailOk' /\ ReasonsOk' /\ StatesOk' /\ LevelsOk' /\ Slot' = Slot
      /\ \A v \in 0..NumVars : At(v)' = At(v)
      /\ \A v \in Var : Known(v)' = Known(v)
      /\ \A k \in 1..Slot : ChoiceAt(k)' = ChoiceAt(k)
      /\ Depth' = Depth /\ \A p : InUse(p) => InUse(p)'
  BY <1>2, SameTrailKeeps DEF levelVars
<1>10. /\ found' = found /\ ret' = ret /\ problem' = problem /\ unitLemmas' = unitLemmas
       /\ arrBacktrackStack' = arrBacktrackStack /\ arrSolution' = arrSolution
       /\ nFlipped' = nFlipped /\ nKept' = nKept
  BY <1>2 DEF resultVars, trailVars, levelVars
<1>11. PICK p \in LemmaInfo : p = NextUnit /\ p = list[n] /\ p.lemma \in Lemma
  BY <1>4, <1>5, InfoIs
<1>12. TypesOk'
  BY <1>2, <1>11 DEF TypesOk, smurfVars
<1>13. ImpliedOk'
  <2>1. \A i \in 1..Len(list) : Implied(list[i].lemma)
    BY <1>1 DEF ImpliedOk
  <2>2. \A i \in 1..Len(rest) : Implied(rest[i].lemma)
    BY <1>7, <2>1
  <2>3. \A L \in cache' : Implied(L)
    BY <1>2, <1>11, <2>1 DEF ImpliedOk
  <2>4. \A i \in 1..Depth' : arrBacktrackStack'[i].lemma # NO_LEMMA =>
                               Implied(arrBacktrackStack'[i].lemma)
    BY <1>9, <1>10 DEF ImpliedOk
  <2>5. \A s \in 0..NumVars : \A i \in 1..Len(unitLemmas'[s]) : Implied(unitLemmas'[s][i].lemma)
    BY <1>10 DEF ImpliedOk
  <2> QED
    BY <1>6, <1>10, <2>2, <2>3, <2>4, <2>5, ImpliedParts
<1>14. ListsOk'
  <2>1. Grows /\ pc' # "pop"
    <3>1. SameBelow(Depth + 1)
      BY <1>2, SameTrail
    <3> QED
      BY <1>2, <1>4, <1>9, <1>10, <3>1 DEF Grows, levelVars
  <2> QED
    BY <1>10, <2>1, ListsGrow
<1>15. ReversedOk'
  <2> SUFFICES ASSUME NEW i \in 1..Depth, arrBacktrackStack[i].bWasChoicePoint
               PROVE  InLists(arrBacktrackStack[i], unitLemmas, rest)
    BY <1>6, <1>9, <1>10 DEF ReversedOk
  <2>1. PICK e \in Entry : e = arrBacktrackStack[i] /\ e.atom \in Var /\ At(e.atom) = i /\ Known(e.atom)
    BY TrailIs
  <2>2. InLists(e, unitLemmas, list)
    BY <1>1, <2>1 DEF ReversedOk
  <2>3. ASSUME NEW j \in 1..Len(list), Made(list[j], e)
        PROVE  \E k \in 1..Len(rest) : Made(rest[k], e)
    <3>1. PICK k \in 1..nKept : list[k].nWatchedVble0 = e.atom
      BY <1>4, <2>1, <2>3 DEF Made
    <3>2. At(list[k].nWatchedVble0) = c + k - 1 /\ arrBacktrackStack[c + k - 1].lemma = list[k].lemma
      BY <1>4
    <3>3. c + k - 1 = i
      BY <2>1, <3>1, <3>2
    <3>4. Made(list[k], e)
      BY <2>1, <3>1, <3>2, <3>3 DEF Made
    <3> QED
      BY <1>8, <3>4
  <2>4. InLists(e, unitLemmas, rest)
    BY <2>2, <2>3 DEF InLists
  <2> QED
    BY <2>1, <2>4
<1>16. ConflictOk'
  BY <1>2 DEF ConflictOk, lemmaVars
<1>17. PendingOk' /\ FlipOk'
  BY <1>2, <1>6 DEF PendingOk, FlipOk
<1>18. FlippedAt' = c /\ Known(nFlipped[1])'
  BY <1>3, <1>4, <1>9, <1>10, Vars DEF FlippedAt
<1>19. \A q \in LemmaInfo : /\ At(q.nWatchedVble0)' = At(q.nWatchedVble0)
                            /\ At(q.nWatchedVble1)' = At(q.nWatchedVble1)
                            /\ InfoOk(q, c) => InfoOk(q, c)'
  <2> SUFFICES ASSUME NEW q \in LemmaInfo
               PROVE  /\ At(q.nWatchedVble0)' = At(q.nWatchedVble0)
                      /\ At(q.nWatchedVble1)' = At(q.nWatchedVble1)
                      /\ InfoOk(q, c) => InfoOk(q, c)'
    OBVIOUS
  <2>1. /\ At(q.nWatchedVble0)' = At(q.nWatchedVble0)
        /\ At(q.nWatchedVble1)' = At(q.nWatchedVble1)
    BY <1>9, InfoIs, Vars
  <2>2. \A l \in Literal : At(l[1])' = At(l[1]) /\ (IsFalse(l) => IsFalse(l)')
    BY <1>9, <1>10, Literals, Vars DEF IsFalse
  <2> QED
    BY <2>1, <2>2 DEF InfoOk, Other
<1>20. UnitOk'
  <2>1. nFlipped' \in Literal
    BY <1>2 DEF UnitOk
  <2>2. nKept' \in 1..Len(rest) /\ Depth' = c + nKept' - 1
    BY <1>2, <1>4, <1>6, <1>9, <1>10
  <2>3. \A i \in 1..nKept' : KeptOk(i)'
    <3> SUFFICES ASSUME NEW i \in 1..nKept PROVE KeptOk(i)'
      BY <1>10
    <3>1. PICK q \in LemmaInfo : q = list[i] /\ q = rest[i]
      BY <1>4, <1>8
    <3>2. /\ At(q.nWatchedVble0) = c + i - 1
          /\ arrBacktrackStack[c + i - 1].lemma = q.lemma
          /\ At(q.nWatchedVble1) < c
      BY <1>4, <3>1
    <3>3. /\ At(q.nWatchedVble0)' = c + i - 1
          /\ arrBacktrackStack'[c + i - 1].lemma = q.lemma
          /\ At(q.nWatchedVble1)' < c
      BY <1>10, <1>19, <3>2
    <3> QED
      BY <1>6, <1>18, <3>1, <3>3 DEF KeptOk
  <2>4. \A i \in 1..Len(rest) : InfoOk(rest[i], c)' /\ At(rest[i].nWatchedVble0)' >= c
    <3> SUFFICES ASSUME NEW i \in 1..Len(rest)
                 PROVE  InfoOk(rest[i], c)' /\ At(rest[i].nWatchedVble0)' >= c
      OBVIOUS
    <3>1. PICK j \in 1..Len(list) : rest[i] = list[j]
      BY <1>7
    <3>2. PICK q \in LemmaInfo : q = rest[i] /\ InfoOk(q, c) /\ At(q.nWatchedVble0) >= c
      BY <1>4, <3>1
    <3> QED
      BY <1>19, <3>2
  <2>5. \A i, j \in 1..Len(rest) : i # j /\ rest[i].nWatchedVble0 = rest[j].nWatchedVble0 =>
          At(rest[i].nWatchedVble1)' >= c \/ At(rest[j].nWatchedVble1)' >= c
    <3> SUFFICES ASSUME NEW i \in 1..Len(rest), NEW j \in 1..Len(rest), i # j,
                        rest[i].nWatchedVble0 = rest[j].nWatchedVble0
                 PROVE  At(rest[i].nWatchedVble1)' >= c \/ At(rest[j].nWatchedVble1)' >= c
      OBVIOUS
    <3>1. PICK a, b \in 1..Len(list) : rest[i] = list[a] /\ rest[j] = list[b] /\ a # b
      BY <1>7
    <3>2. At(list[a].nWatchedVble1) >= c \/ At(list[b].nWatchedVble1) >= c
      BY <1>4, <3>1
    <3>3. list[a] \in LemmaInfo /\ list[b] \in LemmaInfo
      BY <1>4
    <3> QED
      BY <1>19, <3>1, <3>2, <3>3
  <2>6. \A k \in 1..Slot' : ChoiceAt(k)' < c
    BY <1>4, <1>9
  <2>7. \A s \in 0..NumVars : \A i \in 1..Len(unitLemmas[s]) :
          At(unitLemmas[s][i].nWatchedVble0)' < c
    <3> SUFFICES ASSUME NEW s \in 0..NumVars, NEW i \in 1..Len(unitLemmas[s])
                 PROVE  At(unitLemmas[s][i].nWatchedVble0)' < c
      OBVIOUS
    <3>1. PICK q \in LemmaInfo : q = unitLemmas[s][i]
      BY ListEntryIs
    <3>2. At(q.nWatchedVble0)' < c
      BY <1>4, <1>19, <3>1
    <3> QED
      BY <1>10, <3>1, <3>2
  <2> QED
    BY <1>6, <1>10, <1>18, <2>1, <2>2, <2>3, <2>4, <2>5, <2>6, <2>7 DEF UnitOk
<1>21. FoundOk'
  <2>1. \A m : AgreesBelow(m, Depth + 1)' => AgreesBelow(m, Depth + 1)
    BY <1>9, <1>10, Vars DEF AgreesBelow
  <2> QED
    BY <1>2, <1>10, <2>1 DEF FoundOk, Models
<1> QED
  BY <1>9, <1>12, <1>13, <1>14, <1>15, <1>16, <1>17, <1>20, <1>21

LEMMA EndBackTrackKeeps ==
  ASSUME IInv, EndBackTrack
  PROVE  IInv'
<1>1. PICK list \in Seq(LemmaInfo) : list = pUnitLemmaList
  BY DEF IInv, PendingOk
<1>2. /\ pc = "unit" /\ pc' = "deduce" /\ nKept = Len(list)
      /\ unitLemmas' = [unitLemmas EXCEPT ![Slot] = unitLemmas[Slot] \o list]
      /\ pUnitLemmaList' = <<>>
      /\ arrTempLemma' = {} /\ arrUnsetLemmaFlagVars' = {}
      /\ nNumForcedInfsBelowCurrentCP' = 0
      /\ UNCHANGED <<problem, smurfVars, trailVars, arrChoicePointStack, cache,
                     arrLemmaFlag, resultVars>>
  BY <1>1 DEF EndBackTrack, Joined
<1>3. PICK c : c = FlippedAt
  OBVIOUS
<1>4. UnitFacts(list, c)
  <2>1. pc = "unit"
    BY <1>2
  <2> QED
    BY <1>1, <1>3, <2>1, UnitIs
<1> USE DEF UnitFacts
<1> USE DEF IInv
<1>5. Slot \in Nat /\ Slot \in 0..NumVars
  BY SlotBounded
<1>6. PICK n \in 0..NumVars : n = Slot
  BY <1>5
<1>7. PICK unit \in Seq(LemmaInfo) : unit = unitLemmas[n]
  BY DEF ListsOk
<1>8. PICK new \in Seq(LemmaInfo) :
        /\ new = unit \o list
        /\ \A i \in 1..Len(unit) : i \in 1..Len(new) /\ new[i] = unit[i]
        /\ \A j \in 1..Len(list) : Len(unit) + j \in 1..Len(new) /\ new[Len(unit) + j] = list[j]
        /\ \A i \in 1..Len(new) : \/ i \in 1..Len(unit)
                                  \/ \E j \in 1..Len(list) : i = Len(unit) + j
  <2>1. PICK new : new = unit \o list
    OBVIOUS
  <2>2. /\ new \in Seq(LemmaInfo)
        /\ \A i \in 1..Len(unit) : i \in 1..Len(new) /\ new[i] = unit[i]
        /\ \A j \in 1..Len(list) : Len(unit) + j \in 1..Len(new) /\ new[Len(unit) + j] = list[j]
        /\ \A i \in 1..Len(new) : \/ i \in 1..Len(unit)
                                  \/ \E j \in 1..Len(list) : i = Len(unit) + j
    BY ONLY <2>1, ConcatIs, unit \in Seq(LemmaInfo), list \in Seq(LemmaInfo),
            new \in {unit \o list}
  <2> QED
    BY ONLY <2>1, <2>2
<1>9. /\ unitLemmas' \in [0..NumVars -> Seq(LemmaInfo)] /\ unitLemmas'[n] = new
      /\ \A s \in 0..NumVars : s # n => unitLemmas'[s] = unitLemmas[s]
  BY <1>2, <1>6, <1>7, <1>8 DEF ListsOk
<1>10. /\ TrailOk' /\ ReasonsOk' /\ StatesOk' /\ LevelsOk' /\ Slot' = Slot
       /\ \A v \in 0..NumVars : At(v)' = At(v)
       /\ \A v \in Var : Known(v)' = Known(v)
       /\ \A k \in 1..Slot : ChoiceAt(k)' = ChoiceAt(k)
       /\ Depth' = Depth /\ \A p : InUse(p) => InUse(p)'
  BY <1>2, SameTrailKeeps
<1>11. /\ found' = found /\ ret' = ret /\ problem' = problem /\ cache' = cache
       /\ arrBacktrackStack' = arrBacktrackStack /\ arrSolution' = arrSolution
  BY <1>2 DEF resultVars, trailVars
<1>12. TypesOk'
  BY <1>2 DEF TypesOk, smurfVars
<1>13. ImpliedOk'
  <2>1. \A j \in 1..Len(list) : Implied(list[j].lemma)
    BY <1>1 DEF ImpliedOk
  <2>2. \A i \in 1..Len(unit) : Implied(unit[i].lemma)
    BY <1>7 DEF ImpliedOk
  <2>3. \A i \in 1..Len(new) : Implied(new[i].lemma)
    BY <1>8, <2>1, <2>2
  <2>4. \A s \in 0..NumVars : \A i \in 1..Len(unitLemmas'[s]) : Implied(unitLemmas'[s][i].lemma)
    BY <1>9, <2>3 DEF ImpliedOk
  <2>5. \A i \in 1..Depth' : arrBacktrackStack'[i].lemma # NO_LEMMA =>
                               Implied(arrBacktrackStack'[i].lemma)
    BY <1>10, <1>11 DEF ImpliedOk
  <2>6. \A L \in cache' : Implied(L)
    BY <1>11 DEF ImpliedOk
  <2>7. \A i \in 1..Len(pUnitLemmaList') : Implied(pUnitLemmaList'[i].lemma)
    BY <1>2
  <2> QED
    BY <1>11, <2>4, <2>5, <2>6, <2>7, ImpliedParts
<1>14. ASSUME NEW j \in 1..Len(list)
       PROVE  Placed(list[j], n)' /\ At(list[j].nWatchedVble0) = c + j - 1
  <2>1. PICK p \in LemmaInfo : p = list[j] /\ InfoOk(p, c)
    BY <1>4
  <2>2. PICK v \in Var : v = p.nWatchedVble0
    BY InfoIs
  <2>3. /\ At(v) = c + j - 1 /\ c + j - 1 \in 1..Depth
        /\ arrBacktrackStack[c + j - 1].lemma = p.lemma
        /\ At(p.nWatchedVble1) < c
    BY <1>2, <1>4, <2>1, <2>2
  <2>4. Known(v)
    BY <2>3, TrailIs
  <2>5. InfoOk(p, At(v))
    BY <2>1, <2>3 DEF InfoOk
  <2>6. InUse(p)
    BY <2>2, <2>3, <2>4, <2>5 DEF InUse
  <2>7. InUse(p)' /\ At(v)' = At(v)
    BY <1>10, <2>6, Vars
  <2>8. n > 0 => ChoiceAt(n)' < At(v)'
    <3>1. n > 0 => n \in 1..Slot
      BY <1>5, <1>6
    <3>2. n > 0 => ChoiceAt(n)' < c /\ ChoiceAt(n)' \in Nat
      BY <1>4, <1>10, <3>1, LevelIs
    <3> QED
      BY <1>4, <2>3, <2>7, <3>2
  <2>9. ~(n < Slot')
    BY <1>5, <1>6, <1>10
  <2>10. Placed(p, n)'
    BY <2>2, <2>7, <2>8, <2>9 DEF Placed
  <2> QED
    BY <2>1, <2>2, <2>3, <2>10
<1>15. PICK b \in Nat : b = Depth + 1
  BY <1>4
<1>16. SameBelow(b) /\ Grows
  <2>1. \A a : SameBelow(a)
    BY <1>2, SameTrail
  <2> QED
    BY <1>2, <1>4, <1>10, <1>11, <2>1 DEF Grows
<1>17. ASSUME NEW s \in 0..NumVars, NEW i \in 1..Len(unitLemmas[s])
       PROVE  /\ unitLemmas[s][i] \in LemmaInfo /\ Placed(unitLemmas[s][i], s)
              /\ At(unitLemmas[s][i].nWatchedVble0) < b
  <2>1. PICK p \in LemmaInfo : p = unitLemmas[s][i] /\ Placed(p, s)
    BY ListEntryIs
  <2>2. At(p.nWatchedVble0) \in 1..Depth
    BY <2>1, InUseAt DEF Placed
  <2>3. At(p.nWatchedVble0) < b
    BY <1>4, <1>15, <2>2
  <2> QED
    BY <2>1, <2>3
<1>18. ASSUME NEW i \in 1..Len(unit) PROVE Placed(unit[i], n)'
  <2>1. PICK p \in LemmaInfo : p = unit[i] /\ Placed(p, n) /\ At(p.nWatchedVble0) < b
    BY <1>7, <1>17
  <2>2. n \in Nat /\ ~(n < Slot') /\ (n > 0 => n \in 1..Slot)
    BY <1>5, <1>6, <1>10
  <2>3. n > 0 => ChoiceAt(n)' = ChoiceAt(n)
    BY <1>10, <2>2
  <2>4. Placed(p, n)'
    BY <1>10, <1>16, <2>1, <2>2, <2>3, PlacedKept
  <2> QED
    BY <2>1, <2>4
<1>19. Distinct(new)
  <2>1. Distinct(unit)
    BY <1>7 DEF ListsOk, ListOk
  <2>2. \A i \in 1..Len(unit) : At(unit[i].nWatchedVble0) < c
    BY <1>4, <1>7
  <2>3. \A i \in 1..Len(unit), j \in 1..Len(list) :
          unit[i].nWatchedVble0 # list[j].nWatchedVble0
    <3> SUFFICES ASSUME NEW i \in 1..Len(unit), NEW j \in 1..Len(list),
                        unit[i].nWatchedVble0 = list[j].nWatchedVble0
                 PROVE  FALSE
      OBVIOUS
    <3>1. At(list[j].nWatchedVble0) < c /\ At(list[j].nWatchedVble0) = c + j - 1
      BY <1>14, <2>2
    <3> QED
      BY <1>4, <3>1
  <2>4. \A i, j \in 1..Len(list) : list[i].nWatchedVble0 = list[j].nWatchedVble0 => i = j
    <3> SUFFICES ASSUME NEW i \in 1..Len(list), NEW j \in 1..Len(list),
                        list[i].nWatchedVble0 = list[j].nWatchedVble0
                 PROVE  i = j
      OBVIOUS
    <3>1. c + i - 1 = c + j - 1
      BY <1>14
    <3> QED
      BY <1>4, <3>1
  <2> SUFFICES ASSUME NEW i \in 1..Len(new), NEW j \in 1..Len(new),
                      new[i].nWatchedVble0 = new[j].nWatchedVble0
               PROVE  i = j
    BY DEF Distinct
  <2>5. CASE i \in 1..Len(unit) /\ j \in 1..Len(unit)
    BY <1>8, <2>1, <2>5 DEF Distinct
  <2>6. ASSUME NEW a \in 1..Len(list), i = Len(unit) + a, j \in 1..Len(unit) PROVE FALSE
    BY <1>8, <2>3, <2>6
  <2>7. ASSUME NEW a \in 1..Len(list), j = Len(unit) + a, i \in 1..Len(unit) PROVE FALSE
    BY <1>8, <2>3, <2>7
  <2>8. ASSUME NEW a \in 1..Len(list), NEW d \in 1..Len(list), i = Len(unit) + a, j = Len(unit) + d
        PROVE  i = j
    BY <1>8, <2>4, <2>8
  <2> QED
    BY <1>8, <2>5, <2>6, <2>7, <2>8
<1>20. ListsOk'
  <2> SUFFICES ASSUME NEW s \in 0..NumVars PROVE ListOk(s)'
    BY <1>9 DEF ListsOk
  <2>1. CASE s = n
    <3>1. ASSUME NEW i \in 1..Len(new) PROVE Placed(new[i], n)'
      <4>1. CASE i \in 1..Len(unit)
        BY <1>8, <1>18, <4>1
      <4>2. ASSUME NEW j \in 1..Len(list), i = Len(unit) + j PROVE Placed(new[i], n)'
        <5>1. new[i] = list[j]
          BY <1>8, <4>2
        <5> QED
          BY <1>14, <5>1
      <4> QED
        BY <1>8, <4>1, <4>2
    <3>2. ~(n > Slot') /\ pc' # "pop"
      BY <1>2, <1>5, <1>6, <1>10
    <3>3. unitLemmas'[n] = new
      BY <1>9
    <3>4. ListOk(n)'
      BY <1>19, <3>1, <3>2, <3>3 DEF ListOk, Distinct
    <3> QED
      BY <2>1, <3>4
  <2>2. CASE s # n
    <3>1. unitLemmas'[s] = unitLemmas[s]
      BY <1>9, <2>2
    <3>2. (s > 0 /\ s <= Slot => s \in 1..Slot) /\ (s < Slot => s + 1 \in 1..Slot)
      BY <1>5
    <3>3. s > 0 /\ s <= Slot => ChoiceAt(s)' = ChoiceAt(s)
      BY <1>10, <3>2
    <3>4. \A i \in 1..Len(unitLemmas[s]) :
            /\ At(unitLemmas[s][i].nWatchedVble0) < b
            /\ s < Slot' => At(unitLemmas[s][i].nWatchedVble0) < ChoiceAt(s + 1)'
      <4> SUFFICES ASSUME NEW i \in 1..Len(unitLemmas[s])
                   PROVE  /\ At(unitLemmas[s][i].nWatchedVble0) < b
                          /\ s < Slot' => At(unitLemmas[s][i].nWatchedVble0) < ChoiceAt(s + 1)'
        OBVIOUS
      <4>1. At(unitLemmas[s][i].nWatchedVble0) < b /\ Placed(unitLemmas[s][i], s)
        BY <1>17
      <4>2. PICK k : k = s + 1
        OBVIOUS
      <4>3. s < Slot' => ChoiceAt(k)' = ChoiceAt(k) /\ At(unitLemmas[s][i].nWatchedVble0) < ChoiceAt(k)
        BY <1>10, <3>2, <4>1, <4>2 DEF Placed
      <4> QED
        BY <4>1, <4>2, <4>3
    <3>5. s > Slot' \/ (s = Slot' /\ pc' = "pop") => unitLemmas[s] = <<>>
      BY <1>2, <1>10 DEF ListsOk, ListOk
    <3> QED
      BY ONLY <1>10, <1>16, <3>1, <3>3, <3>4, <3>5, IInv, b \in Nat, s \in 0..NumVars, ListKept
  <2> QED
    BY <2>1, <2>2
<1>21. ReversedOk'
  <2> SUFFICES ASSUME NEW e, InLists(e, unitLemmas, list)
               PROVE  InLists(e, unitLemmas', <<>>)
    BY <1>1, <1>2, <1>10, <1>11 DEF ReversedOk
  <2>1. ASSUME NEW s \in 0..NumVars, NEW j \in 1..Len(unitLemmas[s]), Made(unitLemmas[s][j], e)
        PROVE  \E r \in 0..NumVars : \E k \in 1..Len(unitLemmas'[r]) : Made(unitLemmas'[r][k], e)
    <3>1. CASE s = n
      BY <1>7, <1>8, <1>9, <2>1, <3>1
    <3>2. CASE s # n
      BY <1>9, <2>1, <3>2
    <3> QED
      BY <3>1, <3>2
  <2>2. ASSUME NEW j \in 1..Len(list), Made(list[j], e)
        PROVE  \E r \in 0..NumVars : \E k \in 1..Len(unitLemmas'[r]) : Made(unitLemmas'[r][k], e)
    <3>1. PICK k \in 1..Len(new) : new[k] = list[j]
      BY <1>8
    <3>2. Made(unitLemmas'[n][k], e) /\ k \in 1..Len(unitLemmas'[n])
      BY <1>9, <2>2, <3>1
    <3> QED
      BY <3>2
  <2> QED
    BY <2>1, <2>2 DEF InLists
<1>22. ConflictOk'
  <2>1. arrLemmaFlag' = {}
    BY <1>2 DEF ConflictOk
  <2>2. {} \in Lemma /\ 0 \in 0..NumVars
    BY NumVarsAssumption DEF Lemma
  <2> QED
    BY <1>2, <2>1, <2>2 DEF ConflictOk
<1>23. PendingOk' /\ FlipOk' /\ UnitOk'
  BY <1>2 DEF PendingOk, FlipOk, UnitOk
<1>24. FoundOk'
  <2>1. \A m : AgreesBelow(m, Depth + 1)' => AgreesBelow(m, Depth + 1)
    BY <1>10, <1>11, Vars DEF AgreesBelow
  <2> QED
    BY <1>2, <1>11, <2>1 DEF FoundOk, Models
<1> QED
  BY <1>10, <1>12, <1>13, <1>20, <1>21, <1>22, <1>23, <1>24

-----------------------------------------------------------------------------
(* The invariant *)

LEMMA InitInv == Init => IInv
<1> SUFFICES ASSUME Init PROVE IInv
  OBVIOUS
<1>1. /\ problem \in Problems /\ pCurrentState = problem
      /\ arrSmurfPath = [f \in Fn |-> {}]
      /\ arrSolution = [v \in Var |-> BOOL_UNKNOWN]
      /\ arrBacktrackStack = <<>>
      /\ arrBacktrackStackIndex = [v \in 0..NumVars |-> IF v = 0 THEN 0 ELSE NOT_ON_STACK]
      /\ arrChoicePointStack = <<>>
      /\ unitLemmas = [slot \in 0..NumVars |-> <<>>]
      /\ cache = {} /\ arrTempLemma = {} /\ arrLemmaFlag = {} /\ arrUnsetLemmaFlagVars = {}
      /\ nNumForcedInfsBelowCurrentCP = 0
      /\ pUnitLemmaList = <<>> /\ pc = "deduce" /\ found = {} /\ ret = SOLV_UNKNOWN
  BY DEF Init
<1>2. problem \in [Fn -> Function]
  BY <1>1, LemmaBrancherAssumption
<1>3. {} \in Lemma /\ 0 \in 0..NumVars /\ NOT_ON_STACK \in Nat
  BY NumVarsAssumption DEF Lemma, NOT_ON_STACK
<1>4. /\ Depth = 0 /\ 1..Depth = {} /\ Slot = 0 /\ 1..Slot = {}
      /\ \A T : <<>> \in Seq(T)
  BY <1>1 DEF Depth, Slot
<1>5. TypesOk
  BY <1>1, <1>2, <1>3 DEF TypesOk
<1>6. TrailOk
  <2>1. \A v \in Var : ~Known(v) /\ At(v) = NOT_ON_STACK
    BY <1>1, Vars DEF Known, At
  <2>2. arrSolution \in Partial /\ arrBacktrackStackIndex \in [0..NumVars -> Nat] /\ At(0) = 0
    BY <1>1, <1>3 DEF Partial, At
  <2> QED
    BY <1>1, <1>4, <2>1, <2>2 DEF TrailOk
<1>7. ReasonsOk /\ ReversedOk
  BY <1>4 DEF ReasonsOk, ReversedOk
<1>8. StatesOk
  <2>1. \A f \in Fn : pCurrentState[f] = problem[f] /\ arrSmurfPath[f] = {}
    BY <1>1
  <2> QED
    BY <1>1, <2>1 DEF StatesOk, StateOk, FalseBelow
<1>9. LevelsOk
  BY <1>1, <1>4 DEF LevelsOk
<1>10. \A s \in 0..NumVars : unitLemmas[s] = <<>> /\ 1..Len(unitLemmas[s]) = {}
  BY <1>1
<1>11. 1..Len(pUnitLemmaList) = {}
  BY <1>1
<1>12. ImpliedOk
  BY <1>1, <1>4, <1>10, <1>11 DEF ImpliedOk
<1>13. ListsOk
  <2>1. unitLemmas \in [0..NumVars -> Seq(LemmaInfo)]
    BY <1>1, <1>4
  <2> QED
    BY <1>10, <2>1 DEF ListsOk, ListOk, Distinct
<1>14. ConflictOk
  BY <1>1, <1>3 DEF ConflictOk
<1>15. PendingOk /\ FlipOk /\ UnitOk
  BY <1>1, <1>4 DEF PendingOk, FlipOk, UnitOk
<1>16. FoundOk
  BY <1>1 DEF FoundOk
<1> QED
  BY <1>5, <1>6, <1>7, <1>8, <1>9, <1>12, <1>13, <1>14, <1>15, <1>16 DEF IInv

LEMMA StutterKeeps ==
  ASSUME IInv, UNCHANGED vars
  PROVE  IInv'
<1> USE DEF IInv
<1>1. UNCHANGED <<problem, smurfVars, trailVars, levelVars, cache, lemmaVars, unitVars, pc,
                  resultVars>>
  BY DEF vars
<1>2. /\ UNCHANGED <<problem, pCurrentState, arrSmurfPath, arrSolution, arrBacktrackStack>>
      /\ UNCHANGED <<arrBacktrackStackIndex, arrChoicePointStack, unitLemmas, cache>>
      /\ UNCHANGED <<arrTempLemma, arrLemmaFlag, arrUnsetLemmaFlagVars>>
      /\ UNCHANGED <<nNumForcedInfsBelowCurrentCP, nOldBacktrackStackIndex, pUnitLemmaList>>
      /\ UNCHANGED <<nFlipped, nKept, pc, found, ret>>
  BY <1>1 DEF smurfVars, trailVars, levelVars, lemmaVars, unitVars, resultVars
<1> USE <1>2
<1>3. \A v : At(v)' = At(v) /\ Known(v)' = Known(v)
  BY DEF At, Known
<1>4. Depth' = Depth /\ Slot' = Slot /\ Live' = Live /\ OnLevelFlagged' = OnLevelFlagged
  BY DEF Depth, Slot, Live, OnLevelFlagged, ChoiceAt, ChoiceVar, At, Known
<1>5. TrailOk' /\ TypesOk' /\ ReversedOk' /\ FoundOk'
  BY DEF TrailOk, TypesOk, ReversedOk, FoundOk, At, Known, Depth, AgreesBelow, Models
<1>6. ReasonsOk'
  BY DEF ReasonsOk, Reason, Chosen, IsFalse, At, Depth, Slot
<1>7. StatesOk'
  BY DEF StatesOk, StateOk, FalseBelow, AgreesBelow, IsFalse, At, Depth, ChoiceAt, ChoiceVar, Slot
<1>8. LevelsOk'
  BY DEF LevelsOk, LevelOk, StateOk, FalseBelow, AgreesBelow, IsFalse, At, ChoiceAt, ChoiceVar,
         Slot, Known
<1>9. ImpliedOk'
  BY DEF ImpliedOk, Implied, Models, Depth
<1>10. ListsOk'
  BY DEF ListsOk, ListOk, Placed, InUse, InfoOk, IsFalse, At, Known, ChoiceAt, ChoiceVar, Slot,
         Other, Distinct
<1>11. ConflictOk'
  BY <1>4 DEF ConflictOk, Implied, Models, IsFalse, Known, ChoiceAt, ChoiceVar, Slot, At
<1>12. PendingOk'
  BY <1>4 DEF PendingOk, PendingOne, PairOk, Missed, InUse, InfoOk, IsFalse, At, Known, ChoiceAt,
              ChoiceVar, Other
<1>13. FlipOk' /\ UnitOk'
  BY <1>4 DEF FlipOk, UnitOk, KeptOk, Missed, AgreesBelow, FlippedAt, InfoOk, IsFalse, At, Known,
              ChoiceAt, ChoiceVar, Other
<1> QED
  BY <1>5, <1>6, <1>7, <1>8, <1>9, <1>10, <1>11, <1>12, <1>13

(* The inductive invariant holds in every reachable state, for any number  *)
(* of variables and any functions of them.                                 *)
THEOREM Invariance == Spec => []IInv
<1>1. IInv /\ [Next]_vars => IInv'
  <2> SUFFICES ASSUME IInv, [Next]_vars PROVE IInv'
    OBVIOUS
  <2>1. ASSUME NEW f \in Fn, NEW v \in Var, SmurfTransition(f, v) PROVE IInv'
    BY <2>1, SmurfTransitionKeeps
  <2>2. ASSUME NEW lemma \in cache, NEW lit \in lemma, LemmaInfers(lemma, lit) PROVE IInv'
    BY <2>2, LemmaInfersKeeps
  <2>3. ASSUME NEW lemma \in cache, LemmaConflict(lemma) PROVE IInv'
    BY <2>3, LemmaConflictKeeps
  <2>4. ASSUME NEW lemma \in cache, RemoveFromCache(lemma) PROVE IInv'
    BY <2>4, RemoveFromCacheKeeps
  <2>5. ASSUME NEW lit \in Literal, SelectNewBranchPoint(lit) PROVE IInv'
    BY <2>5, SelectNewBranchPointKeeps
  <2>6. CASE RecordSolution
    BY <2>6, RecordSolutionKeeps
  <2>7. CASE BackJump
    BY <2>7, BackJumpKeeps
  <2>8. CASE NowhereToBacktrack
    BY <2>8, NowhereToBacktrackKeeps
  <2>9. CASE Pop
    BY <2>9, PopStepKeeps
  <2>10. CASE Flip
    BY <2>10, FlipKeeps
  <2>11. CASE UnitInfers
    BY <2>11, UnitInfersKeeps
  <2>12. CASE UnitToCache
    BY <2>12, UnitToCacheKeeps
  <2>13. CASE EndBackTrack
    BY <2>13, EndBackTrackKeeps
  <2>14. CASE UNCHANGED vars
    BY <2>14, StutterKeeps
  <2> QED
    BY <2>1, <2>2, <2>3, <2>4, <2>5, <2>6, <2>7, <2>8, <2>9, <2>10, <2>11, <2>12, <2>13, <2>14
       DEF Next, Done
<1> QED
  BY <1>1, InitInv, PTL DEF Spec

-----------------------------------------------------------------------------
(* What the invariant says of conflict analysis *)

LEMMA Typed == ASSUME IInv PROVE TypeOK
<1> USE DEF IInv
<1>1. /\ problem \in Problems /\ pCurrentState \in [Fn -> Function]
      /\ arrSmurfPath \in [Fn -> Lemma] /\ cache \subseteq Lemma
      /\ pc \in {"deduce", "backjump", "pop", "flip", "unit", "done"}
  BY DEF TypesOk
<1>2. arrSolution \in Partial
  BY DEF TrailOk
<1>3. \A i \in DOMAIN arrBacktrackStack :
        arrBacktrackStack[i] \in [atom : Var, bWasChoicePoint : BOOLEAN, lemma : Lemma]
  <2>1. DOMAIN arrBacktrackStack = 1..Depth
    BY DEF TrailOk, Depth
  <2> QED
    BY <2>1, EntryOnTrail DEF Entry
<1>4. arrBacktrackStackIndex \in [0..NumVars -> 0..NOT_ON_STACK]
  <2>1. arrBacktrackStackIndex \in [0..NumVars -> Nat]
    BY DEF TrailOk
  <2>2. ASSUME NEW v \in 0..NumVars
        PROVE  arrBacktrackStackIndex[v] \in 0..NOT_ON_STACK
    <3>1. CASE v = 0
      BY <3>1, NumVarsAssumption DEF TrailOk, At, NOT_ON_STACK
    <3>2. CASE v \in Var /\ Known(v)
      <4>1. At(v) \in 1..Depth /\ Depth \in Nat /\ Depth <= NumVars
        BY <3>2, TrailIs, TrailLength
      <4> QED
        BY <4>1, NumVarsAssumption DEF At, NOT_ON_STACK
    <3>3. CASE v \in Var /\ ~Known(v)
      BY <3>3, NumVarsAssumption DEF TrailOk, At, NOT_ON_STACK
    <3> QED
      BY <3>1, <3>2, <3>3 DEF Var
  <2> QED
    BY <2>1, <2>2
<1>5. Slot <= NumVars
  BY SlotBounded
<1>6. \A slot \in 0..NumVars : Range(unitLemmas[slot]) \subseteq LemmaInfo
  <2> SUFFICES ASSUME NEW slot \in 0..NumVars
               PROVE  Range(unitLemmas[slot]) \subseteq LemmaInfo
    OBVIOUS
  <2>1. PICK list \in Seq(LemmaInfo) : list = unitLemmas[slot]
    BY DEF ListsOk
  <2>2. \A i \in DOMAIN list : list[i] \in LemmaInfo
    OBVIOUS
  <2> QED
    BY <2>1, <2>2 DEF Range
<1>7. /\ arrTempLemma \in Lemma /\ arrLemmaFlag \subseteq Var
      /\ nNumForcedInfsBelowCurrentCP \in 0..NumVars
  BY DEF ConflictOk
<1> QED
  BY <1>1, <1>2, <1>3, <1>4, <1>5, <1>6, <1>7 DEF TypeOK

LEMMA Agreed == ASSUME IInv PROVE TrailExact
<1>1. DOMAIN arrBacktrackStack = 1..Depth
  BY DEF IInv, TrailOk, Depth
<1> QED
  BY <1>1 DEF IInv, TrailOk, TrailExact, Known, At

LEMMA HaveReasons ==
  ASSUME IInv, NEW i \in DOMAIN arrBacktrackStack
  PROVE  Chosen(i) \/ Explained(i)
<1>1. i \in 1..Depth
  BY DEF IInv, TrailOk, Depth
<1>2. SUFFICES ASSUME Reason(i) PROVE Explained(i)
  BY <1>1 DEF IInv, ReasonsOk
<1>3. PICK e : e = arrBacktrackStack[i]
  OBVIOUS
<1>4. PICK this : this = <<e.atom, arrSolution[e.atom]>>
  OBVIOUS
<1>5. this \in e.lemma /\ \A l \in e.lemma \ {this} : IsFalse(l) /\ At(l[1]) < i
  BY <1>2, <1>3, <1>4 DEF Reason
<1>6. \A l \in e.lemma : l[1] # e.atom => l # this
  BY <1>4
<1> QED
  BY <1>3, <1>4, <1>5, <1>6 DEF Explained, At

(* The trail, the assignment and the index of each atom agree in every     *)
(* step of deduction and backtracking, and an atom that was not chosen     *)
(* follows from the lemma recorded with it by InferLiteral, whose other    *)
(* literals were false before it.                                          *)
THEOREM ReasonsAreRight == Spec => []ReasonsRight
<1>1. IInv => ReasonsRight
  BY Typed, Agreed, HaveReasons DEF ReasonsRight
<1> QED
  BY <1>1, Invariance, PTL

LEMMA AllImplied == ASSUME IInv PROVE LemmasImplied
<1> USE DEF IInv
<1>1. /\ \A lemma \in cache : Implied(lemma)
      /\ \A i \in 1..Depth : arrBacktrackStack[i].lemma # NO_LEMMA =>
                               Implied(arrBacktrackStack[i].lemma)
      /\ \A i \in 1..Len(pUnitLemmaList) : Implied(pUnitLemmaList[i].lemma)
      /\ \A s \in 0..NumVars : \A i \in 1..Len(unitLemmas[s]) :
           Implied(unitLemmas[s][i].lemma)
  BY DEF ImpliedOk
<1>2. DOMAIN arrBacktrackStack = 1..Depth
  BY DEF TrailOk, Depth
<1>3. \A p \in Range(pUnitLemmaList) : Implied(p.lemma)
  <2>1. DOMAIN pUnitLemmaList = 1..Len(pUnitLemmaList)
    BY DEF PendingOk
  <2> QED
    BY <1>1, <2>1 DEF Range
<1>4. ASSUME NEW s \in 0..NumVars, NEW p \in Range(unitLemmas[s]) PROVE Implied(p.lemma)
  <2>1. PICK list \in Seq(LemmaInfo) : list = unitLemmas[s]
    BY DEF ListsOk
  <2>2. DOMAIN list = 1..Len(list)
    OBVIOUS
  <2>3. PICK i \in 1..Len(list) : p = list[i]
    BY <2>1, <2>2 DEF Range
  <2> QED
    BY <1>1, <2>1, <2>3
<1>5. \A i \in DOMAIN arrBacktrackStack : arrBacktrackStack[i].lemma # NO_LEMMA =>
                                            Implied(arrBacktrackStack[i].lemma)
  BY <1>1, <1>2
<1> QED
  BY <1>1, <1>3, <1>4, <1>5 DEF LemmasImplied, Implied

(* Every lemma in the cache, in the lists of unit lemmas, on the trail or  *)
(* just derived by BackTrack holds in every model not yet reported: what a *)
(* Smurf infers, resolution and backjumping lose no solution.              *)
THEOREM LemmasAreImplied == Spec => []LemmasImplied
<1>1. IInv => LemmasImplied
  BY AllImplied
<1> QED
  BY <1>1, Invariance, PTL

LEMMA FlagsCounted == ASSUME IInv PROVE FlagsExact
<1> USE DEF IInv
<1>1. pc \in {"deduce", "unit"} => arrLemmaFlag = {}
  BY DEF ConflictOk
<1>2. ASSUME pc = "pop"
      PROVE  nNumForcedInfsBelowCurrentCP =
               Cardinality({v \in arrLemmaFlag :
                 arrBacktrackStackIndex[v] \in arrBacktrackStackIndex[Top.nBranchVble]
                                               ..Len(arrBacktrackStack)})
  BY <1>2 DEF ConflictOk, OnLevelFlagged, At, ChoiceAt, ChoiceVar, Top, Depth
<1> QED
  BY <1>1, <1>2 DEF FlagsExact

(* nNumForcedInfsBelowCurrentCP, by which BackTrack recognises a unique    *)
(* implication point, counts the flagged atoms still to be popped on the   *)
(* level, and no flag of a conflict outlives it.                           *)
THEOREM FlagsAreExact == Spec => []FlagsExact
<1>1. IInv => FlagsExact
  BY FlagsCounted
<1> QED
  BY <1>1, Invariance, PTL

LEMMA ListsInUse == ASSUME IInv PROVE UnitLemmasInUse
<1> USE DEF IInv
<1> SUFFICES ASSUME pc = "deduce" PROVE UnitLemmasInUse
  BY DEF UnitLemmasInUse
<1>1. DOMAIN arrBacktrackStack = 1..Depth
  BY DEF TrailOk, Depth
<1>2. \A s \in 0..NumVars : s > Slot => unitLemmas[s] = <<>>
  BY DEF ListsOk, ListOk
<1>3. \A s \in 0..NumVars : unitLemmas[s] \in Seq(LemmaInfo)
                            /\ DOMAIN unitLemmas[s] = 1..Len(unitLemmas[s])
  <2>1. \A s \in 0..NumVars : unitLemmas[s] \in Seq(LemmaInfo)
    BY DEF ListsOk
  <2> QED
    BY <2>1
<1>4. Slot \in Nat /\ Slot <= NumVars
  BY SlotBounded
<1>5. ASSUME NEW i \in 1..Depth, arrBacktrackStack[i].bWasChoicePoint
      PROVE  \E slot \in 0..Slot : \E p \in Range(unitLemmas[slot]) :
               p.lemma = arrBacktrackStack[i].lemma
  <2>1. pUnitLemmaList = <<>> /\ 1..Len(<<>>) = {}
    BY DEF PendingOk
  <2>2. InLists(arrBacktrackStack[i], unitLemmas, pUnitLemmaList)
    BY <1>5 DEF ReversedOk
  <2>3. PICK s \in 0..NumVars : \E j \in 1..Len(unitLemmas[s]) :
               Made(unitLemmas[s][j], arrBacktrackStack[i])
    BY <2>1, <2>2 DEF InLists
  <2>4. PICK j \in 1..Len(unitLemmas[s]) : Made(unitLemmas[s][j], arrBacktrackStack[i])
    BY <2>3
  <2>5. s \in 0..Slot
    <3> SUFFICES ASSUME s > Slot PROVE FALSE
      BY <1>4, NumVarsAssumption
    <3>1. unitLemmas[s] = <<>>
      BY <1>2
    <3> QED
      BY <2>1, <2>4, <3>1
  <2>6. unitLemmas[s][j] \in Range(unitLemmas[s])
    BY <1>3, <2>4 DEF Range
  <2> QED
    BY <2>4, <2>5, <2>6 DEF Made
<1>6. ASSUME NEW s \in 0..NumVars, NEW i \in 1..Len(unitLemmas[s]), NEW p,
             p = unitLemmas[s][i]
      PROVE  /\ At(p.nWatchedVble0) \in 1..Depth
             /\ arrBacktrackStack[At(p.nWatchedVble0)].lemma = p.lemma
             /\ \A j \in 1..Len(unitLemmas[s]) :
                  unitLemmas[s][j].nWatchedVble0 = p.nWatchedVble0 => i = j
  <2>1. Placed(p, s) /\ Distinct(unitLemmas[s])
    BY <1>6 DEF ListsOk, ListOk
  <2>2. Known(p.nWatchedVble0) /\ arrBacktrackStack[At(p.nWatchedVble0)].lemma = p.lemma
    BY <2>1 DEF Placed, InUse
  <2>3. p \in LemmaInfo
    BY <1>3, <1>6, ListEntryIs
  <2>4. p.nWatchedVble0 \in Var
    BY <2>3, InfoIs
  <2>5. At(p.nWatchedVble0) \in 1..Depth
    BY <2>2, <2>4, TrailIs
  <2> QED
    BY <1>6, <2>1, <2>2, <2>5 DEF Distinct
<1> QED
  BY <1>1, <1>2, <1>3, <1>5, <1>6 DEF UnitLemmasInUse, At

(* The list of a slot of the choice point stack holds the lemmas that made *)
(* an inference on its level, each its own, and among them are those that  *)
(* reversed a choice: none is lost that a later BackTrack has to put in    *)
(* the cache.                                                              *)
THEOREM UnitLemmasAreInUse == Spec => []UnitLemmasInUse
<1>1. IInv => UnitLemmasInUse
  BY ListsInUse
<1> QED
  BY <1>1, Invariance, PTL

(* As the comment in BackTrack has it, the unit lemmas apply inferences of *)
(* their own: each infers an atom that is still unknown, the first one the *)
(* reversed choice.                                                        *)
THEOREM InfersNew == Spec => InfersUnknown
<1>1. ASSUME IInv, UnitInfers PROVE arrSolution[NextUnit.nWatchedVble0] = BOOL_UNKNOWN
  <2>1. pc = "unit" /\ nKept < Len(pUnitLemmaList) /\ StillUnit(NextUnit)
    BY <1>1 DEF UnitInfers
  <2> QED
    BY <1>1, <2>1, NextIsUnknown DEF Known
<1>2. ASSUME IInv, Flip PROVE pUnitLemmaList[1].nWatchedVble0 = nFlipped[1]
  BY <1>2 DEF Flip, IInv, FlipOk
<1>3. IInv => [/\ UnitInfers => arrSolution[NextUnit.nWatchedVble0] = BOOL_UNKNOWN
               /\ Flip => pUnitLemmaList[1].nWatchedVble0 = nFlipped[1]]_vars
  BY <1>1, <1>2
<1> QED
  BY <1>3, Invariance, PTL DEF InfersUnknown

-----------------------------------------------------------------------------
(* The search implements ModelSearch *)

LEMMA RecordReports == ASSUME IInv, RecordSolution PROVE S!Report
<1> USE DEF IInv
<1>1. /\ pc = "deduce" /\ UNCHANGED <<problem, ret>>
      /\ found' = found \cup Cube(arrSolution)
  BY DEF RecordSolution, Deduced
<1>2. /\ ret = SOLV_UNKNOWN /\ \A m \in found : ~AgreesBelow(m, Depth + 1)
  BY <1>1 DEF FoundOk
<1>3. arrSolution \in Partial
  BY DEF TrailOk
<1>4. Models' = Models
  BY <1>1 DEF Models
<1>5. found' \in SUBSET Models
  BY <1>4, RecordSolutionKeeps DEF FoundOk
<1>6. \E m : m \in Cube(arrSolution)
  BY <1>3, SomeAssignment, OverrideInCube
<1>7. ASSUME NEW m \in Cube(arrSolution) PROVE m \notin found
  <2>1. \A v \in Var : Known(v) => m[v] = arrSolution[v]
    <3>1. m \in Assignment
      BY DEF Cube
    <3> QED
      BY <1>3, <3>1, CubeIs DEF Known
  <2>2. \A v \in Var : At(v) < Depth + 1 => Known(v)
    BY TrailIs
  <2>3. AgreesBelow(m, Depth + 1)
    BY <2>1, <2>2 DEF AgreesBelow
  <2> QED
    BY <1>2, <2>3
<1>8. found \subseteq found' /\ found' # found
  BY <1>1, <1>6, <1>7
<1> QED
  BY <1>1, <1>2, <1>4, <1>5, <1>8 DEF S!Report, SOLV_UNKNOWN, S!SOLV_UNKNOWN

(* With no choice left to reverse the conflict lemma is empty: it holds in *)
(* no model, so there is none left.                                        *)
LEMMA AllAreFound == ASSUME IInv, NowhereToBacktrack PROVE found = Models
<1> USE DEF IInv
<1>1. pc = "backjump" /\ Slot = 0
  BY DEF NowhereToBacktrack
<1>2. found \subseteq Models
  BY DEF FoundOk
<1>3. Implied(Live) /\ \A l \in Live : IsFalse(l)
  BY <1>1 DEF ConflictOk
<1> SUFFICES ASSUME NEW m \in Models \ found PROVE FALSE
  BY <1>2
<1>4. \A v \in Var : Known(v) => m[v] = arrSolution[v]
  <2>1. \A k \in 1..Slot : m[ChoiceVar(k)] = arrSolution[ChoiceVar(k)]
    BY <1>1
  <2> QED
    BY <2>1, ChoicesDecide
<1>5. PICK l \in Live : m[l[1]] = l[2]
  BY <1>3 DEF Implied
<1>6. l \in Literal /\ Known(l[1]) /\ l[1] \in Var
  <2>1. l \in Literal /\ Known(l[1])
    BY DEF ConflictOk, Lemma, Live
  <2> QED
    BY <2>1, Literals
<1>7. arrSolution[l[1]] = l[2] /\ arrSolution[l[1]] = NEG(l[2])
  BY <1>3, <1>4, <1>5, <1>6 DEF IsFalse
<1> QED
  BY <1>6, <1>7, Literals

LEMMA NowhereFinishes == ASSUME IInv, NowhereToBacktrack PROVE S!Finish
<1>1. /\ pc = "backjump" /\ ret' = IF found = {} THEN SOLV_UNSAT ELSE SOLV_SAT
      /\ UNCHANGED <<problem, found>>
  BY DEF NowhereToBacktrack
<1>2. ret = SOLV_UNKNOWN
  BY <1>1 DEF IInv, FoundOk
<1>3. Models' = Models /\ found = Models
  BY <1>1, AllAreFound DEF Models
<1> QED
  BY <1>1, <1>2, <1>3 DEF S!Finish, SOLV_UNKNOWN, S!SOLV_UNKNOWN, SOLV_SAT, S!SOLV_SAT,
     SOLV_UNSAT, S!SOLV_UNSAT

LEMMA SearchStep == ASSUME IInv, [Next]_vars PROVE [S!Next]_(S!vars)
<1>1. CASE RecordSolution
  BY <1>1, RecordReports DEF S!Next
<1>2. CASE NowhereToBacktrack
  BY <1>2, NowhereFinishes DEF S!Next
<1>3. CASE ~RecordSolution /\ ~NowhereToBacktrack
  <2>1. UNCHANGED <<problem, found, ret>>
    <3>1. CASE UNCHANGED vars \/ Done
      BY <3>1 DEF Done, vars, resultVars
    <3>2. CASE \E f \in Fn, v \in Var : SmurfTransition(f, v)
      BY <3>2 DEF SmurfTransition, resultVars
    <3>3. CASE \E lemma \in cache : \/ \E lit \in lemma : LemmaInfers(lemma, lit)
                                    \/ LemmaConflict(lemma)
                                    \/ RemoveFromCache(lemma)
      BY <3>3 DEF LemmaInfers, LemmaConflict, RemoveFromCache, resultVars
    <3>4. CASE \E lit \in Literal : SelectNewBranchPoint(lit)
      BY <3>4 DEF SelectNewBranchPoint, resultVars
    <3>5. CASE BackJump \/ Pop
      BY <3>5 DEF BackJump, Pop, resultVars
    <3>6. CASE Flip \/ UnitInfers \/ UnitToCache \/ EndBackTrack
      BY <3>6 DEF Flip, UnitInfers, UnitToCache, EndBackTrack, resultVars
    <3> QED
      BY <1>3, <3>1, <3>2, <3>3, <3>4, <3>5, <3>6 DEF Next
  <2>2. Models' = Models
    BY <2>1 DEF Models
  <2> QED
    BY <2>1, <2>2 DEF S!vars
<1> QED
  BY <1>1, <1>2, <1>3

(* Backjumping skips no model: with its lemmas the search still reports    *)
(* models and nothing else, none twice, and its verdict, SOLV_UNSAT or     *)
(* SOLV_SAT, is returned only when all of them are found; whatever the     *)
(* functions, the choices and the order of deduction.                      *)
THEOREM FindsTheModels == Spec => FindsModels
<1>1. Init => S!Init
  BY DEF Init, S!Init, Models, SOLV_UNKNOWN, S!SOLV_UNKNOWN
<1>2. IInv /\ [Next]_vars => [S!Next]_(S!vars)
  BY SearchStep
<1> QED
  BY <1>1, <1>2, Invariance, PTL DEF Spec, FindsModels, S!Spec
=============================================================================
