--------------------------- MODULE LemmaBrancher ----------------------------
(***************************************************************************)
(* The SMURF search with lemmas: BackTrack pops the trail over several     *)
(* choice points, resolves the conflict lemma with the lemmas that made    *)
(* the inferences it pops, derives a lemma at each unique implication      *)
(* point, reverses the first choice that the lemma depends on and infers   *)
(* with the derived lemmas that are still unit.                            *)
(*                                                                         *)
(* BackTrack is one action per turn of its loops.  Deduction is in larger  *)
(* steps and in any order: a transition of one Smurf, or an inference of   *)
(* one cached lemma.  What the other modules show is used: that restored   *)
(* states are those saved at the choice point (FnStack), that lemmas in    *)
(* use stay in the cache (LemmaCache).                                     *)
(***************************************************************************)
EXTENDS BoolFn, SequencesExt

CONSTANTS Fn,        \* function numbers
          Problems   \* the inputs, each a function of Fn

ASSUME LemmaBrancherAssumption ==
  \A p \in Problems : p \in [Fn -> Function] /\ \A f \in Fn : Normalized(p[f])

SOLV_SAT     == 7
SOLV_UNSAT   == 8
SOLV_UNKNOWN == 9

VARIABLES
  problem,                 \* functions[], the input
  pCurrentState,           \* the states of the Smurfs ...
  arrSmurfPath,            \* ... and the literals that led there, negated
  arrSolution,
  arrBacktrackStack,       \* the trail: atom, bWasChoicePoint, lemma
  arrBacktrackStackIndex,
  arrChoicePointStack,     \* atom, and what a pop restores
  unitLemmas,              \* pUnitLemmaList of the slots of that stack
  cache,                   \* the lemmas in the lemma cache
  arrTempLemma, arrLemmaFlag, arrUnsetLemmaFlagVars,
  nNumForcedInfsBelowCurrentCP, nOldBacktrackStackIndex,
  pUnitLemmaList,          \* of BackTrack
  nFlipped,                \* nInferredAtom and nInferredValue of BackTrack
  nKept,                   \* how many of pUnitLemmaList have been kept
  pc, found, ret

trailVars  == <<arrSolution, arrBacktrackStack, arrBacktrackStackIndex>>
levelVars  == <<arrChoicePointStack, unitLemmas>>
smurfVars  == <<pCurrentState, arrSmurfPath>>
lemmaVars  == <<arrTempLemma, arrLemmaFlag, arrUnsetLemmaFlagVars,
                nNumForcedInfsBelowCurrentCP, nOldBacktrackStackIndex>>
unitVars   == <<pUnitLemmaList, nFlipped, nKept>>
resultVars == <<found, ret>>

vars == <<problem, smurfVars, trailVars, levelVars, cache, lemmaVars, unitVars,
          pc, resultVars>>

NEG(val) == 1 - val
Negation(lit) == <<lit[1], NEG(lit[2])>>

Atoms(lemma) == {l[1] : l \in lemma}

NO_LEMMA == {}
NOT_ON_STACK == NumVars + 1

Init ==
  /\ problem \in Problems
  /\ pCurrentState = problem
  /\ arrSmurfPath = [f \in Fn |-> {}]
  /\ arrSolution = [v \in Var |-> BOOL_UNKNOWN]
  /\ arrBacktrackStack = <<>>
  /\ arrBacktrackStackIndex = [v \in 0..NumVars |-> IF v = 0 THEN 0 ELSE NOT_ON_STACK]
  /\ arrChoicePointStack = <<>>
  /\ unitLemmas = [slot \in 0..NumVars |-> <<>>]
  /\ cache = {}
  /\ arrTempLemma = {} /\ arrLemmaFlag = {} /\ arrUnsetLemmaFlagVars = {}
  /\ nNumForcedInfsBelowCurrentCP = 0 /\ nOldBacktrackStackIndex = 0
  /\ pUnitLemmaList = <<>> /\ nFlipped = <<0, BOOL_FALSE>> /\ nKept = 0
  /\ pc = "deduce"
  /\ found = {}
  /\ ret = SOLV_UNKNOWN

-----------------------------------------------------------------------------
(* Deduction *)

Slot == Len(arrChoicePointStack)   \* of pChoicePointTop

IsTrue(lit)    == arrSolution[lit[1]] = lit[2]
IsFalse(lit)   == arrSolution[lit[1]] = NEG(lit[2])
IsUnknown(lit) == arrSolution[lit[1]] = BOOL_UNKNOWN

(* InferLiteral, for the literals of a sequence and the lemma of each. *)
InferLiterals(lits, bWasChoicePoint, lemmas) ==
  /\ arrSolution' = [v \in Var |->
       IF \E i \in DOMAIN lits : lits[i][1] = v
       THEN lits[CHOOSE i \in DOMAIN lits : lits[i][1] = v][2] ELSE arrSolution[v]]
  /\ arrBacktrackStackIndex' = [v \in 0..NumVars |->
       IF \E i \in DOMAIN lits : lits[i][1] = v
       THEN Len(arrBacktrackStack) + (CHOOSE i \in DOMAIN lits : lits[i][1] = v)
       ELSE arrBacktrackStackIndex[v]]
  /\ arrBacktrackStack' = arrBacktrackStack \o
       [i \in DOMAIN lits |-> [atom |-> lits[i][1], bWasChoicePoint |-> bWasChoicePoint,
                               lemma |-> lemmas[i]]]

(* ConstructTempLemma *)
Conflict(lemma) ==
  /\ arrTempLemma' = lemma
  /\ arrLemmaFlag' = Atoms(lemma)
  /\ arrUnsetLemmaFlagVars' = {}
  /\ nOldBacktrackStackIndex' = 0
  /\ pUnitLemmaList' = <<>>
  /\ pc' = "backjump"
  /\ UNCHANGED <<nNumForcedInfsBelowCurrentCP, nFlipped, nKept, smurfVars, trailVars,
                 levelVars, cache>>

InstantiatedVbles(f) == {v \in Vbles(pCurrentState[f]) : arrSolution[v] # BOOL_UNKNOWN}

(* A transition of Smurf f along variable v, in UpdateRegularSmurf. *)
SmurfTransition(f, v) ==
  LET next    == set_variable(pCurrentState[f], v, arrSolution[v])
      path    == arrSmurfPath[f] \cup {<<v, NEG(arrSolution[v])>>}
      infs    == Inferences(next)
      Lemma(lit) == path \cup {lit}
      new     == SetToSeq({lit \in infs : IsUnknown(lit)})
  IN  /\ pc = "deduce"
      /\ v \in InstantiatedVbles(f)
      /\ \/ \E lit \in infs : IsFalse(lit) /\ Conflict(Lemma(lit))
         \/ /\ ~\E lit \in infs : IsFalse(lit)
            /\ InferLiterals(new, FALSE, [i \in DOMAIN new |-> Lemma(new[i])])
            /\ pCurrentState' = [pCurrentState EXCEPT ![f] = set_variable_all_infs(next)]
            /\ arrSmurfPath' = [arrSmurfPath EXCEPT ![f] = path]
            /\ UNCHANGED <<levelVars, cache, lemmaVars, unitVars, pc>>
      /\ UNCHANGED <<problem, resultVars>>

Unit(lemma, lit) == IsUnknown(lit) /\ \A other \in lemma \ {lit} : IsFalse(other)

(* UpdateEachAffectedLemma, for one lemma of the cache. *)
LemmaInfers(lemma, lit) ==
  /\ pc = "deduce"
  /\ Unit(lemma, lit)
  /\ InferLiterals(<<lit>>, FALSE, <<lemma>>)
  /\ UNCHANGED <<problem, smurfVars, levelVars, cache, lemmaVars, unitVars, pc,
                 resultVars>>

LemmaConflict(lemma) ==
  /\ pc = "deduce"
  /\ \A lit \in lemma : IsFalse(lit)
  /\ Conflict(lemma)
  /\ UNCHANGED <<problem, resultVars>>

(* A lemma that made no inference may leave the cache at any time. *)
RemoveFromCache(lemma) ==
  /\ pc = "deduce"
  /\ \A i \in DOMAIN arrBacktrackStack : arrBacktrackStack[i].lemma # lemma
  /\ cache' = cache \ {lemma}
  /\ UNCHANGED <<problem, smurfVars, trailVars, levelVars, lemmaVars, unitVars, pc,
                 resultVars>>

Deduced ==
  /\ pc = "deduce"
  /\ \A f \in Fn : InstantiatedVbles(f) = {}
  /\ \A lemma \in cache : /\ ~\E lit \in lemma : Unit(lemma, lit)
                          /\ ~\A lit \in lemma : IsFalse(lit)

Unresolved == {f \in Fn : pCurrentState[f] # true_ptr}

SelectNewBranchPoint(lit) ==
  /\ Deduced
  /\ Unresolved # {}
  /\ IsUnknown(lit)
  /\ InferLiterals(<<lit>>, FALSE, <<NO_LEMMA>>)
  /\ arrChoicePointStack' =
       Append(arrChoicePointStack, [nBranchVble |-> lit[1], state |-> pCurrentState,
                                    path |-> arrSmurfPath])
  /\ UNCHANGED <<problem, smurfVars, unitLemmas, cache, lemmaVars, unitVars, pc,
                 resultVars>>

(* The lemma of a solution says: not these choices again. *)
RecordSolution ==
  /\ Deduced
  /\ Unresolved = {}
  /\ found' = found \cup Cube(arrSolution)
  /\ Conflict({<<v, NEG(arrSolution[v])>> :
                 v \in {arrChoicePointStack[i].nBranchVble : i \in 1..Slot}})
  /\ UNCHANGED <<problem, ret>>

-----------------------------------------------------------------------------
(* BackTrack: the backjumping loop *)

Top == arrChoicePointStack[Slot]

OnLevel(v) == arrBacktrackStackIndex[v] >= arrBacktrackStackIndex[Top.nBranchVble]

(* Mutant: the literals of the levels jumped over count again. *)
AnyIndex(v) == TRUE

(* Popped atoms that stay in the lemma count no more. *)
NotYetPopped(v) ==
  nOldBacktrackStackIndex = 0 \/ arrBacktrackStackIndex[v] < nOldBacktrackStackIndex

BackJump ==
  /\ pc = "backjump"
  /\ Slot > 0
  /\ pUnitLemmaList' = pUnitLemmaList \o unitLemmas[Slot]
  /\ unitLemmas' = [unitLemmas EXCEPT ![Slot] = <<>>]
  /\ nNumForcedInfsBelowCurrentCP' =
       Cardinality({v \in Atoms(arrTempLemma) : OnLevel(v) /\ NotYetPopped(v)})
  /\ nOldBacktrackStackIndex' = arrBacktrackStackIndex[Top.nBranchVble]
  /\ pCurrentState' = Top.state
  /\ arrSmurfPath' = Top.path
  /\ pc' = "pop"
  /\ UNCHANGED <<problem, trailVars, arrChoicePointStack, cache, arrTempLemma,
                 arrLemmaFlag, arrUnsetLemmaFlagVars, nFlipped, nKept, resultVars>>

NowhereToBacktrack ==
  /\ pc = "backjump"
  /\ Slot = 0
  /\ ret' = IF found = {} THEN SOLV_UNSAT ELSE SOLV_SAT
  /\ pc' = "done"
  /\ UNCHANGED <<problem, smurfVars, trailVars, levelVars, cache, lemmaVars, unitVars,
                 found>>

(* LemmaSetWatchedLits: the literals of the highest index, of the popped   *)
(* atom and of the last one still assigned.                                *)
NewLemma(lemma, atom) ==
  LET others == Atoms(lemma) \ {atom}
  IN  [lemma |-> lemma,
       nWatchedVble0 |-> atom,
       nWatchedVble1 |->
         IF others = {} THEN 0
         ELSE CHOOSE v \in others : \A w \in others :
                arrBacktrackStackIndex[w] <= arrBacktrackStackIndex[v]]

(* The literals not resolved out when the atom is popped: what was popped  *)
(* before has no index any more. *)
LiteralsLeft(atom) ==
  {l \in arrTempLemma : arrBacktrackStackIndex[l[1]] <= arrBacktrackStackIndex[atom]}

(* Mutant: the lemma that made the inference is left out. *)
NothingResolved(lemma) == {}

Resolvent(lemma) == {l \in lemma : l[1] \notin arrLemmaFlag}

UniqueImplicationPoint(entry, forced) ==
  entry.bWasChoicePoint \/ forced = 0 \/ entry.atom = Top.nBranchVble

(* Mutant: a new lemma goes to the end of the list. *)
ListedLast(p) == Append(pUnitLemmaList, p)

Listed(p) == <<p>> \o pUnitLemmaList

(* A turn of the backtracking loop. *)
Pop ==
  LET entry   == Last(arrBacktrackStack)
      atom    == entry.atom
      flagged == atom \in arrLemmaFlag
      forced  == nNumForcedInfsBelowCurrentCP - (IF flagged THEN 1 ELSE 0)
      derive  == flagged /\ UniqueImplicationPoint(entry, forced)
      lemma   == IF derive THEN LiteralsLeft(atom) ELSE arrTempLemma
      choice  == atom = Top.nBranchVble
      new     == IF flagged /\ ~choice THEN Resolvent(entry.lemma) ELSE {}
  IN  /\ pc = "pop"
      /\ arrBacktrackStack' = Front(arrBacktrackStack)
      /\ arrBacktrackStackIndex' = [arrBacktrackStackIndex EXCEPT ![atom] = NOT_ON_STACK]
      /\ arrSolution' = [arrSolution EXCEPT ![atom] = BOOL_UNKNOWN]
      /\ arrTempLemma' = lemma \cup new
      /\ arrLemmaFlag' = arrLemmaFlag \cup Atoms(new)
      /\ arrUnsetLemmaFlagVars' = arrUnsetLemmaFlagVars \cup Atoms(arrTempLemma \ lemma)
      /\ nNumForcedInfsBelowCurrentCP' =
           forced + Cardinality({v \in Atoms(new) : OnLevel(v)})
      /\ pUnitLemmaList' = IF derive THEN Listed(NewLemma(lemma, atom)) ELSE pUnitLemmaList
      /\ nFlipped' = IF choice THEN <<atom, NEG(arrSolution[atom])>> ELSE nFlipped
      /\ arrChoicePointStack' = IF choice THEN Front(arrChoicePointStack)
                                          ELSE arrChoicePointStack
      /\ pc' = IF ~choice THEN "pop" ELSE IF flagged THEN "flip" ELSE "backjump"
      /\ UNCHANGED <<problem, smurfVars, unitLemmas, cache, nOldBacktrackStackIndex,
                     nKept, resultVars>>

-----------------------------------------------------------------------------
(* BackTrack: what is inferred afterwards *)

Flip ==
  /\ pc = "flip"
  /\ arrLemmaFlag' = arrLemmaFlag \ (Atoms(arrTempLemma) \cup arrUnsetLemmaFlagVars)
  /\ InferLiterals(<<nFlipped>>, TRUE, <<pUnitLemmaList[1].lemma>>)
  /\ nKept' = 1
  /\ pc' = "unit"
  /\ UNCHANGED <<problem, smurfVars, levelVars, cache, arrTempLemma,
                 arrUnsetLemmaFlagVars, nNumForcedInfsBelowCurrentCP,
                 nOldBacktrackStackIndex, pUnitLemmaList, nFlipped, resultVars>>

NextUnit == pUnitLemmaList[nKept + 1]

(* Mutant: the reversed choice counts as one of the atoms assigned before. *)
UnitAfterFlip(p) == arrBacktrackStackIndex[p.nWatchedVble1]
                      <= arrBacktrackStackIndex[nFlipped[1]]

StillUnit(p) == arrBacktrackStackIndex[p.nWatchedVble1]
                  < arrBacktrackStackIndex[nFlipped[1]]

UnitInfers ==
  LET lit == CHOOSE l \in NextUnit.lemma : l[1] = NextUnit.nWatchedVble0
  IN  /\ pc = "unit"
      /\ nKept < Len(pUnitLemmaList)
      /\ StillUnit(NextUnit)
      /\ InferLiterals(<<lit>>, FALSE, <<NextUnit.lemma>>)
      /\ nKept' = nKept + 1
      /\ UNCHANGED <<problem, smurfVars, levelVars, cache, lemmaVars, pUnitLemmaList,
                     nFlipped, pc, resultVars>>

(* Mutant: the lemma is not taken off the list. *)
SameList == pUnitLemmaList

RestOfList == RemoveAt(pUnitLemmaList, nKept + 1)

UnitToCache ==
  /\ pc = "unit"
  /\ nKept < Len(pUnitLemmaList)
  /\ ~StillUnit(NextUnit)
  /\ pUnitLemmaList' = RestOfList
  /\ cache' = cache \cup {NextUnit.lemma}
  /\ UNCHANGED <<problem, smurfVars, trailVars, levelVars, lemmaVars, nFlipped, nKept,
                 pc, resultVars>>

(* Mutant: the lemmas the level had are lost. *)
OnlyNew(old) == pUnitLemmaList

Joined(old) == old \o pUnitLemmaList

EndBackTrack ==
  /\ pc = "unit"
  /\ nKept = Len(pUnitLemmaList)
  /\ unitLemmas' = [unitLemmas EXCEPT ![Slot] = Joined(@)]
  /\ pUnitLemmaList' = <<>> /\ nFlipped' = <<0, BOOL_FALSE>> /\ nKept' = 0
  /\ arrTempLemma' = {} /\ arrUnsetLemmaFlagVars' = {}
  /\ nNumForcedInfsBelowCurrentCP' = 0 /\ nOldBacktrackStackIndex' = 0
  /\ pc' = "deduce"
  /\ UNCHANGED <<problem, smurfVars, trailVars, arrChoicePointStack, cache,
                 arrLemmaFlag, resultVars>>

Done == pc = "done" /\ UNCHANGED vars

Next ==
  \/ \E f \in Fn, v \in Var : SmurfTransition(f, v)
  \/ \E lemma \in cache : \/ \E lit \in lemma : LemmaInfers(lemma, lit)
                          \/ LemmaConflict(lemma)
                          \/ RemoveFromCache(lemma)
  \/ \E lit \in Literal : SelectNewBranchPoint(lit)
  \/ RecordSolution
  \/ BackJump \/ NowhereToBacktrack \/ Pop
  \/ Flip \/ UnitInfers \/ UnitToCache \/ EndBackTrack
  \/ Done

Spec == Init /\ [][Next]_vars /\ WF_vars(Next)

-----------------------------------------------------------------------------
Models == {m \in Assignment : \A f \in Fn : m \in problem[f]}

S == INSTANCE ModelSearch WITH models <- Models, verdict <- ret,
                               Enough <- FALSE, Interruptible <- FALSE

Lemma == SUBSET Literal
LemmaInfo == [lemma : Lemma, nWatchedVble0 : Var, nWatchedVble1 : 0..NumVars]

TypeOK ==
  /\ problem \in Problems
  /\ pCurrentState \in [Fn -> Function]
  /\ arrSmurfPath \in [Fn -> Lemma]
  /\ arrSolution \in Partial
  /\ \A i \in DOMAIN arrBacktrackStack :
       arrBacktrackStack[i] \in [atom : Var, bWasChoicePoint : BOOLEAN, lemma : Lemma]
  /\ arrBacktrackStackIndex \in [0..NumVars -> 0..NOT_ON_STACK]
  /\ Slot <= NumVars
  /\ \A slot \in 0..NumVars : Range(unitLemmas[slot]) \subseteq LemmaInfo
  /\ cache \subseteq Lemma
  /\ arrTempLemma \in Lemma
  /\ arrLemmaFlag \subseteq Var
  /\ nNumForcedInfsBelowCurrentCP \in 0..NumVars
  /\ pc \in {"deduce", "backjump", "pop", "flip", "unit", "done"}

(* The trail, the assignment and the index of each atom on the trail agree *)
(* in every step of deduction and backtracking.                            *)
TrailExact ==
  \A v \in Var :
    IF arrSolution[v] = BOOL_UNKNOWN THEN arrBacktrackStackIndex[v] = NOT_ON_STACK
    ELSE /\ arrBacktrackStackIndex[v] \in DOMAIN arrBacktrackStack
         /\ arrBacktrackStack[arrBacktrackStackIndex[v]].atom = v

Explained(i) ==
  LET e == arrBacktrackStack[i]
  IN  /\ <<e.atom, arrSolution[e.atom]>> \in e.lemma
      /\ \A l \in e.lemma : l[1] # e.atom =>
           IsFalse(l) /\ arrBacktrackStackIndex[l[1]] < i

Chosen(i) == \E k \in 1..Slot : arrChoicePointStack[k].nBranchVble = arrBacktrackStack[i].atom

(* Each atom on the trail that was not chosen follows from its lemma: the  *)
(* other literals of that are false, and were so before.                   *)
ReasonsRight ==
  /\ TypeOK /\ TrailExact
  /\ \A i \in DOMAIN arrBacktrackStack : Chosen(i) \/ Explained(i)

(* Every lemma there is, in the cache, in the lists of unit lemmas, on the *)
(* trail or just being derived, holds in every model not reported yet.     *)
LemmasImplied ==
  LET infos == Range(pUnitLemmaList)
                 \cup UNION {Range(unitLemmas[slot]) : slot \in 0..NumVars}
      held  == {p.lemma : p \in infos} \cup cache
                 \cup {arrBacktrackStack[i].lemma : i \in DOMAIN arrBacktrackStack}
      left  == Models \ found
  IN  \A lemma \in held \ {NO_LEMMA} :
        \A m \in left : \E l \in lemma : m[l[1]] = l[2]

(* The count by which BackTrack recognises a unique implication point is   *)
(* that of the flagged atoms still to be popped on the level, and no flag   *)
(* is left for the next conflict to take for one of its own.               *)
FlagsExact ==
  /\ pc = "pop" =>
       nNumForcedInfsBelowCurrentCP =
         Cardinality({v \in arrLemmaFlag :
                        arrBacktrackStackIndex[v] \in arrBacktrackStackIndex[Top.nBranchVble]
                                                      ..Len(arrBacktrackStack)})
  /\ pc \in {"deduce", "unit"} => arrLemmaFlag = {}

(* The lemmas in the list of a slot are those that made an inference on    *)
(* its level when it was backtracked to, each its own, and among them are  *)
(* those that reversed a choice: none is lost that a later BackTrack has to *)
(* put in the cache.                                                       *)
UnitLemmasInUse ==
  pc = "deduce" =>
    /\ \A i \in DOMAIN arrBacktrackStack : arrBacktrackStack[i].bWasChoicePoint =>
         \E slot \in 0..Slot : \E p \in Range(unitLemmas[slot]) :
           p.lemma = arrBacktrackStack[i].lemma
    /\ \A slot \in 0..NumVars :
      /\ slot > Slot => unitLemmas[slot] = <<>>
      /\ \A i \in DOMAIN unitLemmas[slot] :
           LET p == unitLemmas[slot][i]
               k == arrBacktrackStackIndex[p.nWatchedVble0]
           IN  /\ k \in DOMAIN arrBacktrackStack
               /\ arrBacktrackStack[k].lemma = p.lemma
               /\ \A j \in DOMAIN unitLemmas[slot] :
                    unitLemmas[slot][j].nWatchedVble0 = p.nWatchedVble0 => i = j

(* As the comment in BackTrack has it, no two unit lemmas apply the same   *)
(* inference: each infers an atom that is still unknown.                   *)
InfersUnknown ==
  [][/\ UnitInfers => arrSolution[NextUnit.nWatchedVble0] = BOOL_UNKNOWN
     /\ Flip => pUnitLemmaList[1].nWatchedVble0 = nFlipped[1]]_vars

(* A backjump skips no model: with its lemma the search still implements   *)
(* ModelSearch ... *)
FindsModels == S!Spec

(* ... and ends. *)
Terminates == <>(pc = "done")
=============================================================================
