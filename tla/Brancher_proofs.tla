--------------------------- MODULE Brancher_proofs ---------------------------
(***************************************************************************)
(* Theorems about the search without lemmas, for any number of variables,  *)
(* any functions of them, any priorities and any limits.                   *)
(*                                                                         *)
(* First the inductive invariant and the steps of a deduction, then the    *)
(* steps of the search (choices, backtracking, results) and the theorems.  *)
(***************************************************************************)
EXTENDS Brancher, BoolFn_proofs, SequenceTheorems, FiniteSetTheorems

FSP == INSTANCE FnStack_proofs WITH State <- Function,
         BlankState <- false_ptr, MaxVersion <- NumVars + 1

(* The states of the functions, as if a pop that has begun had ended, and  *)
(* the states they had when the open levels began.                         *)
Current  == FSP!SpecCurrent
Snapshot == FSP!SpecSnapshot
Levels   == FSP!OpenLevels

Open(st) == {f \in Fn : st[f] # true_ptr}

Depth == Len(arrChoicePointStack)

ChoiceVar(j) == arrChoicePointStack[j].var

Trail == [i \in DOMAIN arrBacktrackStack |-> arrBacktrackStack[i].var]

Known == {v \in Var : arrSolution[v] # BOOL_UNKNOWN}

(* The variables that were assigned before v. *)
Before(v) ==
  {Trail[i] : i \in {k \in DOMAIN arrBacktrackStack : \A h \in 1..k : Trail[h] # v}}

SolutionBefore(v) ==
  [w \in Var |-> IF w \in Before(v) THEN arrSolution[w] ELSE BOOL_UNKNOWN]

(* s is what is left of F under p, but for variables of p that s has not   *)
(* followed yet. *)
Follows(s, F, p) ==
  /\ s \in Function /\ Normalized(s)
  /\ Vbles(s) \subseteq Vbles(F)
  /\ \A m \in Cube(p) : m \in s <=> m \in F

-----------------------------------------------------------------------------
(* The inductive invariant. *)

StackOk == FSP!IInv /\ (popping <=> pc = "pop")

(* The function under update is the first of the list it was taken from,   *)
(* and stays marked until its update ends. *)
WhereOk ==
  /\ pc \in {"smurf", "check"} => curFn \in Fn
  /\ curFn \in Fn => /\ pc \in {"smurf", "check", "infer"}
                     /\ arrChangedFn[curFn] = 3
                     /\ curPriority = FnPriority[curFn]
                     /\ arrFnInfPriority[curPriority] # <<>>
                     /\ Head(arrFnInfPriority[curPriority]) = curFn

(* Lists below the one looked at are empty, which is why deduction is      *)
(* complete when the last one is. *)
WaitOk ==
  /\ pc = "update" \/ curFn \in Fn =>
       \A p \in 0..MAX_FN_PRIORITY - 1 :
         p < nLastFnInfPriority => arrFnInfPriority[p] = <<>>
  /\ pc = "deduced" => \A p \in 0..MAX_FN_PRIORITY - 1 : arrFnInfPriority[p] = <<>>

QueueOk ==
  pc # "pop" =>
    /\ IsInjective(arrFnInferenceQueue)
    /\ \A f \in Fn : f \in ToSet(arrFnInferenceQueue) <=> arrChangedFn[f] # 0

ListOk(p) ==
  /\ IsInjective(arrFnInfPriority[p])
  /\ ToSet(arrFnInfPriority[p]) = {f \in Fn : arrChangedFn[f] = 3 /\ FnPriority[f] = p}

ListsOk == pc # "pop" => \A p \in 0..MAX_FN_PRIORITY - 1 : ListOk(p)

TrailOk ==
  /\ IsInjective(Trail)
  /\ ToSet(Trail) = Known
  /\ pc # "pop" => IsSuffix(arrInferenceQueue, Trail)

(* Before a literal is assigned, all functions it affects are on a list.   *)
InferOk ==
  /\ pc \in {"infer", "pop"} => arrSolution[inferring.var] = BOOL_UNKNOWN
  /\ pc = "infer" =>
       \A f \in AFS(inferring.var) : f \in affected \/ arrChangedFn[f] = 3

(* Choice points are older than those above them; the newest may be about  *)
(* to be assigned. *)
ChoicesOk ==
  /\ \A j, k \in 1..Depth : j < k => ChoiceVar(j) \in Before(ChoiceVar(k))
  /\ \A j \in 1..Depth :
       \/ ChoiceVar(j) \in Known
       \/ pc = "infer" /\ curFn = NoFn /\ ChoiceVar(j) = inferring.var

(* Versions are bounded by the number of assigned variables: a level that  *)
(* is closed leaves its version behind, but also the reversed choice.      *)
VersionOk ==
  /\ pc # "pop" =>
       nCurFnVersion <= (1 + Cardinality(Known))
                          + (IF pc = "infer" /\ curFn = NoFn THEN 1 ELSE 0)
  /\ pc = "pop" =>
       arrFnStack[FSP!TopMark].prev_version <= 2 + Cardinality(Known)

StatesOk ==
  \A f \in Fn : /\ Follows(Current[f], problem[f], arrSolution)
                /\ arrChangedFn[f] # 3 \/ pc = "pop" => Settled(Current[f], arrSolution)

(* What is left to infer of the transition under way. *)
ToInfer == toCheck \cup (IF pc = "infer" THEN {<<inferring.var, inferring.val>>} ELSE {})

(* The transition is right for the assignments that satisfy its inferences,*)
(* and no others satisfy the function; a transition to false will find its *)
(* conflict. *)
CheckOk ==
  pc \in {"check", "infer"} /\ curFn \in Fn =>
    /\ fnState[curFn] # true_ptr
    /\ \A m \in Cube(arrSolution) :
         /\ Satisfies(m, ToInfer) => (m \in problem[curFn] <=> m \in nextState)
         /\ m \in problem[curFn] => Satisfies(m, ToInfer)
    /\ Vbles(nextState) \subseteq Vbles(problem[curFn])
    /\ nextState # false_ptr => Normalized(nextState)
    /\ nextState = false_ptr => \E v \in Known : <<v, 1 - arrSolution[v]>> \in toCheck

CountOk == nNumUnresolvedFunctions = Cardinality(Open(Current))

(* The level l of choice point j. *)
LevelOk(j, l) ==
  /\ \A f \in Fn :
       /\ Follows(Snapshot[l][f], problem[f], SolutionBefore(ChoiceVar(j)))
       /\ Settled(Snapshot[l][f], SolutionBefore(ChoiceVar(j)))
  /\ arrChoicePointStack[j].nNumUnresolved = Cardinality(Open(Snapshot[l]))
  /\ arrFnStack[l].prev_version <= 2 + Cardinality(Before(ChoiceVar(j)))

(* The open levels are those of the choice points, in their order.         *)
InOrder(lev) ==
  /\ \A j, k \in 1..Depth : j < k => lev[j] < lev[k]
  /\ \A l \in Levels : \E j \in 1..Depth : lev[j] = l

LevelsOk ==
  \E lev \in [1..Depth -> Levels] : InOrder(lev) /\ \A j \in 1..Depth : LevelOk(j, lev[j])

ChosenValue(v) == IF arrSolution[v] = BOOL_UNKNOWN THEN inferring.val ELSE arrSolution[v]

(* The assignments the search has yet to look at: those of the current     *)
(* branch ... *)
Here == {m \in Cube(arrSolution) : /\ pc \notin {"backtrack", "finish", "done"}
                                   /\ pc \in {"infer", "pop"} =>
                                        m[inferring.var] = inferring.val}

(* ... and the other branch of every choice. *)
OtherBranch(v) == {m \in Cube(SolutionBefore(v)) : m[v] # ChosenValue(v)}

Chosen == {ChoiceVar(j) : j \in 1..Depth}

Later == {m \in Assignment : \E v \in Chosen : m \in OtherBranch(v)}

SearchOk ==
  /\ Found \subseteq Models
  /\ \A m \in Found : m \notin Here /\ m \notin Later
  /\ pc \notin {"finish", "done"} =>
       \A m \in Models : m \in Found \/ m \in Here \/ m \in Later

VerdictOk ==
  /\ pc # "done" => ret = SOLV_UNKNOWN
  /\ errLimits => Limits
  /\ pc = "finish" => \/ errLimits
                      \/ Found = Models
                      \/ MaxSolutions # 0 /\ solutions # <<>>

IInv ==
  /\ TypeOK
  /\ StackOk /\ WhereOk /\ WaitOk /\ QueueOk /\ ListsOk
  /\ TrailOk /\ InferOk /\ ChoicesOk /\ VersionOk
  /\ StatesOk /\ CheckOk /\ CountOk /\ LevelsOk
  /\ SearchOk /\ VerdictOk

-----------------------------------------------------------------------------
(* The function stack. *)

(* What a step keeps that neither opens nor closes a level. *)
StackKept ==
  /\ Current' = Current /\ Snapshot' = Snapshot /\ Levels' = Levels
  /\ \A l \in Levels : arrFnStack'[l] = arrFnStack[l]

LEMMA StackAssumptions == Fn \subseteq Nat /\ false_ptr \in Function /\ NumVars + 1 \in Nat
BY FnAssumption, NumVarsAssumption DEF false_ptr, Function

LEMMA LevelsAreSnapshots == Levels = DOMAIN Snapshot
BY DEF Levels, Snapshot, FSP!SpecSnapshot

LEMMA LevelsArePositions ==
  ASSUME FSP!IInv
  PROVE  /\ Len(arrFnStack) \in Nat /\ Levels \subseteq 1..Len(arrFnStack)
         /\ Levels \subseteq Nat
BY FSP!MarksAreNat, StackAssumptions DEF Levels, FSP!OpenLevels, FSP!IInv

LEMMA StackUnchanged ==
  ASSUME FSP!IInv, UNCHANGED stackVars
  PROVE  FSP!IInv' /\ StackKept
<1>1. FSP!IInv'
  <2>1. [FSP!Next]_(FSP!vars)
    BY DEF stackVars, FSP!vars
  <2> QED
    BY <2>1, FSP!NextInv, StackAssumptions
<1>2. UNCHANGED <<fnState, arrFnStack, popping>>
  BY DEF stackVars
<1>3. Current' = Current /\ Snapshot' = Snapshot
  BY <1>2, FSP!SameStateAt, FSP!Stutters, StackAssumptions DEF Current, Snapshot
<1> QED
  BY <1>1, <1>2, <1>3, LevelsAreSnapshots DEF StackKept, Levels, FSP!OpenLevels, FSP!SpecSnapshot, Snapshot

LEMMA FunctionTouched ==
  ASSUME FSP!IInv, NEW f \in Fn, FSP!MarkAffected(f)
  PROVE  FSP!IInv' /\ StackKept
<1>1. FSP!IInv'
  <2>1. FSP!Next
    BY DEF FSP!Next
  <2> QED
    BY <2>1, FSP!NextInv, StackAssumptions
<1>2. Current' = Current /\ Snapshot' = Snapshot
  BY FSP!MarkAffectedRefines, StackAssumptions DEF Current, Snapshot
<1>3. \A l \in 1..Len(arrFnStack) : arrFnStack'[l] = arrFnStack[l]
  BY DEF FSP!MarkAffected, FSP!FnStackPush, FSP!Push, FSP!IInv, FSP!TypeOK
<1>4. Levels' = Levels
  BY <1>2 DEF Levels, Snapshot, FSP!SpecSnapshot
<1> QED
  BY <1>1, <1>2, <1>3, <1>4, LevelsArePositions DEF StackKept

LEMMA FunctionMoved ==
  ASSUME FSP!IInv, NEW f \in Fn, NEW s \in Function, FSP!ChangeState(f, s)
  PROVE  /\ FSP!IInv' /\ Current' = [Current EXCEPT ![f] = s]
         /\ Snapshot' = Snapshot /\ Levels' = Levels /\ arrFnStack' = arrFnStack
<1>1. FSP!IInv'
  <2>1. FSP!Next
    BY DEF FSP!Next
  <2> QED
    BY <2>1, FSP!NextInv, StackAssumptions
<1>2. Current' = [Current EXCEPT ![f] = s] /\ Snapshot' = Snapshot
  BY FSP!ChangeStateModifies, StackAssumptions DEF Current, Snapshot
<1>3. Levels' = Levels /\ arrFnStack' = arrFnStack
  BY <1>2 DEF Levels, Snapshot, FSP!SpecSnapshot, FSP!ChangeState
<1> QED
  BY <1>1, <1>2, <1>3

LEMMA FunctionUpdated ==
  ASSUME FSP!IInv, NEW f \in Fn, FSP!EndUpdate(f)
  PROVE  FSP!IInv' /\ StackKept
<1>1. FSP!IInv'
  <2>1. FSP!Next
    BY DEF FSP!Next
  <2> QED
    BY <2>1, FSP!NextInv, StackAssumptions
<1>2. UNCHANGED <<fnState, arrFnStack, popping>>
  BY DEF FSP!EndUpdate
<1>3. Current' = Current /\ Snapshot' = Snapshot
  BY <1>2, FSP!SameStateAt, FSP!Stutters, StackAssumptions DEF Current, Snapshot
<1> QED
  BY <1>1, <1>2, <1>3 DEF StackKept, Levels, Snapshot, FSP!SpecSnapshot

LEMMA FunctionRestored ==
  ASSUME FSP!IInv, FSP!PopFunction
  PROVE  FSP!IInv' /\ StackKept /\ FSP!TopMark' = FSP!TopMark
         /\ arrFnStack'[FSP!TopMark] = arrFnStack[FSP!TopMark]
<1>1. FSP!IInv'
  <2>1. FSP!Next
    BY DEF FSP!Next, FSP!PopStep
  <2> QED
    BY <2>1, FSP!NextInv, StackAssumptions
<1>2. Current' = Current /\ Snapshot' = Snapshot
  BY FSP!PopFunctionRefines, StackAssumptions DEF Current, Snapshot
<1>3. Levels' = Levels
  BY <1>2 DEF Levels, Snapshot, FSP!SpecSnapshot
<1>4. /\ FSP!TopMark \in FSP!Marks /\ FSP!TopMark' = FSP!TopMark
      /\ \A l \in FSP!Marks : arrFnStack'[l] = arrFnStack[l]
  BY FSP!PopFunctionKeeps, StackAssumptions
<1> QED
  BY <1>1, <1>2, <1>3, <1>4 DEF StackKept, Levels, FSP!OpenLevels

(* When a pop has ended no function is marked. *)
LEMMA LevelPopped ==
  ASSUME FSP!IInv, FSP!PopLevelStart
  PROVE  /\ FSP!IInv' /\ StackKept
         /\ nCurFnVersion' = arrFnStack[FSP!TopMark].prev_version
         /\ \A f \in Fn : arrChangedFn'[f] = 0
<1>1. FSP!IInv'
  <2>1. FSP!Next
    BY DEF FSP!Next, FSP!PopStep
  <2> QED
    BY <2>1, FSP!NextInv, StackAssumptions
<1>2. Current' = Current /\ Snapshot' = Snapshot
  BY FSP!PopLevelStartRefines, StackAssumptions DEF Current, Snapshot
<1>3. Levels' = Levels
  BY <1>2 DEF Levels, Snapshot, FSP!SpecSnapshot
<1>4. /\ nCurFnVersion' = arrFnStack[FSP!TopMark].prev_version
      /\ \A l \in FSP!Marks' : arrFnStack'[l] = arrFnStack[l]
      /\ \A f \in Fn : arrChangedFn'[f] = 0
  BY FSP!PopLevelStartKeeps, StackAssumptions
<1>5. Levels' = FSP!Marks'
  BY DEF Levels, FSP!OpenLevels, FSP!PopLevelStart
<1> QED
  BY <1>1, <1>2, <1>3, <1>4, <1>5 DEF StackKept

LEMMA LevelOpened ==
  ASSUME FSP!IInv, FSP!FnStackPushFunctionLevel,
         NEW n \in Nat, n = Len(arrFnStack) + 1
  PROVE  /\ FSP!IInv' /\ Current' = Current
         /\ Levels \subseteq Nat /\ \A l \in Levels : l < n
         /\ Levels' = Levels \cup {n}
         /\ Snapshot' = [l \in Levels \cup {n} |-> IF l = n THEN Current ELSE Snapshot[l]]
         /\ \A l \in Levels : arrFnStack'[l] = arrFnStack[l]
         /\ arrFnStack'[n].prev_version = nCurFnVersion'
<1>1. FSP!IInv'
  <2>1. FSP!Next
    BY DEF FSP!Next
  <2> QED
    BY <2>1, FSP!NextInv, StackAssumptions
<1>2. /\ Current' = Current
      /\ Levels \subseteq Nat /\ \A l \in Levels : l < n
      /\ Levels' = Levels \cup {n}
      /\ Snapshot' = [l \in Levels \cup {n} |-> IF l = n THEN Current ELSE Snapshot[l]]
  BY FSP!PushLevelOpens, StackAssumptions DEF Current, Snapshot, Levels
<1>3. /\ \A l \in 1..Len(arrFnStack) : arrFnStack'[l] = arrFnStack[l]
      /\ arrFnStack'[n].prev_version = nCurFnVersion'
  BY DEF FSP!FnStackPushFunctionLevel, FSP!Push, FSP!Mark, FSP!IInv, FSP!TypeOK
<1> QED
  BY <1>1, <1>2, <1>3, LevelsArePositions

LEMMA LevelClosed ==
  ASSUME FSP!IInv, FSP!StartPop
  PROVE  /\ FSP!IInv'
         /\ FSP!TopMark \in Levels /\ \A l \in Levels : l <= FSP!TopMark
         /\ FSP!TopMark' = FSP!TopMark
         /\ Levels \subseteq Nat /\ Levels' = Levels \ {FSP!TopMark}
         /\ Current' = Snapshot[FSP!TopMark]
         /\ Snapshot' = [l \in Levels \ {FSP!TopMark} |-> Snapshot[l]]
<1>1. FSP!IInv'
  <2>1. FSP!Next
    BY DEF FSP!Next
  <2> QED
    BY <2>1, FSP!NextInv, StackAssumptions
<1> QED
  BY <1>1, FSP!StartPopCloses, StackAssumptions DEF Current, Snapshot, Levels

-----------------------------------------------------------------------------
(* What steps keep that do not touch a branch. *)

Plain   == PCs \ {"infer", "pop"}
Running == {"deduce", "update", "smurf", "check", "deduced"}

SamePlace == (pc' = pc /\ curFn' = curFn) \/ (pc \in Plain /\ pc' \in Plain)

LEMMA BeforeKept ==
  ASSUME UNCHANGED <<arrSolution, arrBacktrackStack>>
  PROVE  /\ Trail' = Trail /\ Known' = Known
         /\ \A v : Before(v)' = Before(v) /\ SolutionBefore(v)' = SolutionBefore(v)
<1>1. Trail' = Trail /\ Known' = Known
  BY DEF Trail, Known
<1>2. \A v : Before(v)' = Before(v)
  BY <1>1 DEF Before
<1> QED
  BY <1>1, <1>2 DEF SolutionBefore

LEMMA SameChoice ==
  ASSUME NEW j, NEW v, ChoiceVar(j)' = v
  PROVE  /\ Before(ChoiceVar(j))' = Before(v)'
         /\ SolutionBefore(ChoiceVar(j))' = SolutionBefore(v)'
<1>1. Before(ChoiceVar(j))' = Before(v)'
  BY DEF Before, Trail
<1> QED
  BY <1>1 DEF SolutionBefore

(* Levels stay right as long as what was assigned before their choices does. *)
LEMMA LevelsStay ==
  ASSUME LevelsOk, UNCHANGED <<problem, arrChoicePointStack>>,
         \A j \in 1..Depth : /\ Before(ChoiceVar(j))' = Before(ChoiceVar(j))
                             /\ SolutionBefore(ChoiceVar(j))' = SolutionBefore(ChoiceVar(j)),
         Snapshot' = Snapshot, Levels' = Levels,
         \A l \in Levels : arrFnStack'[l] = arrFnStack[l]
  PROVE  LevelsOk'
<1>1. PICK lev \in [1..Depth -> Levels] :
        InOrder(lev) /\ \A j \in 1..Depth : LevelOk(j, lev[j])
  BY DEF LevelsOk
<1>2. Depth' = Depth /\ \A j : ChoiceVar(j)' = ChoiceVar(j)
  BY DEF Depth, ChoiceVar
<1>3. InOrder(lev)'
  BY <1>1, <1>2 DEF InOrder
<1>4. ASSUME NEW j \in 1..Depth PROVE LevelOk(j, lev[j])'
  <2>1. LevelOk(j, lev[j]) /\ lev[j] \in Levels
    BY <1>1
  <2>2. Open(Snapshot[lev[j]])' = Open(Snapshot[lev[j]])
    BY DEF Open
  <2> QED
    BY <1>2, <2>1, <2>2 DEF LevelOk, ChoiceVar
<1> QED
  BY <1>1, <1>2, <1>3, <1>4 DEF LevelsOk

LEMMA LevelsKept ==
  ASSUME LevelsOk, UNCHANGED <<problem, trailVars>>,
         Snapshot' = Snapshot, Levels' = Levels,
         \A l \in Levels : arrFnStack'[l] = arrFnStack[l]
  PROVE  LevelsOk'
<1>1. UNCHANGED <<problem, arrSolution, arrBacktrackStack, arrChoicePointStack>>
  BY DEF trailVars
<1>2. \A j : ChoiceVar(j)' = ChoiceVar(j)
  BY <1>1 DEF ChoiceVar
<1>3. \A j \in 1..Depth : /\ Before(ChoiceVar(j))' = Before(ChoiceVar(j))
                          /\ SolutionBefore(ChoiceVar(j))' = SolutionBefore(ChoiceVar(j))
  BY <1>1, <1>2, BeforeKept DEF SolutionBefore, Before
<1> QED
  BY <1>1, <1>3, LevelsStay

LEMMA BranchKept ==
  ASSUME TrailOk, ChoicesOk, VersionOk, CountOk, LevelsOk, StackKept, SamePlace,
         UNCHANGED <<problem, trailVars, nCurFnVersion, nNumUnresolvedFunctions,
                     inferring, arrInferenceQueue>>,
         pc = "pop" => /\ FSP!TopMark' = FSP!TopMark
                       /\ arrFnStack'[FSP!TopMark] = arrFnStack[FSP!TopMark]
  PROVE  TrailOk' /\ ChoicesOk' /\ VersionOk' /\ CountOk' /\ LevelsOk'
<1>1. UNCHANGED <<problem, arrSolution, arrBacktrackStack, arrChoicePointStack>>
  BY DEF trailVars
<1>2. /\ Trail' = Trail /\ Known' = Known
      /\ \A v : Before(v)' = Before(v)
  BY <1>1, BeforeKept
<1>3. pc' = "pop" <=> pc = "pop"
  BY DEF SamePlace, Plain
<1>4. (pc' = "infer" /\ curFn' = NoFn) <=> (pc = "infer" /\ curFn = NoFn)
  BY DEF SamePlace, Plain
<1>5. TrailOk'
  BY <1>2, <1>3 DEF TrailOk
<1>6. ChoicesOk'
  <2>1. Depth' = Depth /\ \A j : ChoiceVar(j)' = ChoiceVar(j)
    BY <1>1 DEF Depth, ChoiceVar
  <2>2. \A j, k \in 1..Depth : Before(ChoiceVar(k))' = Before(ChoiceVar(k))
    BY <1>1, <2>1, BeforeKept DEF Before
  <2> QED
    BY <1>2, <1>4, <2>1, <2>2 DEF ChoicesOk
<1>7. VersionOk'
  BY <1>2, <1>3, <1>4 DEF VersionOk
<1>8. CountOk'
  BY DEF CountOk, StackKept, Open
<1>9. LevelsOk'
  BY LevelsKept DEF StackKept
<1> QED
  BY <1>5, <1>6, <1>7, <1>8, <1>9

LEMMA StatesKept ==
  ASSUME StatesOk, Current' = Current, pc' = "pop" <=> pc = "pop",
         UNCHANGED <<problem, arrSolution, arrChangedFn>>
  PROVE  StatesOk'
BY DEF StatesOk, Follows

LEMMA LaterKept ==
  ASSUME UNCHANGED <<trailVars, inferring>>
  PROVE  Later' = Later
<1>1. UNCHANGED <<arrSolution, arrBacktrackStack, arrChoicePointStack>>
  BY DEF trailVars
<1>2. \A v : OtherBranch(v)' = OtherBranch(v)
  BY <1>1, BeforeKept DEF OtherBranch, ChosenValue
<1>3. Chosen' = Chosen
  BY <1>1 DEF Chosen, Depth, ChoiceVar
<1> QED
  BY <1>2, <1>3 DEF Later

LEMMA SearchKept ==
  ASSUME SearchOk, UNCHANGED <<problem, trailVars, inferring, solutions>>,
         pc' = pc \/ (pc \in Running /\ pc' \in Running)
  PROVE  SearchOk'
<1>1. UNCHANGED <<problem, arrSolution, arrBacktrackStack, arrChoicePointStack>>
  BY DEF trailVars
<1>2. Models' = Models /\ Found' = Found
  BY DEF Models, Found
<1>3. Here' = Here
  BY <1>1 DEF Here, Running
<1>4. Later' = Later
  BY LaterKept
<1> QED
  BY <1>2, <1>3, <1>4 DEF SearchOk, Running

LEMMA VerdictKept ==
  ASSUME VerdictOk, pc # "done", pc' \notin {"finish", "done"},
         UNCHANGED <<problem, solutions, errLimits, ret>>
  PROVE  VerdictOk'
BY DEF VerdictOk

LEMMA ListsKept ==
  ASSUME QueueOk, ListsOk, pc' = "pop" <=> pc = "pop",
         UNCHANGED <<arrFnInferenceQueue, arrFnInfPriority, arrChangedFn>>
  PROVE  QueueOk' /\ ListsOk'
BY DEF QueueOk, ListsOk, ListOk

-----------------------------------------------------------------------------
(* The loops of ITE_Deduce and UpdateEachAffectedFunction. *)

LEMMA PriorityType ==
  /\ MAX_FN_PRIORITY = 3
  /\ \A f \in Fn : FnPriority[f] \in 0..MAX_FN_PRIORITY - 1
BY PriorityAssumption DEF MAX_FN_PRIORITY

(* A step of the loops that changes neither states nor lists nor branch. *)
LEMMA LoopStep ==
  ASSUME IInv, pc \in Running, pc' \in Running,
         UNCHANGED <<problem, stackVars, trailVars, nNumUnresolvedFunctions,
                     arrInferenceQueue, arrFnInferenceQueue, arrFnInfPriority,
                     inferVars, resultVars>>,
         TypeOK', WhereOk', WaitOk', CheckOk'
  PROVE  IInv'
<1>1. UNCHANGED <<arrChangedFn, popping, nCurFnVersion, arrSolution, inferring,
                  solutions, errLimits, ret>>
  BY DEF stackVars, trailVars, inferVars, resultVars
<1>2. /\ pc # "pop" /\ pc' # "pop" /\ pc # "done" /\ pc' \notin {"infer", "finish", "done"}
      /\ SamePlace
  BY DEF Running, SamePlace, Plain, PCs
<1>3. FSP!IInv' /\ StackKept
  BY StackUnchanged DEF IInv, StackOk
<1>4. StackOk'
  BY <1>1, <1>2, <1>3 DEF IInv, StackOk
<1>5. TrailOk' /\ ChoicesOk' /\ VersionOk' /\ CountOk' /\ LevelsOk'
  BY <1>1, <1>2, <1>3, BranchKept DEF IInv
<1>6. StatesOk'
  BY <1>1, <1>2, <1>3, StatesKept DEF IInv, StackKept
<1>7. QueueOk' /\ ListsOk'
  BY <1>1, <1>2, ListsKept DEF IInv
<1>8. InferOk'
  BY <1>2 DEF InferOk
<1>9. SearchOk' /\ VerdictOk'
  BY <1>1, <1>2, SearchKept, VerdictKept DEF IInv
<1> QED
  BY <1>4, <1>5, <1>6, <1>7, <1>8, <1>9 DEF IInv

LEMMA DeduceInv == ASSUME IInv, Deduce PROVE IInv'
<1>1. TypeOK'
  BY DEF IInv, TypeOK, Deduce, stackVars, trailVars, inferVars, resultVars,
         MAX_FN_PRIORITY, PCs, QueueNonempty
<1>2. WhereOk' /\ WaitOk' /\ CheckOk'
  BY DEF IInv, TypeOK, WhereOk, WaitOk, CheckOk, Deduce, MAX_FN_PRIORITY
<1> QED
  BY <1>1, <1>2, LoopStep DEF Deduce, Running

LEMMA NextPriorityInv == ASSUME IInv, NextPriority PROVE IInv'
<1>1. TypeOK'
  <2>1. nLastFnInfPriority' \in 0..MAX_FN_PRIORITY
    <3>1. nLastFnInfPriority \in 0..MAX_FN_PRIORITY /\ maxPriority <= MAX_FN_PRIORITY
          /\ maxPriority \in Int
      BY DEF IInv, TypeOK, MAX_FN_PRIORITY
    <3> QED
      BY <3>1 DEF NextPriority, MAX_FN_PRIORITY
  <2>2. pc' \in PCs
    BY DEF IInv, TypeOK, NextPriority, AfterUpdate, PCs
  <2> QED
    BY <2>1, <2>2 DEF IInv, TypeOK, NextPriority, stackVars, trailVars, updateVars,
           inferVars, resultVars
<1>2. pc' \in {"update", "deduce", "deduced"} /\ curFn' = curFn /\ curFn \notin Fn
  BY DEF IInv, NextPriority, AfterUpdate, updateVars, WhereOk
<1>3. WhereOk' /\ CheckOk'
  BY <1>2 DEF WhereOk, CheckOk
<1>4. WaitOk'
  <2>1. /\ \A p \in 0..MAX_FN_PRIORITY - 1 :
             p < nLastFnInfPriority => arrFnInfPriority[p] = <<>>
        /\ nLastFnInfPriority \in 0..MAX_FN_PRIORITY
        /\ arrFnInfPriority' = arrFnInfPriority
        /\ maxPriority \in {0, MAX_FN_PRIORITY - 1, MAX_FN_PRIORITY}
    BY DEF IInv, TypeOK, WaitOk, NextPriority
  <2>2. CASE nLastFnInfPriority < maxPriority
    <3>1. arrFnInfPriority[nLastFnInfPriority] = <<>> /\ pc' = "update"
          /\ nLastFnInfPriority' = nLastFnInfPriority + 1
      BY <2>2 DEF NextPriority
    <3> QED
      BY <2>1, <3>1 DEF WaitOk, MAX_FN_PRIORITY
  <2>3. CASE ~(nLastFnInfPriority < maxPriority)
    <3>1. pc' # "update" /\ pc' = "deduced" => maxPriority = MAX_FN_PRIORITY
      BY <2>3 DEF NextPriority, AfterUpdate
    <3> QED
      BY <1>2, <2>1, <2>3, <3>1 DEF WaitOk, MAX_FN_PRIORITY, NextPriority, AfterUpdate
  <2> QED
    BY <2>2, <2>3
<1> QED
  BY <1>1, <1>2, <1>3, <1>4, LoopStep DEF NextPriority, Running

LEMMA StartUpdateInv == ASSUME IInv, StartUpdate PROVE IInv'
<1>1. /\ nLastFnInfPriority \in 0..MAX_FN_PRIORITY - 1
      /\ arrFnInfPriority[nLastFnInfPriority] \in Seq(Fn)
      /\ arrFnInfPriority[nLastFnInfPriority] # <<>>
  BY DEF IInv, TypeOK, StartUpdate, MAX_FN_PRIORITY
<1>2. PICK f \in Fn : f = Head(arrFnInfPriority[nLastFnInfPriority])
                      /\ f \in ToSet(arrFnInfPriority[nLastFnInfPriority])
  BY <1>1 DEF ToSet
<1>3. curFn' = f /\ curPriority' = nLastFnInfPriority /\ pc' = "smurf"
      /\ UNCHANGED <<arrChangedFn, arrFnInfPriority, nLastFnInfPriority>>
  BY <1>2 DEF StartUpdate, stackVars, queueVars
<1>4. TypeOK'
  BY <1>1, <1>3 DEF IInv, TypeOK, StartUpdate, stackVars, trailVars, queueVars,
         inferVars, resultVars, MAX_FN_PRIORITY, PCs
<1>5. arrChangedFn[f] = 3 /\ FnPriority[f] = nLastFnInfPriority
  BY <1>1, <1>2 DEF IInv, ListsOk, ListOk, StartUpdate
<1>6. WhereOk'
  BY <1>1, <1>2, <1>3, <1>5 DEF WhereOk
<1>7. WaitOk'
  BY <1>3 DEF IInv, WaitOk, StartUpdate
<1>8. CheckOk'
  BY <1>3 DEF CheckOk
<1> QED
  BY <1>4, <1>6, <1>7, <1>8, LoopStep DEF StartUpdate, Running, queueVars

-----------------------------------------------------------------------------
(* UpdateRegularSmurf *)

(* The highest instantiated variable exists. *)
LEMMA GreatestVariable ==
  ASSUME NEW T, T \subseteq Var, T # {}
  PROVE  /\ (CHOOSE w \in T : \A u \in T : u <= w) \in T
         /\ \A u \in T : u <= (CHOOSE w \in T : \A u_1 \in T : u_1 <= w)
<1> DEFINE U == {NumVars - v : v \in T}
<1>1. \A v \in T : v \in 1..NumVars /\ NumVars - v \in Nat /\ NumVars \in Nat
  BY NumVarsAssumption DEF Var
<1>2. U \subseteq Nat /\ U # {}
  BY <1>1
<1>3. \E k \in U : \A j \in U : k <= j
  <2> HIDE DEF U
  <2> QED
    BY <1>2, LeastNumber
<1>4. PICK w \in T : \A j \in U : NumVars - w <= j
  BY <1>3
<1>5. \A u \in T : u <= w
  <2> SUFFICES ASSUME NEW u \in T PROVE u <= w
    OBVIOUS
  <2>1. NumVars - w <= NumVars - u
    BY <1>4
  <2> QED
    BY <1>1, <2>1
<1> QED
  BY <1>5

(* The function that is being updated, before a transition of it ends.     *)
LEMMA UpdatedFunction ==
  ASSUME IInv, pc \in {"smurf", "check"}
  PROVE  /\ curFn \in Fn /\ arrChangedFn[curFn] = 3 /\ ~popping
         /\ Current = fnState /\ fnState \in [Fn -> Function]
         /\ problem \in [Fn -> Function]
         /\ Follows(fnState[curFn], problem[curFn], arrSolution)
<1>1. curFn \in Fn /\ arrChangedFn[curFn] = 3 /\ ~popping
  BY DEF IInv, WhereOk, StackOk
<1>2. fnState \in [Fn -> Function] /\ problem \in [Fn -> Function]
  BY ProblemsAssumption DEF IInv, TypeOK
<1>3. Current = fnState
  BY <1>1, <1>2 DEF Current, FSP!SpecCurrent
<1> QED
  BY <1>1, <1>2, <1>3 DEF IInv, StatesOk

LEMMA TransitionInv == ASSUME IInv, Transition PROVE IInv'
<1> DEFINE s == fnState[curFn]
           v == CHOOSE w \in Instantiated(s) : \A u \in Instantiated(s) : u <= w
           G == set_variable(s, v, arrSolution[v])
<1>1. /\ curFn \in Fn /\ s \in Function /\ problem[curFn] \in Function
      /\ Follows(s, problem[curFn], arrSolution)
  BY UpdatedFunction DEF Transition
<1>2. v \in Instantiated(s)
  <2>1. Instantiated(s) \subseteq Var /\ Instantiated(s) # {}
    BY DEF Instantiated, Vbles, Transition
  <2> QED
    BY <2>1, GreatestVariable
<1>3. v \in Vbles(s) /\ v \in Var /\ arrSolution[v] \in Value /\ v \in Known
      /\ arrSolution \in Partial
  BY <1>2, Values DEF Instantiated, Vbles, Known, IInv, TypeOK, Partial
<1>4. toCheck' = Inferences(G) /\ nextState' = set_variable_all_infs(G) /\ pc' = "check"
  BY DEF Transition
<1> HIDE DEF v
<1>5. /\ G \in Function /\ Vbles(G) \subseteq Vbles(s)
      /\ \A m \in Assignment : m[v] = arrSolution[v] => (m \in G <=> m \in s)
  BY <1>1, <1>3, SetVariable
<1> HIDE DEF G
<1>6. /\ nextState' \in Function
      /\ Vbles(nextState') \subseteq Vbles(G)
      /\ \A m \in Assignment : Satisfies(m, toCheck') => (m \in nextState' <=> m \in G)
      /\ G # false_ptr => Normalized(nextState')
      /\ G = false_ptr => nextState' = false_ptr /\ toCheck' = Literal
  BY <1>4, <1>5, WithoutInferences
<1>7. toCheck' \subseteq Literal /\ \A m \in G : Satisfies(m, toCheck')
  BY <1>4, <1>5, InferencesType
<1>8. UNCHANGED <<curFn, fnState, arrSolution, inferring, problem, arrChangedFn,
                  curPriority, arrFnInfPriority, nLastFnInfPriority>>
  BY DEF Transition, stackVars, trailVars, inferVars, queueVars
<1>9. TypeOK'
  BY <1>4, <1>6, <1>7 DEF IInv, TypeOK, Transition, stackVars, trailVars, queueVars,
         inferVars, resultVars, PCs
<1>10. WhereOk' /\ WaitOk'
  BY <1>1, <1>4, <1>8 DEF IInv, WhereOk, WaitOk
<1>11. CheckOk'
  <2>1. ToInfer' = toCheck'
    BY <1>4 DEF ToInfer
  <2>2. s # true_ptr
    BY <1>3, TrueSettled
  <2>3. ASSUME NEW m \in Cube(arrSolution)
        PROVE  /\ Satisfies(m, toCheck') => (m \in problem[curFn] <=> m \in nextState')
               /\ m \in problem[curFn] => Satisfies(m, toCheck')
    <3>1. m \in Assignment /\ m[v] = arrSolution[v]
      BY <1>3, CubeIs DEF Cube, Known
    <3>2. m \in G <=> m \in problem[curFn]
      BY <1>1, <1>5, <3>1 DEF Follows
    <3> QED
      BY <1>6, <1>7, <3>1, <3>2
  <2>4. Vbles(nextState') \subseteq Vbles(problem[curFn])
    BY <1>1, <1>5, <1>6 DEF Follows
  <2>5. nextState' # false_ptr => Normalized(nextState')
    BY <1>6
  <2>6. nextState' = false_ptr =>
          \E w \in Known : <<w, 1 - arrSolution[w]>> \in toCheck'
    <3> SUFFICES ASSUME nextState' = false_ptr
                 PROVE  <<v, 1 - arrSolution[v]>> \in toCheck'
      BY <1>3
    <3>1. toCheck' = Literal
      BY <1>6 DEF Normalized
    <3>2. 1 - arrSolution[v] \in Value
      BY <1>3 DEF Value, BOOL_TRUE, BOOL_FALSE
    <3> QED
      BY <1>3, <3>1, <3>2 DEF Literal
  <2>7. Known' = Known
    BY <1>8 DEF Known
  <2> QED
    BY <1>8, <2>1, <2>2, <2>3, <2>4, <2>5, <2>6, <2>7 DEF CheckOk
<1> QED
  BY <1>4, <1>9, <1>10, <1>11, LoopStep DEF Transition, Running, queueVars

(* CheckSmurfInferences: an inference that agrees with the assignment says *)
(* nothing new. *)
LEMMA CheckKnownInv == ASSUME IInv, NEW l \in Literal, CheckKnown(l) PROVE IInv'
<1>1. /\ pc = "check" /\ pc' = "check" /\ l \in toCheck /\ toCheck' = toCheck \ {l}
      /\ arrSolution[l[1]] = l[2] /\ l[1] \in Var /\ l[2] \in Value
      /\ arrSolution \in Partial
      /\ UNCHANGED <<curFn, fnState, arrSolution, inferring, problem, arrChangedFn,
                     curPriority, arrFnInfPriority, nLastFnInfPriority, nextState>>
  BY DEF IInv, TypeOK, CheckKnown, NextInference, Literal, stackVars, trailVars,
         inferVars, queueVars
<1>2. TypeOK'
  BY DEF IInv, TypeOK, CheckKnown, stackVars, trailVars, queueVars, inferVars,
         resultVars
<1>3. WhereOk' /\ WaitOk'
  BY <1>1 DEF IInv, WhereOk, WaitOk
<1>4. CheckOk'
  <2>1. ToInfer = toCheck /\ ToInfer' = toCheck'
    BY <1>1 DEF ToInfer
  <2>2. curFn \in Fn /\ CheckOk
    BY <1>1 DEF IInv, WhereOk
  <2>3. ASSUME NEW m \in Cube(arrSolution)
        PROVE  Satisfies(m, toCheck') <=> Satisfies(m, toCheck)
    <3>1. m[l[1]] = l[2]
      BY <1>1, CubeIs, Values DEF Cube
    <3> QED
      BY <1>1, <3>1 DEF Satisfies
  <2>4. ASSUME NEW w \in Known, <<w, 1 - arrSolution[w]>> \in toCheck
        PROVE  <<w, 1 - arrSolution[w]>> \in toCheck'
    <3>1. arrSolution[w] \in {0, 1}
      BY <1>1 DEF Known, Partial, Value, BOOL_TRUE, BOOL_FALSE
    <3>2. <<w, 1 - arrSolution[w]>> # l
      BY <1>1, <3>1
    <3> QED
      BY <1>1, <2>4, <3>2
  <2>5. Known' = Known
    BY <1>1 DEF Known
  <2> QED
    BY <1>1, <2>1, <2>2, <2>3, <2>4, <2>5 DEF CheckOk
<1> QED
  BY <1>1, <1>2, <1>3, <1>4, LoopStep DEF CheckKnown, Running, queueVars, updateVars

(* Of the branch only what satisfies the inference has to be looked at:    *)
(* nothing else satisfies the function. *)
LEMMA CheckNewSearch == ASSUME IInv, NEW l \in Literal, CheckNew(l) PROVE SearchOk'
<1>1. /\ pc = "check" /\ pc' = "infer" /\ l \in toCheck
      /\ inferring' = [var |-> l[1], val |-> l[2], choice |-> FALSE]
      /\ UNCHANGED <<problem, arrSolution, arrBacktrackStack, arrChoicePointStack,
                     solutions>>
  BY DEF CheckNew, NextInference, trailVars, resultVars
<1>2. curFn \in Fn /\ CheckOk /\ SearchOk /\ ChoicesOk
  BY <1>1 DEF IInv, WhereOk
<1>3. Models' = Models /\ Found' = Found
  BY <1>1 DEF Models, Found
<1>4. Later' = Later
  <2>1. Chosen' = Chosen
    BY <1>1 DEF Chosen, Depth, ChoiceVar
  <2>2. ASSUME NEW v \in Chosen PROVE OtherBranch(v)' = OtherBranch(v)
    <3>1. v \in Known
      BY <1>1, <1>2 DEF ChoicesOk, Chosen
    <3>2. SolutionBefore(v)' = SolutionBefore(v)
      BY <1>1, BeforeKept
    <3>3. ChosenValue(v)' = ChosenValue(v)
      BY <1>1, <3>1 DEF ChosenValue, Known
    <3> QED
      BY <3>2, <3>3 DEF OtherBranch
  <2> QED
    BY <2>1, <2>2 DEF Later
<1>5. Here' \subseteq Here /\ \A m \in Here : m[l[1]] = l[2] => m \in Here'
  BY <1>1 DEF Here
<1>6. ASSUME NEW m \in Models, m \in Here PROVE m[l[1]] = l[2]
  <2>1. m \in Cube(arrSolution) /\ m \in problem[curFn]
    BY <1>2, <1>6 DEF Here, Models
  <2>2. Satisfies(m, ToInfer)
    BY <1>1, <1>2, <2>1 DEF CheckOk
  <2> QED
    BY <1>1, <2>2 DEF Satisfies, ToInfer
<1> QED
  BY <1>1, <1>2, <1>3, <1>4, <1>5, <1>6 DEF SearchOk

LEMMA CheckNewInv == ASSUME IInv, NEW l \in Literal, CheckNew(l) PROVE IInv'
<1>1. /\ pc = "check" /\ pc' = "infer" /\ l \in toCheck /\ toCheck' = toCheck \ {l}
      /\ arrSolution[l[1]] = BOOL_UNKNOWN /\ l[1] \in Var /\ l[2] \in Value
      /\ inferring' = [var |-> l[1], val |-> l[2], choice |-> FALSE]
      /\ affected' = AFS(l[1])
      /\ UNCHANGED <<problem, stackVars, trailVars, queueVars, nNumUnresolvedFunctions,
                     curFn, curPriority, nextState, resultVars>>
      /\ UNCHANGED <<fnState, arrChangedFn, popping, nCurFnVersion, arrSolution,
                     arrBacktrackStack, arrChoicePointStack, arrInferenceQueue,
                     arrFnInferenceQueue, arrFnInfPriority, nLastFnInfPriority,
                     solutions, errLimits, ret>>
  BY DEF CheckNew, NextInference, Literal, stackVars, trailVars, queueVars, resultVars
<1>2. TypeOK'
  BY <1>1 DEF IInv, TypeOK, CheckNew, AFS, stackVars, trailVars, queueVars, resultVars, PCs
<1>3. curFn \in Fn /\ curFn # NoFn
  BY <1>1, FnAssumption DEF IInv, WhereOk, NoFn
<1>4. FSP!IInv' /\ StackKept
  BY <1>1, StackUnchanged DEF IInv, StackOk
<1>5. StackOk' /\ WhereOk' /\ WaitOk'
  BY <1>1, <1>3, <1>4 DEF IInv, StackOk, WhereOk, WaitOk
<1>6. QueueOk' /\ ListsOk'
  BY <1>1, ListsKept DEF IInv
<1>7. InferOk'
  <2>1. inferring'.var = l[1]
    BY <1>1
  <2>2. AFS(inferring.var)' = AFS(l[1])
    BY <1>1, <2>1 DEF AFS
  <2> QED
    BY <1>1, <2>1, <2>2 DEF InferOk
<1>8. TrailOk' /\ VersionOk' /\ Known' = Known
  BY <1>1, <1>3, BeforeKept DEF IInv, TrailOk, VersionOk
<1>9. ChoicesOk'
  <2>1. Depth' = Depth /\ \A j : ChoiceVar(j)' = ChoiceVar(j)
    BY <1>1 DEF Depth, ChoiceVar
  <2>2. \A j : Before(ChoiceVar(j))' = Before(ChoiceVar(j))
    BY <1>1, <2>1, BeforeKept DEF Before
  <2> QED
    BY <1>1, <1>8, <2>1, <2>2 DEF IInv, ChoicesOk
<1>10. CountOk' /\ LevelsOk'
  BY <1>1, <1>4, LevelsKept DEF IInv, CountOk, StackKept, Open
<1>11. StatesOk'
  BY <1>1, <1>4, StatesKept DEF IInv, StackKept
<1>12. CheckOk'
  <2>1. ToInfer' = ToInfer
    BY <1>1 DEF ToInfer, Literal
  <2>2. CheckOk
    BY DEF IInv
  <2>3. ASSUME NEW w \in Known, <<w, 1 - arrSolution[w]>> \in toCheck
        PROVE  <<w, 1 - arrSolution[w]>> \in toCheck'
    BY <1>1, <2>3 DEF Known
  <2> QED
    BY <1>1, <1>3, <1>8, <2>1, <2>2, <2>3 DEF CheckOk
<1>13. SearchOk'
  BY CheckNewSearch
<1>14. VerdictOk'
  BY <1>1, VerdictKept DEF IInv
<1> QED
  BY <1>2, <1>5, <1>6, <1>7, <1>8, <1>9, <1>10, <1>11, <1>12, <1>13, <1>14 DEF IInv

(* A step that ends the branch, or the search. *)
LEMMA BranchEnds ==
  ASSUME IInv, pc \in Plain, pc' \in {"backtrack", "finish", "done"}, curFn' \notin Fn,
         UNCHANGED <<problem, stackVars, trailVars, nNumUnresolvedFunctions,
                     arrInferenceQueue, arrFnInferenceQueue, arrFnInfPriority,
                     inferring>>,
         TypeOK', SearchOk', VerdictOk'
  PROVE  IInv'
<1>1. UNCHANGED <<arrChangedFn, popping, nCurFnVersion, arrSolution>>
  BY DEF stackVars, trailVars
<1>2. pc # "pop" /\ pc' # "pop" /\ SamePlace
  BY DEF SamePlace, Plain, PCs
<1>3. FSP!IInv' /\ StackKept
  BY StackUnchanged DEF IInv, StackOk
<1>4. StackOk'
  BY <1>1, <1>2, <1>3 DEF IInv, StackOk
<1>5. TrailOk' /\ ChoicesOk' /\ VersionOk' /\ CountOk' /\ LevelsOk'
  BY <1>1, <1>2, <1>3, BranchKept DEF IInv
<1>6. StatesOk'
  BY <1>1, <1>2, <1>3, StatesKept DEF IInv, StackKept
<1>7. QueueOk' /\ ListsOk'
  BY <1>1, <1>2, ListsKept DEF IInv
<1>8. WhereOk' /\ WaitOk' /\ InferOk' /\ CheckOk'
  BY DEF WhereOk, WaitOk, InferOk, CheckOk
<1> QED
  BY <1>4, <1>5, <1>6, <1>7, <1>8 DEF IInv

(* Nothing is found or left out when a branch ends that no model is in.    *)
LEMMA DeadBranch ==
  ASSUME SearchOk, \A m \in Models : m \notin Here, pc' = "backtrack",
         UNCHANGED <<problem, trailVars, solutions, inferring>>,
         pc \notin {"finish", "done"}
  PROVE  SearchOk'
<1>1. UNCHANGED <<arrSolution, arrBacktrackStack, arrChoicePointStack>>
  BY DEF trailVars
<1>2. Models' = Models /\ Found' = Found
  BY DEF Models, Found
<1>3. Here' = {}
  BY DEF Here
<1>4. Later' = Later
  BY LaterKept
<1> QED
  BY <1>2, <1>3, <1>4 DEF SearchOk

(* The inference that fails is one that all models of the branch satisfy.  *)
LEMMA ConflictInv == ASSUME IInv, NEW l \in Literal, Conflict(l) PROVE IInv'
<1>1. /\ pc = "check" /\ pc' = "backtrack" /\ l \in toCheck /\ curFn' = NoFn
      /\ arrSolution[l[1]] # l[2] /\ arrSolution[l[1]] # BOOL_UNKNOWN /\ l[1] \in Var
      /\ UNCHANGED <<problem, stackVars, trailVars, nNumUnresolvedFunctions,
                     arrInferenceQueue, arrFnInferenceQueue, arrFnInfPriority,
                     inferring, solutions, errLimits, ret>>
  BY DEF Conflict, NextInference, Literal, inferVars, resultVars
<1>2. TypeOK'
  BY DEF IInv, TypeOK, Conflict, stackVars, trailVars, inferVars, resultVars, PCs,
         Function, false_ptr, MAX_FN_PRIORITY, NoFn
<1>3. \A m \in Models : m \notin Here
  <2> SUFFICES ASSUME NEW m \in Models, m \in Here PROVE FALSE
    OBVIOUS
  <2>1. curFn \in Fn /\ CheckOk /\ arrSolution \in Partial
    BY <1>1 DEF IInv, WhereOk, TypeOK
  <2>2. m \in Cube(arrSolution) /\ m \in Assignment /\ m \in problem[curFn]
    BY <2>1 DEF Here, Models
  <2>3. m[l[1]] = l[2]
    BY <1>1, <2>1, <2>2 DEF CheckOk, Satisfies, ToInfer
  <2>4. m[l[1]] = arrSolution[l[1]]
    BY <1>1, <2>1, <2>2, CubeIs
  <2> QED
    BY <1>1, <2>3, <2>4
<1>4. SearchOk' /\ VerdictOk'
  BY <1>1, <1>3, DeadBranch, VerdictKept DEF IInv
<1>5. pc \in Plain /\ curFn' \notin Fn
  BY <1>1, FnAssumption DEF Plain, PCs, NoFn
<1> QED
  BY <1>1, <1>2, <1>4, <1>5, BranchEnds

(* The count of the unresolved functions follows the states. *)
LEMMA OpenCount ==
  ASSUME NEW st, NEW f \in Fn, NEW s, st \in [Fn -> Function], st[f] # true_ptr
  PROVE  /\ Cardinality(Open(st)) \in Nat \ {0}
         /\ Cardinality(Open([st EXCEPT ![f] = s])) =
              IF s = true_ptr THEN Cardinality(Open(st)) - 1 ELSE Cardinality(Open(st))
<1>1. IsFiniteSet(Open(st)) /\ f \in Open(st)
  BY FnAssumption, FS_Subset DEF Open
<1>2. Cardinality(Open(st)) \in Nat \ {0}
  BY <1>1, FS_CardinalityType, FS_EmptySet
<1>3. CASE s = true_ptr
  <2>1. Open([st EXCEPT ![f] = s]) = Open(st) \ {f}
    BY <1>3 DEF Open
  <2> QED
    BY <1>1, <1>2, <1>3, <2>1, FS_RemoveElement
<1>4. CASE s # true_ptr
  <2>1. Open([st EXCEPT ![f] = s]) = Open(st)
    BY <1>4 DEF Open
  <2> QED
    BY <1>2, <1>4, <2>1
<1> QED
  BY <1>2, <1>3, <1>4

(* A transition that ends satisfied all of its inferences. *)
LEMMA ArriveInv == ASSUME IInv, Arrive PROVE IInv'
<1>1. /\ pc = "check" /\ pc' = "smurf" /\ toCheck = {}
      /\ fnState' = [fnState EXCEPT ![curFn] = nextState]
      /\ nNumUnresolvedFunctions' = UnresolvedAfter(nextState)
      /\ UNCHANGED <<problem, arrChangedFn, arrFnFlags, nCurFnVersion, arrFnStack,
                     popping, trailVars, queueVars, curFn, curPriority, inferVars,
                     resultVars>>
      /\ UNCHANGED <<arrSolution, arrBacktrackStack, arrChoicePointStack,
                     arrInferenceQueue, arrFnInferenceQueue, arrFnInfPriority,
                     nLastFnInfPriority, inferring, solutions, errLimits, ret>>
  BY DEF Arrive, trailVars, queueVars, inferVars, resultVars
<1>2. /\ curFn \in Fn /\ arrChangedFn[curFn] = 3 /\ ~popping
      /\ Current = fnState /\ fnState \in [Fn -> Function]
      /\ nextState \in Function
  BY <1>1, UpdatedFunction DEF IInv, TypeOK
<1>3. /\ FSP!IInv' /\ Current' = [Current EXCEPT ![curFn] = nextState]
      /\ Snapshot' = Snapshot /\ Levels' = Levels /\ arrFnStack' = arrFnStack
  <2>1. FSP!ChangeState(curFn, nextState)
    BY <1>1, <1>2 DEF FSP!ChangeState
  <2> QED
    BY <1>2, <2>1, FunctionMoved DEF IInv, StackOk
<1>4. Follows(nextState, problem[curFn], arrSolution) /\ fnState[curFn] # true_ptr
  <2>1. CheckOk /\ ToInfer = {}
    BY <1>1 DEF IInv, ToInfer
  <2> QED
    BY <1>1, <1>2, <2>1 DEF CheckOk, Satisfies, Follows
<1>5. CountOk' /\ nNumUnresolvedFunctions' \in Nat
  <2>1. /\ Cardinality(Open(Current)) \in Nat \ {0}
        /\ Cardinality(Open([Current EXCEPT ![curFn] = nextState])) =
             IF nextState = true_ptr THEN Cardinality(Open(Current)) - 1
                                     ELSE Cardinality(Open(Current))
    BY <1>2, <1>4, OpenCount
  <2>2. Open(Current)' = Open([Current EXCEPT ![curFn] = nextState])
    BY <1>3 DEF Open
  <2>3. CountOk' <=> nNumUnresolvedFunctions' = Cardinality(Open(Current)')
    BY DEF CountOk
  <2>4. nNumUnresolvedFunctions = Cardinality(Open(Current))
    BY DEF IInv, CountOk
  <2> QED
    BY <1>1, <2>1, <2>2, <2>3, <2>4 DEF UnresolvedAfter
<1>6. TypeOK'
  BY <1>1, <1>2, <1>5 DEF IInv, TypeOK, Arrive, trailVars, queueVars, inferVars,
         resultVars, PCs, Function, false_ptr
<1>7. StackOk' /\ WhereOk' /\ WaitOk' /\ InferOk' /\ CheckOk'
  BY <1>1, <1>2, <1>3 DEF IInv, StackOk, WhereOk, WaitOk, InferOk, CheckOk
<1>8. QueueOk' /\ ListsOk'
  BY <1>1, ListsKept DEF IInv
<1>9. TrailOk' /\ ChoicesOk' /\ VersionOk'
  <2>1. Trail' = Trail /\ Known' = Known
    BY <1>1, BeforeKept
  <2>2. Depth' = Depth /\ \A j : ChoiceVar(j)' = ChoiceVar(j)
    BY <1>1 DEF Depth, ChoiceVar
  <2>3. \A j : Before(ChoiceVar(j))' = Before(ChoiceVar(j))
    BY <1>1, <2>1, <2>2 DEF Before
  <2> QED
    BY <1>1, <2>1, <2>2, <2>3 DEF IInv, TrailOk, ChoicesOk, VersionOk
<1>10. LevelsOk'
  BY <1>1, <1>3, LevelsKept DEF IInv
<1>11. StatesOk'
  BY <1>1, <1>2, <1>3, <1>4 DEF IInv, StatesOk, Follows
<1>12. SearchOk' /\ VerdictOk'
  BY <1>1, SearchKept, VerdictKept DEF IInv, Running
<1> QED
  BY <1>5, <1>6, <1>7, <1>8, <1>9, <1>10, <1>11, <1>12 DEF IInv

-----------------------------------------------------------------------------
(* The lists as sequences. *)

LEMMA AppendToList ==
  ASSUME NEW T, NEW q \in Seq(T), NEW e \in T
  PROVE  /\ Append(q, e) \in Seq(T) /\ Append(q, e) # <<>>
         /\ ToSet(Append(q, e)) = ToSet(q) \cup {e}
         /\ IsInjective(q) /\ e \notin ToSet(q) => IsInjective(Append(q, e))
         /\ q # <<>> => Head(Append(q, e)) = Head(q)
<1>1. /\ Append(q, e) \in Seq(T) /\ Append(q, e) # <<>>
      /\ Len(Append(q, e)) = Len(q) + 1
      /\ Len(q) \in Nat /\ DOMAIN q = 1..Len(q)
      /\ DOMAIN Append(q, e) = 1..Len(q) + 1
      /\ \A i \in 1..Len(q) : Append(q, e)[i] = q[i]
      /\ Append(q, e)[Len(q) + 1] = e
  BY AppendProperties
<1>2. ToSet(Append(q, e)) = ToSet(q) \cup {e}
  BY <1>1 DEF ToSet
<1>3. ASSUME IsInjective(q), e \notin ToSet(q) PROVE IsInjective(Append(q, e))
  BY <1>1, <1>3 DEF IsInjective, ToSet
<1>4. q # <<>> => Head(Append(q, e)) = Head(q)
  BY <1>1
<1> QED
  BY <1>1, <1>2, <1>3, <1>4

LEMMA TailOfList ==
  ASSUME NEW T, NEW q \in Seq(T), q # <<>>, IsInjective(q)
  PROVE  /\ Tail(q) \in Seq(T)
         /\ ToSet(Tail(q)) = ToSet(q) \ {Head(q)}
         /\ IsInjective(Tail(q))
<1>1. /\ Tail(q) \in Seq(T) /\ Len(q) \in Nat \ {0}
      /\ DOMAIN q = 1..Len(q) /\ DOMAIN Tail(q) = 1..Len(q) - 1
      /\ \A i \in 1..Len(q) - 1 : Tail(q)[i] = q[i + 1]
      /\ Head(q) = q[1]
  OBVIOUS
<1>2. IsInjective(Tail(q))
  BY <1>1 DEF IsInjective
<1>3. ToSet(Tail(q)) = ToSet(q) \ {Head(q)}
  <2>1. ASSUME NEW x \in ToSet(Tail(q)) PROVE x \in ToSet(q) \ {Head(q)}
    BY <1>1 DEF IsInjective, ToSet
  <2>2. ASSUME NEW x \in ToSet(q) \ {Head(q)} PROVE x \in ToSet(Tail(q))
    <3>1. PICK i \in 1..Len(q) : x = q[i]
      BY <1>1 DEF ToSet
    <3>2. i # 1 /\ i - 1 \in 1..Len(q) - 1
      BY <1>1, <3>1
    <3>3. x = Tail(q)[i - 1]
      BY <1>1, <3>1, <3>2
    <3> QED
      BY <1>1, <3>2, <3>3 DEF ToSet
  <2> QED
    BY <2>1, <2>2
<1> QED
  BY <1>1, <1>2, <1>3

(* The first elements of a sequence. *)
LEMMA FirstPart ==
  ASSUME NEW T, NEW q \in Seq(T), NEW k \in 0..Len(q)
  PROVE  /\ SubSeq(q, 1, k) \in Seq(T)
         /\ Len(SubSeq(q, 1, k)) = k
         /\ \A i \in 1..k : SubSeq(q, 1, k)[i] = q[i]
<1>1. k \in Int /\ k >= 0 /\ \A i \in 1..k : q[i] \in T
  OBVIOUS
<1>2. /\ SubSeq(q, 1, k) \in Seq(T)
      /\ Len(SubSeq(q, 1, k)) = IF 1 <= k THEN k - 1 + 1 ELSE 0
      /\ \A i \in 1..k - 1 + 1 : SubSeq(q, 1, k)[i] = q[1 + i - 1]
  BY ONLY <1>1, SubSeqProperties
<1> QED
  BY <1>1, <1>2

LEMMA PrefixIs ==
  ASSUME NEW T, NEW q \in Seq(T), NEW t \in Seq(T)
  PROVE  IsPrefix(q, t) <=> /\ Len(q) <= Len(t)
                            /\ \A i \in 1..Len(q) : q[i] = t[i]
<1>1. CASE Len(q) <= Len(t)
  <2>1. Len(q) \in 0..Len(q) /\ Len(q) \in 0..Len(t)
    BY <1>1
  <2>2. PICK a \in Seq(T) : /\ a = SubSeq(q, 1, Len(q)) /\ Len(a) = Len(q)
                            /\ \A i \in 1..Len(q) : a[i] = q[i]
    BY <2>1, FirstPart
  <2>3. PICK b \in Seq(T) : /\ b = SubSeq(t, 1, Len(q)) /\ Len(b) = Len(q)
                            /\ \A i \in 1..Len(q) : b[i] = t[i]
    BY <2>1, FirstPart
  <2>4. a = b <=> \A i \in 1..Len(q) : a[i] = b[i]
    BY <2>2, <2>3, SeqEqual
  <2> QED
    BY <1>1, <2>2, <2>3, <2>4 DEF IsPrefix
<1>2. CASE ~(Len(q) <= Len(t))
  BY <1>2 DEF IsPrefix
<1> QED
  BY <1>1, <1>2

(* A list that is an end of another stays one when both grow by the same.  *)
LEMMA SuffixIs ==
  ASSUME NEW T, NEW q \in Seq(T), NEW t \in Seq(T)
  PROVE  IsSuffix(q, t) <=> /\ Len(q) <= Len(t)
                            /\ \A i \in 1..Len(q) : q[i] = t[(Len(t) - Len(q)) + i]
<1>1. /\ Len(q) \in Nat /\ Len(t) \in Nat
      /\ Reverse(q) \in Seq(T) /\ Len(Reverse(q)) = Len(q)
      /\ Reverse(t) \in Seq(T) /\ Len(Reverse(t)) = Len(t)
      /\ \A i \in 1..Len(q) : Reverse(q)[i] = q[(Len(q) - i) + 1]
      /\ \A i \in 1..Len(t) : Reverse(t)[i] = t[(Len(t) - i) + 1]
  BY DEF Reverse
<1>2. CASE Len(q) <= Len(t)
  <2>1. IsSuffix(q, t) <=> \A i \in 1..Len(q) : Reverse(q)[i] = Reverse(t)[i]
    BY <1>1, <1>2, PrefixIs DEF IsSuffix
  <2>2. ASSUME NEW i \in 1..Len(q)
        PROVE  /\ (Len(q) - i) + 1 \in 1..Len(q)
               /\ Reverse(q)[(Len(q) - i) + 1] = q[i]
               /\ Reverse(t)[(Len(q) - i) + 1] = t[(Len(t) - Len(q)) + i]
    <3>1. (Len(q) - i) + 1 \in 1..Len(q) /\ (Len(q) - i) + 1 \in 1..Len(t)
      BY <1>1, <1>2
    <3>2. (Len(q) - ((Len(q) - i) + 1)) + 1 = i
      BY <1>1
    <3>3. (Len(t) - ((Len(q) - i) + 1)) + 1 = (Len(t) - Len(q)) + i
      BY <1>1
    <3> QED
      BY <1>1, <3>1, <3>2, <3>3
  <2>3. ASSUME \A i \in 1..Len(q) : Reverse(q)[i] = Reverse(t)[i],
               NEW i \in 1..Len(q)
        PROVE  q[i] = t[(Len(t) - Len(q)) + i]
    BY <2>2, <2>3
  <2>4. ASSUME \A i \in 1..Len(q) : q[i] = t[(Len(t) - Len(q)) + i],
               NEW i \in 1..Len(q)
        PROVE  Reverse(q)[i] = Reverse(t)[i]
    <3>1. PICK j \in 1..Len(q) : j = (Len(q) - i) + 1
      BY <1>1
    <3>2. (Len(q) - j) + 1 = i
      BY <1>1, <3>1
    <3> QED
      BY <2>2, <2>4, <3>2
  <2> QED
    BY <1>2, <2>1, <2>3, <2>4
<1>3. CASE ~(Len(q) <= Len(t))
  BY <1>1, <1>3 DEF IsSuffix, IsPrefix
<1> QED
  BY <1>2, <1>3

LEMMA AppendToSuffix ==
  ASSUME NEW T, NEW q \in Seq(T), NEW t \in Seq(T), NEW e \in T, IsSuffix(q, t)
  PROVE  IsSuffix(Append(q, e), Append(t, e))
<1>1. /\ Len(q) \in Nat /\ Len(t) \in Nat /\ Len(q) <= Len(t)
      /\ \A i \in 1..Len(q) : q[i] = t[(Len(t) - Len(q)) + i]
  BY SuffixIs
<1>2. PICK r \in Seq(T) : r = Append(q, e)
  BY AppendProperties
<1>3. PICK u \in Seq(T) : u = Append(t, e)
  BY AppendProperties
<1>4. /\ Len(r) = Len(q) + 1 /\ Len(u) = Len(t) + 1
      /\ \A i \in 1..Len(q) : r[i] = q[i]
      /\ \A i \in 1..Len(t) : u[i] = t[i]
      /\ r[Len(q) + 1] = e /\ u[Len(t) + 1] = e
  BY <1>2, <1>3
<1>5. ASSUME NEW i \in 1..Len(r) PROVE r[i] = u[(Len(u) - Len(r)) + i]
  <2>1. CASE i = Len(q) + 1
    BY <1>1, <1>4, <2>1
  <2>2. CASE i # Len(q) + 1
    <3>1. i \in 1..Len(q) /\ (Len(t) - Len(q)) + i \in 1..Len(t)
      BY <1>1, <1>4, <2>2
    <3>2. (Len(u) - Len(r)) + i = (Len(t) - Len(q)) + i
      BY <1>1, <1>4
    <3> QED
      BY <1>1, <1>4, <3>1, <3>2
  <2> QED
    BY <2>1, <2>2
<1>6. Len(r) <= Len(u)
  BY <1>1, <1>4
<1>7. IsSuffix(r, u)
  BY ONLY <1>5, <1>6, r \in Seq(T), u \in Seq(T), SuffixIs
<1> QED
  BY <1>2, <1>3, <1>7

-----------------------------------------------------------------------------
(* The end of an update, and InferLiteral. *)

LEMMA EndUpdateInv == ASSUME IInv, EndUpdate PROVE IInv'
<1> DEFINE q == arrFnInfPriority[curPriority]
<1>1. /\ pc = "smurf" /\ Instantiated(fnState[curFn]) = {}
      /\ arrChangedFn' = [arrChangedFn EXCEPT ![curFn] = 2]
      /\ arrFnInfPriority' = [arrFnInfPriority EXCEPT ![curPriority] = Tail(q)]
      /\ curFn' = NoFn
      /\ UNCHANGED <<problem, fnState, arrFnFlags, arrFnStack, popping, nCurFnVersion,
                     trailVars, nNumUnresolvedFunctions, arrInferenceQueue, nextElt,
                     arrFnInferenceQueue, maxPriority, curPriority, nextState, toCheck,
                     inferVars, resultVars, arrSolution, inferring, solutions, errLimits,
                     ret>>
  BY DEF EndUpdate, ListOfUpdate, trailVars, inferVars, resultVars
<1>0. \/ pc' = "update" /\ nLastFnInfPriority' = nLastFnInfPriority
      \/ pc' = "deduce" /\ nLastFnInfPriority' = 0
  <2>1. CASE QueueNonempty /\ curPriority = MAX_FN_PRIORITY - 1
    BY <2>1 DEF EndUpdate, AfterUpdate
  <2>2. CASE ~(QueueNonempty /\ curPriority = MAX_FN_PRIORITY - 1)
    BY <2>2 DEF EndUpdate
  <2> QED
    BY <2>1, <2>2
<1>2. /\ curFn \in Fn /\ arrChangedFn[curFn] = 3 /\ ~popping
      /\ Current = fnState
      /\ curPriority = FnPriority[curFn] /\ curPriority \in 0..MAX_FN_PRIORITY - 1
      /\ q # <<>> /\ Head(q) = curFn /\ q \in Seq(Fn)
  <2>1. /\ curFn \in Fn /\ arrChangedFn[curFn] = 3 /\ ~popping
        /\ Current = fnState
    BY <1>1, UpdatedFunction
  <2>2. /\ curPriority = FnPriority[curFn] /\ curPriority \in 0..MAX_FN_PRIORITY - 1
        /\ q # <<>> /\ Head(q) = curFn
    BY <2>1, PriorityType DEF IInv, WhereOk
  <2>3. q \in Seq(Fn)
    BY <2>2 DEF IInv, TypeOK
  <2> QED
    BY <2>1, <2>2, <2>3
<1>3. /\ arrChangedFn \in [Fn -> {0, 2, 3}]
      /\ arrFnInfPriority \in [0..MAX_FN_PRIORITY - 1 -> Seq(Fn)]
      /\ nLastFnInfPriority \in 0..MAX_FN_PRIORITY
  BY DEF IInv, TypeOK
<1>4. ListsOk /\ QueueOk /\ pc # "pop" /\ pc' # "pop"
  BY <1>1, <1>0 DEF IInv
<1>5. IsInjective(q) /\ ToSet(q) = {f \in Fn : arrChangedFn[f] = 3 /\ FnPriority[f] = curPriority}
  BY <1>2, <1>4 DEF ListsOk, ListOk
<1>6. Tail(q) \in Seq(Fn) /\ ToSet(Tail(q)) = ToSet(q) \ {curFn} /\ IsInjective(Tail(q))
  BY <1>2, <1>5, TailOfList
<1> HIDE DEF q
<1>7. ListsOk'
  <2> SUFFICES ASSUME NEW p \in 0..MAX_FN_PRIORITY - 1 PROVE ListOk(p)'
    BY DEF ListsOk
  <2>1. ListOk(p)
    BY <1>4 DEF ListsOk
  <2>2. CASE p = curPriority
    <3>1. arrFnInfPriority'[p] = Tail(q)
      BY <1>1, <1>3, <2>2
    <3>2. {f \in Fn : arrChangedFn'[f] = 3 /\ FnPriority[f] = p}
            = {f \in Fn : arrChangedFn[f] = 3 /\ FnPriority[f] = p} \ {curFn}
      BY <1>1, <1>3
    <3> QED
      BY <1>5, <1>6, <2>2, <3>1, <3>2 DEF ListOk
  <2>3. CASE p # curPriority
    <3>1. arrFnInfPriority'[p] = arrFnInfPriority[p]
      BY <1>1, <1>3, <2>3
    <3>2. {f \in Fn : arrChangedFn'[f] = 3 /\ FnPriority[f] = p}
            = {f \in Fn : arrChangedFn[f] = 3 /\ FnPriority[f] = p}
      BY <1>1, <1>2, <1>3, <2>3
    <3> QED
      BY <2>1, <3>1, <3>2 DEF ListOk
  <2> QED
    BY <2>2, <2>3
<1>8. QueueOk'
  <2>1. \A f \in Fn : arrChangedFn'[f] # 0 <=> arrChangedFn[f] # 0
    BY <1>1, <1>2, <1>3
  <2> QED
    BY <1>1, <1>4, <2>1 DEF QueueOk
<1>9. TypeOK'
  <2>1. arrChangedFn' \in [Fn -> {0, 2, 3}]
    BY <1>1, <1>3
  <2>2. arrFnInfPriority' \in [0..MAX_FN_PRIORITY - 1 -> Seq(Fn)]
    BY <1>1, <1>3, <1>6
  <2>3. nLastFnInfPriority' \in 0..MAX_FN_PRIORITY
    BY <1>3, <1>0 DEF MAX_FN_PRIORITY
  <2> QED
    BY <1>1, <1>0, <2>1, <2>2, <2>3 DEF IInv, TypeOK, trailVars, inferVars, resultVars, PCs
<1>10. FSP!IInv' /\ StackKept
  <2>1. FSP!EndUpdate(curFn)
    BY <1>1, <1>2 DEF FSP!EndUpdate
  <2> QED
    BY <1>2, <2>1, FunctionUpdated DEF IInv, StackOk
<1>11. curFn' \notin Fn
  BY <1>1, FnAssumption DEF NoFn
<1>12. StackOk' /\ WhereOk' /\ InferOk' /\ CheckOk'
  BY <1>1, <1>2, <1>10, <1>11, <1>0 DEF StackOk, WhereOk, InferOk, CheckOk
<1>13. WaitOk'
  <2> SUFFICES ASSUME NEW p \in 0..MAX_FN_PRIORITY - 1, pc' = "update", p < nLastFnInfPriority'
               PROVE  arrFnInfPriority'[p] = <<>>
    BY <1>11, <1>0 DEF WaitOk
  <2>1. arrFnInfPriority[p] = <<>>
    BY <1>1, <1>2, <1>0 DEF IInv, WaitOk
  <2>2. p # curPriority
    BY <1>2, <2>1 DEF q
  <2> QED
    BY <1>1, <1>3, <2>1, <2>2
<1>14. TrailOk' /\ ChoicesOk' /\ VersionOk' /\ CountOk' /\ LevelsOk'
  <2>1. SamePlace
    BY <1>1, <1>0 DEF SamePlace, Plain, PCs
  <2> QED
    BY <1>1, <1>4, <1>10, <2>1, BranchKept DEF IInv
<1>15. StatesOk'
  <2>1. Settled(Current[curFn], arrSolution)
    BY <1>1, <1>2 DEF Instantiated, Settled
  <2>2. \A f \in Fn : f # curFn => arrChangedFn'[f] = arrChangedFn[f]
    BY <1>1, <1>3
  <2> QED
    BY <1>1, <1>4, <1>10, <2>1, <2>2 DEF IInv, StatesOk, StackKept, Follows
<1>16. SearchOk' /\ VerdictOk'
  BY <1>1, <1>0, SearchKept, VerdictKept DEF IInv, Running
<1> QED
  BY <1>7, <1>8, <1>9, <1>12, <1>13, <1>14, <1>15, <1>16 DEF IInv

(* What an affected function keeps, whether it was waiting already or not. *)
LEMMA AffectedKeeps ==
  ASSUME IInv, NEW f \in Fn, InferAffected(f)
  PROVE  /\ pc = "infer" /\ pc' = "infer" /\ ~popping
         /\ affected' = affected \ {f}
         /\ nLastFnInfPriority' = LowerOf(nLastFnInfPriority, FnPriority[f])
         /\ UNCHANGED <<problem, fnState, nCurFnVersion, popping, trailVars,
                        nNumUnresolvedFunctions, arrInferenceQueue, nextElt,
                        updateVars, inferring, resultVars>>
         /\ UNCHANGED <<curFn, curPriority, toCheck, nextState, arrSolution, solutions,
                        errLimits, ret>>
<1>1. pc = "infer" /\ ~popping
  BY DEF IInv, StackOk, InferAffected
<1> QED
  BY <1>1 DEF InferAffected, trailVars, updateVars, resultVars

(* A function that waits already, and one that is put on its list. *)
AlreadyWaiting(f) ==
  /\ arrChangedFn[f] = 3
  /\ UNCHANGED <<arrChangedFn, arrFnFlags, arrFnStack, arrFnInferenceQueue,
                 arrFnInfPriority>>

Enlisted(f) ==
  /\ arrChangedFn[f] # 3
  /\ FSP!MarkAffected(f)
  /\ arrFnInferenceQueue' = IF arrChangedFn[f] = 0 THEN Append(arrFnInferenceQueue, f)
                                                   ELSE arrFnInferenceQueue
  /\ arrFnInfPriority' = [arrFnInfPriority EXCEPT
                            ![FnPriority[f]] = Append(arrFnInfPriority[FnPriority[f]], f)]
  /\ arrChangedFn' = [arrChangedFn EXCEPT ![f] = 3]

LEMMA AffectedEither ==
  ASSUME IInv, NEW f \in Fn, InferAffected(f)
  PROVE  AlreadyWaiting(f) \/ Enlisted(f)
<1>1. CASE WaitsForUpdate(f)
  BY <1>1 DEF InferAffected, AlreadyWaiting, WaitsForUpdate
<1>2. CASE ~WaitsForUpdate(f)
  <2>1. /\ ~popping /\ arrChangedFn[f] # 3
        /\ arrChangedFn' = [arrChangedFn EXCEPT ![f] = 3]
        /\ UNCHANGED <<fnState, nCurFnVersion, popping>>
    BY <1>2, AffectedKeeps DEF InferAffected, WaitsForUpdate
  <2>2. CASE arrChangedFn[f] = 0
    <3>1. FS!FnStackPush(f) /\ arrFnInferenceQueue' = Append(arrFnInferenceQueue, f)
      BY <1>2, <2>2 DEF InferAffected
    <3>2. FSP!FnStackPush(f)
      BY <3>1 DEF FS!FnStackPush, FSP!FnStackPush, FS!Push, FSP!Push, FS!Entry, FSP!Entry
    <3> QED
      BY <1>2, <2>1, <2>2, <3>1, <3>2 DEF InferAffected, Enlisted, FSP!MarkAffected
  <2>3. CASE arrChangedFn[f] # 0
    <3>1. UNCHANGED <<arrFnFlags, arrFnStack, arrFnInferenceQueue>>
      BY <1>2, <2>3 DEF InferAffected
    <3> QED
      BY <1>2, <2>1, <2>3, <3>1 DEF InferAffected, Enlisted, FSP!MarkAffected
  <2> QED
    BY <2>2, <2>3
<1> QED
  BY <1>1, <1>2

(* Marks, lists and queue stay in agreement. *)
LEMMA AffectedLists ==
  ASSUME IInv, NEW f \in Fn, InferAffected(f)
  PROVE  /\ arrChangedFn' \in [Fn -> {0, 2, 3}] /\ arrChangedFn'[f] = 3
         /\ \A g \in Fn : g # f => arrChangedFn'[g] = arrChangedFn[g]
         /\ arrFnInferenceQueue' \in Seq(Fn)
         /\ arrFnInfPriority' \in [0..MAX_FN_PRIORITY - 1 -> Seq(Fn)]
         /\ \A p \in 0..MAX_FN_PRIORITY - 1 :
              /\ p # FnPriority[f] => arrFnInfPriority'[p] = arrFnInfPriority[p]
              /\ arrFnInfPriority[p] # <<>> =>
                   /\ arrFnInfPriority'[p] # <<>>
                   /\ Head(arrFnInfPriority'[p]) = Head(arrFnInfPriority[p])
         /\ QueueOk' /\ ListsOk'
<1>1. /\ arrChangedFn \in [Fn -> {0, 2, 3}] /\ arrFnInferenceQueue \in Seq(Fn)
      /\ arrFnInfPriority \in [0..MAX_FN_PRIORITY - 1 -> Seq(Fn)]
      /\ QueueOk /\ ListsOk
  BY DEF IInv, TypeOK
<1>2. pc # "pop" /\ pc' # "pop"
  BY AffectedKeeps
<1>3. CASE AlreadyWaiting(f)
  BY <1>1, <1>2, <1>3, ListsKept DEF AlreadyWaiting
<1>4. CASE Enlisted(f)
  <2>0. PICK p \in 0..MAX_FN_PRIORITY - 1 : p = FnPriority[f]
    BY PriorityType
  <2>1. /\ arrChangedFn[f] # 3 /\ arrChangedFn' = [arrChangedFn EXCEPT ![f] = 3]
        /\ arrFnInfPriority' =
             [arrFnInfPriority EXCEPT ![p] = Append(arrFnInfPriority[p], f)]
        /\ arrFnInferenceQueue' = IF arrChangedFn[f] = 0
                                  THEN Append(arrFnInferenceQueue, f)
                                  ELSE arrFnInferenceQueue
    BY <1>4, <2>0 DEF Enlisted
  <2>2. /\ arrChangedFn' \in [Fn -> {0, 2, 3}] /\ arrChangedFn'[f] = 3
        /\ \A g \in Fn : g # f => arrChangedFn'[g] = arrChangedFn[g]
    BY <1>1, <2>1
  <2>3. PICK q \in Seq(Fn) : q = arrFnInfPriority[p]
    BY <1>1
  <2>4. /\ IsInjective(q) /\ ToSet(q) = {g \in Fn : arrChangedFn[g] = 3 /\ FnPriority[g] = p}
        /\ f \notin ToSet(q)
    BY <1>1, <1>2, <2>1, <2>3 DEF ListsOk, ListOk
  <2>5. /\ Append(q, f) \in Seq(Fn) /\ Append(q, f) # <<>>
        /\ ToSet(Append(q, f)) = ToSet(q) \cup {f} /\ IsInjective(Append(q, f))
        /\ q # <<>> => Head(Append(q, f)) = Head(q)
    BY <2>4, AppendToList
  <2>6. /\ arrFnInfPriority'[p] = Append(q, f)
        /\ \A r \in 0..MAX_FN_PRIORITY - 1 :
             r # p => arrFnInfPriority'[r] = arrFnInfPriority[r]
    BY <1>1, <2>1, <2>3
  <2>7. arrFnInfPriority' \in [0..MAX_FN_PRIORITY - 1 -> Seq(Fn)]
    BY <1>1, <2>1, <2>3, <2>5
  <2>8. ListsOk'
    <3> SUFFICES ASSUME NEW r \in 0..MAX_FN_PRIORITY - 1 PROVE ListOk(r)'
      BY DEF ListsOk
    <3>1. CASE r = p
      <4>1. {g \in Fn : arrChangedFn'[g] = 3 /\ FnPriority[g] = p}
              = {g \in Fn : arrChangedFn[g] = 3 /\ FnPriority[g] = p} \cup {f}
        BY <2>0, <2>2
      <4> QED
        BY <2>4, <2>5, <2>6, <3>1, <4>1 DEF ListOk
    <3>2. CASE r # p
      <4>1. {g \in Fn : arrChangedFn'[g] = 3 /\ FnPriority[g] = r}
              = {g \in Fn : arrChangedFn[g] = 3 /\ FnPriority[g] = r}
        BY <2>0, <2>2, <3>2
      <4>2. ListOk(r)
        BY <1>1, <1>2 DEF ListsOk
      <4> QED
        BY <2>6, <3>2, <4>1, <4>2 DEF ListOk
    <3> QED
      BY <3>1, <3>2
  <2>9. QueueOk' /\ arrFnInferenceQueue' \in Seq(Fn)
    <3>1. CASE arrChangedFn[f] = 0
      <4>1. f \notin ToSet(arrFnInferenceQueue) /\ IsInjective(arrFnInferenceQueue)
        BY <1>1, <1>2, <3>1 DEF QueueOk
      <4>2. /\ arrFnInferenceQueue' \in Seq(Fn) /\ IsInjective(arrFnInferenceQueue')
            /\ ToSet(arrFnInferenceQueue') = ToSet(arrFnInferenceQueue) \cup {f}
        BY <1>1, <2>1, <3>1, <4>1, AppendToList
      <4> QED
        BY <1>1, <1>2, <2>2, <4>2 DEF QueueOk
    <3>2. CASE arrChangedFn[f] # 0
      BY <1>1, <1>2, <2>1, <2>2, <3>2 DEF QueueOk
    <3> QED
      BY <3>1, <3>2
  <2>10. \A r \in 0..MAX_FN_PRIORITY - 1 :
           arrFnInfPriority[r] # <<>> =>
             /\ arrFnInfPriority'[r] # <<>>
             /\ Head(arrFnInfPriority'[r]) = Head(arrFnInfPriority[r])
    BY <2>3, <2>5, <2>6
  <2> QED
    BY <2>0, <2>2, <2>6, <2>7, <2>8, <2>9, <2>10
<1> QED
  BY <1>3, <1>4, AffectedEither

LEMMA InferAffectedInv ==
  ASSUME IInv, NEW f \in Fn, InferAffected(f)
  PROVE  IInv'
<1>1. /\ pc = "infer" /\ pc' = "infer" /\ ~popping
      /\ affected' = affected \ {f}
      /\ nLastFnInfPriority' = LowerOf(nLastFnInfPriority, FnPriority[f])
      /\ UNCHANGED <<problem, fnState, nCurFnVersion, popping, trailVars,
                     nNumUnresolvedFunctions, arrInferenceQueue, nextElt,
                     updateVars, inferring, resultVars>>
      /\ UNCHANGED <<curFn, curPriority, toCheck, nextState, arrSolution, solutions,
                     errLimits, ret>>
  BY AffectedKeeps
<1>2. /\ arrChangedFn' \in [Fn -> {0, 2, 3}] /\ arrChangedFn'[f] = 3
      /\ \A g \in Fn : g # f => arrChangedFn'[g] = arrChangedFn[g]
      /\ arrFnInferenceQueue' \in Seq(Fn)
      /\ arrFnInfPriority' \in [0..MAX_FN_PRIORITY - 1 -> Seq(Fn)]
      /\ \A p \in 0..MAX_FN_PRIORITY - 1 :
           /\ p # FnPriority[f] => arrFnInfPriority'[p] = arrFnInfPriority[p]
           /\ arrFnInfPriority[p] # <<>> =>
                /\ arrFnInfPriority'[p] # <<>>
                /\ Head(arrFnInfPriority'[p]) = Head(arrFnInfPriority[p])
      /\ QueueOk' /\ ListsOk'
  BY AffectedLists
<1>3. FSP!IInv' /\ StackKept
  <2>1. CASE AlreadyWaiting(f)
    BY <1>1, <2>1, StackUnchanged DEF AlreadyWaiting, stackVars, IInv, StackOk
  <2>2. CASE Enlisted(f)
    BY <2>2, FunctionTouched DEF Enlisted, IInv, StackOk
  <2> QED
    BY <2>1, <2>2, AffectedEither
<1>4. TypeOK'
  <2>1. arrFnFlags' \in [Fn -> Nat] /\ arrFnStack' \in Seq(FS!StackEntry)
    BY <1>3 DEF FSP!IInv, FSP!TypeOK, FSP!StackEntry, FS!StackEntry, FSP!LEVEL_START,
                FS!LEVEL_START
  <2>2. nLastFnInfPriority' \in 0..MAX_FN_PRIORITY
    BY <1>1, PriorityType DEF IInv, TypeOK, LowerOf
  <2>3. affected' \subseteq Fn
    BY <1>1 DEF IInv, TypeOK
  <2> QED
    BY <1>1, <1>2, <2>1, <2>2, <2>3 DEF IInv, TypeOK, trailVars, updateVars, resultVars
<1>5. StackOk'
  BY <1>1, <1>3 DEF IInv, StackOk
<1>6. WhereOk'
  BY <1>1, <1>2, PriorityType DEF IInv, WhereOk
<1>7. WaitOk'
  <2> SUFFICES ASSUME NEW p \in 0..MAX_FN_PRIORITY - 1, curFn \in Fn,
                      p < nLastFnInfPriority'
               PROVE  arrFnInfPriority'[p] = <<>>
    BY <1>1 DEF WaitOk
  <2>1. p < nLastFnInfPriority /\ p # FnPriority[f]
    BY <1>1, PriorityType DEF LowerOf, IInv, TypeOK
  <2> QED
    BY <1>2, <2>1 DEF IInv, WaitOk
<1>8. TrailOk' /\ ChoicesOk' /\ VersionOk' /\ CountOk' /\ LevelsOk'
  BY <1>1, <1>3, BranchKept DEF IInv, SamePlace
<1>9. InferOk'
  BY <1>1, <1>2 DEF IInv, InferOk, AFS
<1>10. StatesOk'
  BY <1>1, <1>2, <1>3 DEF IInv, StatesOk, StackKept, Follows
<1>11. CheckOk'
  <2>1. ToInfer' = ToInfer /\ Known' = Known
    BY <1>1 DEF ToInfer, Known
  <2> QED
    BY <1>1, <2>1 DEF IInv, CheckOk
<1>12. SearchOk' /\ VerdictOk'
  BY <1>1, SearchKept, VerdictKept DEF IInv
<1> QED
  BY <1>2, <1>4, <1>5, <1>6, <1>7, <1>8, <1>9, <1>10, <1>11, <1>12 DEF IInv

-----------------------------------------------------------------------------
(* The trail. *)

LEMMA TrailType ==
  ASSUME arrBacktrackStack \in Seq([var : Var, choice : BOOLEAN])
  PROVE  /\ Trail \in Seq(Var) /\ Len(Trail) = Len(arrBacktrackStack)
         /\ Len(Trail) \in Nat /\ DOMAIN Trail = 1..Len(Trail)
         /\ DOMAIN arrBacktrackStack = 1..Len(Trail)
         /\ \A i \in 1..Len(Trail) : Trail[i] = arrBacktrackStack[i].var /\ Trail[i] \in Var
<1>1. /\ Len(arrBacktrackStack) \in Nat
      /\ DOMAIN arrBacktrackStack = 1..Len(arrBacktrackStack)
      /\ \A i \in 1..Len(arrBacktrackStack) : arrBacktrackStack[i].var \in Var
  <2>1. /\ Len(arrBacktrackStack) \in Nat
        /\ DOMAIN arrBacktrackStack = 1..Len(arrBacktrackStack)
        /\ arrBacktrackStack \in [1..Len(arrBacktrackStack) -> [var : Var, choice : BOOLEAN]]
    BY LenProperties
  <2> QED
    BY <2>1
<1>2. Trail = [i \in 1..Len(arrBacktrackStack) |-> arrBacktrackStack[i].var]
  BY <1>1 DEF Trail
<1> QED
  BY <1>1, <1>2

(* What was assigned before v. *)
LEMMA BeforeIs ==
  ASSUME IInv, NEW v \in Var
  PROVE  /\ Before(v) \subseteq Known /\ v \notin Before(v)
         /\ v \notin Known => Before(v) = Known /\ SolutionBefore(v) = arrSolution
         /\ SolutionBefore(v) \in Partial
<1>1. /\ DOMAIN Trail = 1..Len(Trail) /\ DOMAIN arrBacktrackStack = 1..Len(Trail)
      /\ Len(Trail) \in Nat
  BY TrailType DEF IInv, TypeOK
<1>2. \A x : x \in Known <=> \E i \in 1..Len(Trail) : Trail[i] = x
  BY <1>1 DEF IInv, TrailOk, ToSet
<1>3. \A x : x \in Before(v) <=> \E i \in 1..Len(Trail) :
                                   Trail[i] = x /\ \A h \in 1..i : Trail[h] # v
  BY <1>1 DEF Before
<1>4. Before(v) \subseteq Known /\ v \notin Before(v)
  BY <1>1, <1>2, <1>3
<1>5. ASSUME v \notin Known PROVE Before(v) = Known
  <2>1. \A h \in 1..Len(Trail) : Trail[h] # v
    BY <1>2, <1>5
  <2>2. \A i \in 1..Len(Trail) : \A h \in 1..i : Trail[h] # v
    BY <1>1, <2>1
  <2>3. \A x : x \in Before(v) <=> x \in Known
    BY <1>2, <1>3, <2>2
  <2> QED
    BY <2>3
<1>6. arrSolution \in Partial
  BY DEF IInv, TypeOK
<1>7. ASSUME v \notin Known PROVE SolutionBefore(v) = arrSolution
  BY <1>5, <1>6, <1>7 DEF SolutionBefore, Known, Partial
<1>8. SolutionBefore(v) \in Partial
  BY <1>6 DEF SolutionBefore, Partial
<1> QED
  BY <1>4, <1>5, <1>7, <1>8

LEMMA AssignedFacts ==
  ASSUME IInv, InferAssign
  PROVE  /\ pc = "infer" /\ ~popping /\ affected = {}
         /\ pc' = IF curFn = NoFn THEN "deduce" ELSE "check"
         /\ inferring.var \in Var /\ inferring.val \in Value
         /\ arrSolution \in Partial /\ arrSolution[inferring.var] = BOOL_UNKNOWN
         /\ arrSolution' = [arrSolution EXCEPT ![inferring.var] = inferring.val]
         /\ Known' = Known \cup {inferring.var} /\ inferring.var \notin Known
         /\ Trail \in Seq(Var) /\ Trail' = Append(Trail, inferring.var)
         /\ UNCHANGED <<problem, stackVars, arrChoicePointStack, nNumUnresolvedFunctions,
                        nextElt, arrFnInferenceQueue, arrFnInfPriority,
                        nLastFnInfPriority, updateVars, inferVars, resultVars>>
         /\ UNCHANGED <<fnState, arrChangedFn, arrFnStack, popping, nCurFnVersion, curFn,
                        curPriority, nextState, toCheck, inferring, solutions, errLimits,
                        ret>>
<1>1. /\ pc = "infer" /\ affected = {}
      /\ pc' = IF curFn = NoFn THEN "deduce" ELSE "check"
      /\ arrSolution' = [arrSolution EXCEPT ![inferring.var] = inferring.val]
      /\ arrBacktrackStack' =
           Append(arrBacktrackStack, [var |-> inferring.var, choice |-> inferring.choice])
      /\ UNCHANGED <<problem, stackVars, arrChoicePointStack, nNumUnresolvedFunctions,
                     nextElt, arrFnInferenceQueue, arrFnInfPriority,
                     nLastFnInfPriority, updateVars, inferVars, resultVars>>
  BY DEF InferAssign
<1>2. /\ ~popping /\ arrSolution[inferring.var] = BOOL_UNKNOWN
      /\ inferring.var \in Var /\ inferring.val \in Value /\ arrSolution \in Partial
      /\ inferring.choice \in BOOLEAN
      /\ arrBacktrackStack \in Seq([var : Var, choice : BOOLEAN])
  BY <1>1 DEF IInv, StackOk, InferOk, TypeOK
<1>3. Known' = Known \cup {inferring.var} /\ inferring.var \notin Known
  <2>1. inferring.val # BOOL_UNKNOWN
    BY <1>2, Values
  <2> QED
    BY <1>1, <1>2, <2>1 DEF Known, Partial
<1>4. Trail \in Seq(Var) /\ Trail' = Append(Trail, inferring.var)
  <2>1. PICK e \in [var : Var, choice : BOOLEAN] :
          /\ e.var = inferring.var
          /\ arrBacktrackStack' = Append(arrBacktrackStack, e)
    BY <1>1, <1>2
  <2>2. /\ arrBacktrackStack' \in Seq([var : Var, choice : BOOLEAN])
        /\ Len(arrBacktrackStack') = Len(arrBacktrackStack) + 1
        /\ \A i \in 1..Len(arrBacktrackStack) : arrBacktrackStack'[i] = arrBacktrackStack[i]
        /\ arrBacktrackStack'[Len(arrBacktrackStack) + 1] = e
    BY <1>2, <2>1, AppendProperties
  <2>3. /\ Trail \in Seq(Var) /\ Len(Trail) = Len(arrBacktrackStack) /\ Len(Trail) \in Nat
        /\ \A i \in 1..Len(Trail) : Trail[i] = arrBacktrackStack[i].var
    BY <1>2, TrailType
  <2>4. Trail' = [i \in DOMAIN arrBacktrackStack' |-> arrBacktrackStack'[i].var]
    BY DEF Trail
  <2>5. /\ Trail' \in Seq(Var) /\ Len(Trail') = Len(Trail) + 1
        /\ \A i \in 1..Len(Trail') : Trail'[i] = arrBacktrackStack'[i].var
    BY <2>2, <2>3, <2>4
  <2>6. /\ Append(Trail, inferring.var) \in Seq(Var)
        /\ Len(Append(Trail, inferring.var)) = Len(Trail) + 1
        /\ \A i \in 1..Len(Trail) : Append(Trail, inferring.var)[i] = Trail[i]
        /\ Append(Trail, inferring.var)[Len(Trail) + 1] = inferring.var
    BY <1>2, <2>3, AppendProperties
  <2>7. \A i \in 1..Len(Trail') : Trail'[i] = Append(Trail, inferring.var)[i]
    BY <2>1, <2>2, <2>3, <2>5, <2>6
  <2> QED
    BY <2>3, <2>5, <2>6, <2>7, SeqEqual
<1> QED
  BY <1>1, <1>2, <1>3, <1>4 DEF stackVars, updateVars, inferVars, resultVars

LEMMA BeforeAssigned ==
  ASSUME IInv, InferAssign, NEW v \in Var, v \in Known \/ v = inferring.var
  PROVE  Before(v)' = Before(v) /\ SolutionBefore(v)' = SolutionBefore(v)
<1>1. /\ inferring.var \in Var /\ inferring.var \notin Known
      /\ arrSolution \in Partial
      /\ arrSolution' = [arrSolution EXCEPT ![inferring.var] = inferring.val]
      /\ Trail \in Seq(Var) /\ Trail' = Append(Trail, inferring.var)
  BY AssignedFacts
<1>2. PICK n \in Nat : n = Len(Trail)
  BY <1>1, LenProperties
<1>3. /\ Len(Trail') = n + 1 /\ Trail'[n + 1] = inferring.var
      /\ \A i \in 1..n : Trail'[i] = Trail[i]
  BY <1>1, <1>2, AppendProperties
<1>4. DOMAIN arrBacktrackStack = 1..n /\ DOMAIN arrBacktrackStack' = 1..n + 1
  <2>1. DOMAIN Trail = DOMAIN arrBacktrackStack /\ DOMAIN Trail' = DOMAIN arrBacktrackStack'
    BY DEF Trail
  <2> QED
    BY <1>1, <1>2, <2>1
<1>5. \A x : x \in Before(v) <=> \E i \in 1..n : Trail[i] = x /\ \A h \in 1..i : Trail[h] # v
  BY <1>4 DEF Before
<1>6. \A x : x \in Before(v)' <=>
        \E i \in 1..n + 1 : Trail'[i] = x /\ \A h \in 1..i : Trail'[h] # v
  BY <1>4 DEF Before
<1>7. \E h \in 1..n + 1 : Trail'[h] = v
  <2>0. DOMAIN Trail = 1..n
    BY <1>1, <1>2, LenProperties
  <2>1. v \in Known => \E h \in 1..n : Trail[h] = v
    BY <2>0 DEF IInv, TrailOk, ToSet
  <2> QED
    BY <1>2, <1>3, <2>1
<1>8. \A x : x \in Before(v)' <=> x \in Before(v)
  <2> SUFFICES ASSUME NEW x PROVE x \in Before(v)' <=> x \in Before(v)
    OBVIOUS
  <2>1. ASSUME x \in Before(v)' PROVE x \in Before(v)
    <3>1. PICK i \in 1..n + 1 : Trail'[i] = x /\ \A h \in 1..i : Trail'[h] # v
      BY <1>6, <2>1
    <3>2. i # n + 1
      BY <1>2, <1>7, <3>1
    <3> QED
      BY <1>2, <1>3, <1>5, <3>1, <3>2
  <2>2. ASSUME x \in Before(v) PROVE x \in Before(v)'
    <3>1. PICK i \in 1..n : Trail[i] = x /\ \A h \in 1..i : Trail[h] # v
      BY <1>5, <2>2
    <3> QED
      BY <1>2, <1>3, <1>6, <3>1
  <2> QED
    BY <2>1, <2>2
<1>9. Before(v)' = Before(v) /\ inferring.var \notin Before(v)
  BY <1>1, <1>8, BeforeIs
<1> QED
  BY <1>1, <1>9 DEF SolutionBefore, Partial

LEMMA KnownFinite ==
  /\ IsFiniteSet(Var) /\ Cardinality(Var) = NumVars /\ NumVars \in Nat
  /\ IsFiniteSet(Known) /\ Known \subseteq Var
  /\ Cardinality(Known) \in Nat
  /\ \A v : IsFiniteSet(Known \cup {v})
<1>1. IsFiniteSet(Var) /\ Cardinality(Var) = NumVars /\ NumVars \in Nat
  <2>1. NumVars \in Nat /\ 1 \in Int /\ NumVars \in Int
    BY NumVarsAssumption
  <2>2. IsFiniteSet(1..NumVars)
        /\ Cardinality(1..NumVars) = IF 1 > NumVars THEN 0 ELSE NumVars - 1 + 1
    BY <2>1, FS_Interval
  <2> QED
    BY <2>1, <2>2 DEF Var
<1>2. Known \subseteq Var
  BY DEF Known
<1>3. IsFiniteSet(Known)
  BY <1>1, <1>2, FS_Subset
<1> QED
  BY <1>1, <1>2, <1>3, FS_CardinalityType, FS_AddElement

LEMMA ChoiceType ==
  ASSUME arrChoicePointStack \in Seq([var : Var, nNumUnresolved : Nat])
  PROVE  /\ Depth \in Nat /\ DOMAIN arrChoicePointStack = 1..Depth
         /\ \A j \in 1..Depth : /\ ChoiceVar(j) \in Var
                               /\ arrChoicePointStack[j].nNumUnresolved \in Nat
<1>1. /\ Depth \in Nat /\ DOMAIN arrChoicePointStack = 1..Depth
      /\ arrChoicePointStack \in [1..Depth -> [var : Var, nNumUnresolved : Nat]]
  BY LenProperties DEF Depth
<1>2. \A j \in 1..Depth : arrChoicePointStack[j] \in [var : Var, nNumUnresolved : Nat]
  BY <1>1
<1> QED
  BY <1>1, <1>2 DEF ChoiceVar

LEMMA AssignedCube ==
  ASSUME IInv, InferAssign
  PROVE  \A m : m \in Cube(arrSolution)' <=>
                  m \in Cube(arrSolution) /\ m[inferring.var] = inferring.val
<1>1. /\ inferring.var \in Var /\ inferring.val \in Value
      /\ arrSolution \in Partial /\ arrSolution[inferring.var] = BOOL_UNKNOWN
      /\ arrSolution' = [arrSolution EXCEPT ![inferring.var] = inferring.val]
  BY AssignedFacts
<1>2. PICK p \in Partial, v \in Var, b \in Value :
        p = arrSolution /\ v = inferring.var /\ b = inferring.val
  BY <1>1
<1>3. p[v] = BOOL_UNKNOWN
  BY <1>1, <1>2
<1>4. \A m : m \in Cube([p EXCEPT ![v] = b]) <=> m \in Cube(p) /\ m[v] = b
  BY ONLY <1>3, p \in Partial, v \in Var, b \in Value, CubeGrows
<1>5. Cube(arrSolution)' = Cube([p EXCEPT ![v] = b])
  BY <1>1, <1>2 DEF Cube
<1> QED
  BY <1>2, <1>4, <1>5

(* The branch is the one the literal was inferred in. *)
LEMMA AssignedSearch == ASSUME IInv, InferAssign PROVE SearchOk'
<1>1. /\ pc = "infer" /\ pc' \in {"deduce", "check"}
      /\ inferring.var \in Var /\ inferring.val \in Value
      /\ arrSolution \in Partial /\ arrSolution[inferring.var] = BOOL_UNKNOWN
      /\ arrSolution' = [arrSolution EXCEPT ![inferring.var] = inferring.val]
      /\ UNCHANGED <<problem, arrChoicePointStack, inferring, solutions>>
  BY AssignedFacts
<1>2. SearchOk /\ ChoicesOk /\ arrChoicePointStack \in Seq([var : Var, nNumUnresolved : Nat])
  BY DEF IInv, TypeOK
<1>3. Models' = Models /\ Found' = Found
  BY <1>1 DEF Models, Found
<1>4. \A m : m \in Here' <=> m \in Here
  <2>4. \A m : m \in Here' <=> m \in Cube(arrSolution)'
    BY <1>1 DEF Here
  <2>5. \A m : m \in Here <=> m \in Cube(arrSolution) /\ m[inferring.var] = inferring.val
    BY <1>1 DEF Here
  <2> QED
    BY <2>4, <2>5, AssignedCube
<1>5. Chosen' = Chosen /\ Chosen \subseteq Var
  BY <1>1, <1>2, ChoiceType DEF Chosen, Depth, ChoiceVar
<1>6. ASSUME NEW v \in Chosen PROVE OtherBranch(v)' = OtherBranch(v)
  <2>1. v \in Var /\ (v \in Known \/ v = inferring.var)
    BY <1>2, <1>5 DEF ChoicesOk, Chosen
  <2>2. SolutionBefore(v)' = SolutionBefore(v)
    BY <2>1, BeforeAssigned
  <2>3. ChosenValue(v)' = ChosenValue(v)
    <3>1. inferring.val # BOOL_UNKNOWN
      BY <1>1, Values
    <3> QED
      BY <1>1, <2>1, <3>1 DEF ChosenValue, Known, Partial
  <2> QED
    BY <2>2, <2>3 DEF OtherBranch
<1>7. \A m : m \in Later' <=> m \in Later
  BY <1>5, <1>6 DEF Later
<1> QED
  BY <1>1, <1>2, <1>3, <1>4, <1>7 DEF SearchOk

(* A state still follows the function when a variable is assigned. *)
LEMMA FollowsGrows ==
  ASSUME NEW s, NEW F, NEW p \in Partial, NEW v \in Var, p[v] = BOOL_UNKNOWN,
         NEW b \in Value, Follows(s, F, p)
  PROVE  /\ Follows(s, F, [p EXCEPT ![v] = b])
         /\ Settled(s, p) /\ v \notin Vbles(F) => Settled(s, [p EXCEPT ![v] = b])
<1>1. PICK q : q = [p EXCEPT ![v] = b]
  OBVIOUS
<1>2. \A w \in Var : w # v => q[w] = p[w]
  BY <1>1 DEF Partial
<1>3. \A m : m \in Cube(q) => m \in Cube(p)
  BY <1>1, CubeGrows
<1>4. Follows(s, F, q)
  BY <1>3 DEF Follows
<1>5. Settled(s, p) /\ v \notin Vbles(F) => Settled(s, q)
  BY <1>2 DEF Settled, Follows, Vbles
<1> QED
  BY <1>1, <1>4, <1>5

LEMMA AssignedTypes == ASSUME IInv, InferAssign PROVE TypeOK'
<1>1. /\ pc' = IF curFn = NoFn THEN "deduce" ELSE "check"
      /\ arrInferenceQueue' = Append(arrInferenceQueue, inferring.var)
      /\ arrBacktrackStack' = Append(arrBacktrackStack, [var |-> inferring.var,
                                                       choice |-> inferring.choice])
      /\ arrSolution' = [arrSolution EXCEPT ![inferring.var] = inferring.val]
      /\ nextElt' = nextElt
  BY DEF InferAssign
<1>2. /\ inferring \in [var : Var, val : Value, choice : BOOLEAN]
      /\ arrSolution \in Partial /\ arrInferenceQueue \in Seq(Var)
      /\ arrBacktrackStack \in Seq([var : Var, choice : BOOLEAN])
      /\ nextElt \in 0..Len(arrInferenceQueue)
  BY DEF IInv, TypeOK
<1>3. arrSolution' \in Partial
  BY <1>1, <1>2 DEF Partial
<1>4. arrInferenceQueue' \in Seq(Var) /\ nextElt' \in 0..Len(arrInferenceQueue')
  BY <1>1, <1>2
<1>5. arrBacktrackStack' \in Seq([var : Var, choice : BOOLEAN])
  BY <1>1, <1>2
<1>6. pc' \in PCs
  BY <1>1 DEF PCs
<1> QED
  BY <1>3, <1>4, <1>5, <1>6 DEF IInv, TypeOK, InferAssign, stackVars, updateVars,
     inferVars, resultVars

LEMMA AssignedTrail ==
  ASSUME IInv, InferAssign
  PROVE  TrailOk' /\ ChoicesOk' /\ LevelsOk' /\ VersionOk'
<1>1. /\ pc = "infer" /\ pc' \in {"deduce", "check"}
      /\ inferring.var \in Var /\ inferring.var \notin Known
      /\ Known' = Known \cup {inferring.var}
      /\ Trail \in Seq(Var) /\ Trail' = Append(Trail, inferring.var)
      /\ UNCHANGED <<problem, stackVars, nCurFnVersion, arrFnStack, arrChoicePointStack>>
  BY AssignedFacts DEF stackVars
<1>2. /\ TrailOk /\ ChoicesOk /\ LevelsOk /\ VersionOk /\ FSP!IInv
      /\ arrChoicePointStack \in Seq([var : Var, nNumUnresolved : Nat])
      /\ arrInferenceQueue \in Seq(Var) /\ nCurFnVersion \in Nat
  BY DEF IInv, TypeOK, StackOk
<1>3. TrailOk'
  <2>1. IsInjective(Trail)' /\ ToSet(Trail)' = Known'
    BY <1>1, <1>2, AppendToList DEF TrailOk
  <2>2. IsSuffix(arrInferenceQueue, Trail)'
    <3>1. arrInferenceQueue' = Append(arrInferenceQueue, inferring.var)
      BY DEF InferAssign
    <3>2. IsSuffix(arrInferenceQueue, Trail)
      BY <1>1, <1>2 DEF TrailOk
    <3> QED
      BY <1>1, <1>2, <3>1, <3>2, AppendToSuffix
  <2> QED
    BY <2>1, <2>2 DEF TrailOk
<1>4. Depth' = Depth /\ \A j : ChoiceVar(j)' = ChoiceVar(j)
  BY <1>1 DEF Depth, ChoiceVar
<1>5. ASSUME NEW j \in 1..Depth
      PROVE  /\ Before(ChoiceVar(j))' = Before(ChoiceVar(j))
             /\ SolutionBefore(ChoiceVar(j))' = SolutionBefore(ChoiceVar(j))
  <2>1. PICK v \in Var : v = ChoiceVar(j)
    BY <1>2, ChoiceType
  <2>2. v \in Known \/ v = inferring.var
    BY <1>2, <2>1 DEF ChoicesOk
  <2>3. Before(v)' = Before(v) /\ SolutionBefore(v)' = SolutionBefore(v)
    BY <2>2, BeforeAssigned
  <2>4. ChoiceVar(j)' = v
    BY <1>4, <2>1
  <2>5. Before(ChoiceVar(j))' = Before(v)'
    BY <2>4 DEF Before, Trail
  <2>6. SolutionBefore(ChoiceVar(j))' = SolutionBefore(v)'
    BY <2>5 DEF SolutionBefore
  <2> QED
    BY <2>1, <2>3, <2>5, <2>6
<1>6. ChoicesOk'
  BY <1>1, <1>2, <1>4, <1>5 DEF ChoicesOk
<1>7. LevelsOk'
  <2>1. StackKept
    BY <1>1, <1>2, StackUnchanged
  <2> QED
    BY <1>1, <1>2, <1>5, <2>1, LevelsStay DEF StackKept
<1>8. VersionOk'
  <2>1. Cardinality(Known') = Cardinality(Known) + 1 /\ Cardinality(Known) \in Nat
    BY <1>1, KnownFinite, FS_AddElement
  <2> QED
    BY <1>1, <1>2, <2>1 DEF VersionOk
<1> QED
  BY <1>3, <1>6, <1>7, <1>8

LEMMA InferAssignInv == ASSUME IInv, InferAssign PROVE IInv'
<1>1. /\ pc = "infer" /\ ~popping /\ affected = {}
      /\ pc' = IF curFn = NoFn THEN "deduce" ELSE "check"
      /\ inferring.var \in Var /\ inferring.val \in Value
      /\ arrSolution \in Partial /\ arrSolution[inferring.var] = BOOL_UNKNOWN
      /\ arrSolution' = [arrSolution EXCEPT ![inferring.var] = inferring.val]
      /\ Known' = Known \cup {inferring.var} /\ inferring.var \notin Known
      /\ UNCHANGED <<problem, stackVars, nNumUnresolvedFunctions,
                     arrFnInferenceQueue, arrFnInfPriority, nLastFnInfPriority>>
      /\ UNCHANGED <<fnState, arrChangedFn, popping, curFn, curPriority, nextState,
                     toCheck, solutions, errLimits, ret>>
  BY AssignedFacts
<1>2. curFn \in Fn \cup {NoFn} /\ NoFn \notin Fn
  BY FnAssumption DEF IInv, TypeOK, NoFn
<1>3. FSP!IInv' /\ StackKept
  BY <1>1, StackUnchanged DEF IInv, StackOk
<1>4. StackOk' /\ WhereOk' /\ WaitOk' /\ InferOk'
  BY <1>1, <1>2, <1>3 DEF IInv, StackOk, WhereOk, WaitOk, InferOk
<1>5. QueueOk' /\ ListsOk'
  BY <1>1, ListsKept DEF IInv
<1>6. CountOk'
  BY <1>1, <1>3 DEF IInv, CountOk, StackKept, Open
<1>7. PICK p \in Partial, v \in Var, b \in Value :
        p = arrSolution /\ v = inferring.var /\ b = inferring.val
  BY <1>1
<1>8. arrSolution' = [p EXCEPT ![v] = b] /\ p[v] = BOOL_UNKNOWN
  BY <1>1, <1>7
<1>9. StatesOk'
  <2> SUFFICES ASSUME NEW f \in Fn
               PROVE  /\ Follows(Current[f], problem[f], arrSolution)'
                      /\ arrChangedFn'[f] # 3 => Settled(Current[f], arrSolution)'
    <3>1. pc' # "pop"
      BY <1>1
    <3> QED
      BY <3>1 DEF StatesOk
  <2>1. /\ Follows(Current[f], problem[f], p)
        /\ arrChangedFn[f] # 3 => Settled(Current[f], p) /\ v \notin Vbles(problem[f])
    BY <1>1, <1>7 DEF IInv, StatesOk, InferOk, AFS
  <2>2. /\ Follows(Current[f], problem[f], [p EXCEPT ![v] = b])
        /\ Settled(Current[f], p) /\ v \notin Vbles(problem[f]) =>
             Settled(Current[f], [p EXCEPT ![v] = b])
    BY <1>8, <2>1, FollowsGrows
  <2>3. /\ Follows(Current[f], problem[f], arrSolution)'
             <=> Follows(Current[f], problem[f], [p EXCEPT ![v] = b])
        /\ Settled(Current[f], arrSolution)' <=> Settled(Current[f], [p EXCEPT ![v] = b])
    BY <1>1, <1>3, <1>8 DEF StackKept, Follows, Settled
  <2> QED
    BY <1>1, <2>1, <2>2, <2>3
<1>10. CheckOk'
  <2> SUFFICES ASSUME curFn \in Fn, pc' \in {"check", "infer"} PROVE CheckOk'
    BY <1>1 DEF CheckOk
  <2>1. ToInfer' = toCheck /\ ToInfer = toCheck \cup {<<v, b>>}
    BY <1>1, <1>2, <1>7 DEF ToInfer
  <2>2. ASSUME NEW m, m \in Cube(arrSolution)'
        PROVE  m \in Cube(arrSolution) /\ (Satisfies(m, toCheck) <=> Satisfies(m, ToInfer))
    <3>1. m \in Cube(arrSolution) /\ m[v] = b
      BY <1>7, <2>2, AssignedCube
    <3> QED
      BY <2>1, <3>1 DEF Satisfies
  <2>3. \A w \in Known : arrSolution'[w] = arrSolution[w] /\ w \in Known'
    BY <1>1 DEF Known, Partial
  <2>4. /\ fnState[curFn] # true_ptr
        /\ \A m \in Cube(arrSolution) :
             /\ Satisfies(m, ToInfer) => (m \in problem[curFn] <=> m \in nextState)
             /\ m \in problem[curFn] => Satisfies(m, ToInfer)
        /\ Vbles(nextState) \subseteq Vbles(problem[curFn])
        /\ nextState # false_ptr => Normalized(nextState)
        /\ nextState = false_ptr => \E w \in Known : <<w, 1 - arrSolution[w]>> \in toCheck
    BY <1>1 DEF IInv, CheckOk
  <2>5. /\ fnState'[curFn'] # true_ptr
        /\ \A m \in Cube(arrSolution)' :
             /\ Satisfies(m, ToInfer') => (m \in problem'[curFn'] <=> m \in nextState')
             /\ m \in problem'[curFn'] => Satisfies(m, ToInfer')
    BY <1>1, <2>1, <2>2, <2>4
  <2>6. nextState' = false_ptr =>
          \E w \in Known' : <<w, 1 - arrSolution'[w]>> \in toCheck'
    <3> SUFFICES ASSUME nextState' = false_ptr
                 PROVE  \E w \in Known' : <<w, 1 - arrSolution'[w]>> \in toCheck'
      OBVIOUS
    <3>1. PICK w \in Known : <<w, 1 - arrSolution[w]>> \in toCheck
      BY <1>1, <2>4
    <3>2. w \in Known' /\ <<w, 1 - arrSolution'[w]>> \in toCheck'
      BY <1>1, <2>3, <3>1
    <3> QED
      BY <3>2
  <2> QED
    BY <1>1, <2>4, <2>5, <2>6 DEF CheckOk
<1>11. SearchOk' /\ VerdictOk'
  BY <1>1, AssignedSearch, VerdictKept DEF IInv
<1> QED
  BY <1>4, <1>5, <1>6, <1>9, <1>10, <1>11, AssignedTypes, AssignedTrail DEF IInv

-----------------------------------------------------------------------------
(* SelectNewBranchPoint *)

LEMMA NoneWaits ==
  ASSUME IInv, pc = "deduced"
  PROVE  \A f \in Fn : arrChangedFn[f] # 3
<1> SUFFICES ASSUME NEW f \in Fn, arrChangedFn[f] = 3 PROVE FALSE
  OBVIOUS
<1>1. PICK p \in 0..MAX_FN_PRIORITY - 1 : p = FnPriority[f]
  BY PriorityType
<1>2. f \in ToSet(arrFnInfPriority[p]) /\ arrFnInfPriority[p] = <<>>
  BY <1>1 DEF IInv, ListsOk, ListOk, WaitOk
<1> QED
  BY <1>2 DEF ToSet

(* A choice of v with value val, after a deduction that left no function   *)
(* waiting. *)
NewBranch(v, val) ==
  /\ pc = "deduced" /\ pc' = "infer" /\ ~popping /\ curFn = NoFn
  /\ v \notin Known
  /\ \A f \in Fn : arrChangedFn[f] # 3
  /\ arrChangedFn' = [f \in Fn |-> 0]
  /\ \A p \in 0..MAX_FN_PRIORITY - 1 : arrFnInfPriority[p] = <<>>
  /\ FSP!FnStackPushFunctionLevel
  /\ nCurFnVersion' = nCurFnVersion + 1
  /\ arrFnInferenceQueue' = <<>>
  /\ arrChoicePointStack' =
       Append(arrChoicePointStack, [var |-> v, nNumUnresolved |-> nNumUnresolvedFunctions])
  /\ inferring' = [var |-> v, val |-> val, choice |-> FALSE]
  /\ affected' = AFS(v)
  /\ UNCHANGED <<problem, fnState, arrFnFlags, popping, arrSolution,
                 arrBacktrackStack, nNumUnresolvedFunctions, arrInferenceQueue,
                 nextElt, arrFnInfPriority, nLastFnInfPriority, updateVars,
                 resultVars>>
  /\ UNCHANGED <<curFn, solutions, errLimits, ret>>

LEMMA BranchChosen ==
  ASSUME IInv, SelectNewBranchPoint
  PROVE  \E v \in Var, val \in Value : NewBranch(v, val)
<1>1. PICK v \in Var, val \in Value :
        /\ arrSolution[v] = BOOL_UNKNOWN
        /\ arrChoicePointStack' =
             Append(arrChoicePointStack,
                    [var |-> v, nNumUnresolved |-> nNumUnresolvedFunctions])
        /\ inferring' = [var |-> v, val |-> val, choice |-> FALSE]
        /\ affected' = AFS(v)
  BY DEF SelectNewBranchPoint
<1>2. /\ pc = "deduced" /\ pc' = "infer"
      /\ arrChangedFn' = [f \in Fn |-> IF f \in ToSet(arrFnInferenceQueue) THEN 0
                                       ELSE arrChangedFn[f]]
      /\ nCurFnVersion' = nCurFnVersion + 1
      /\ FS!Push(FS!Mark(nCurFnVersion'))
      /\ arrFnInferenceQueue' = <<>>
      /\ UNCHANGED <<problem, fnState, arrFnFlags, popping, arrSolution,
                     arrBacktrackStack, nNumUnresolvedFunctions, arrInferenceQueue,
                     nextElt, arrFnInfPriority, nLastFnInfPriority, updateVars,
                     resultVars>>
  BY DEF SelectNewBranchPoint, NewVersion
<1>3. /\ ~popping /\ curFn = NoFn /\ v \notin Known
      /\ QueueOk /\ ListsOk /\ VersionOk /\ nCurFnVersion \in Nat
      /\ \A p \in 0..MAX_FN_PRIORITY - 1 : arrFnInfPriority[p] = <<>>
  BY <1>1, <1>2 DEF IInv, StackOk, WhereOk, WaitOk, TypeOK, Known
<1>4. \A f \in Fn : arrChangedFn[f] # 3
  BY <1>2, NoneWaits
<1>5. arrChangedFn' = [f \in Fn |-> 0]
  BY <1>2, <1>3 DEF QueueOk
<1>6. nCurFnVersion < NumVars + 1
  <2>1. Cardinality(Known) < NumVars /\ Cardinality(Known) \in Nat
    <3>1. Known # Var
      BY <1>3
    <3>2. Cardinality(Known) # Cardinality(Var)
      BY <3>1, KnownFinite, FS_Subset
    <3>3. Cardinality(Known) <= Cardinality(Var)
      BY KnownFinite, FS_Subset
    <3> QED
      BY <3>2, <3>3, KnownFinite
  <2>2. nCurFnVersion <= 1 + Cardinality(Known)
    BY <1>2, <1>3, <2>1 DEF VersionOk
  <2> QED
    BY <1>3, <2>1, <2>2, KnownFinite
<1>7. FSP!FnStackPushFunctionLevel
  <2>1. FSP!Push(FSP!Mark(nCurFnVersion'))
    BY <1>2 DEF FS!Push, FS!Mark, FS!LEVEL_START, FSP!Push, FSP!Mark, FSP!LEVEL_START
  <2> QED
    BY <1>2, <1>3, <1>4, <1>5, <1>6, <2>1 DEF FSP!FnStackPushFunctionLevel
<1>8. NewBranch(v, val)
  BY <1>1, <1>2, <1>3, <1>4, <1>5, <1>7 DEF NewBranch, updateVars, resultVars
<1> QED
  BY <1>8

(* The choice points of the new branch. *)
LEMMA NewChoice ==
  ASSUME IInv, NEW v \in Var, NEW val \in Value, NewBranch(v, val)
  PROVE  /\ arrChoicePointStack' \in Seq([var : Var, nNumUnresolved : Nat])
         /\ Depth \in Nat /\ Depth' = Depth + 1
         /\ \A j \in 1..Depth : /\ arrChoicePointStack'[j] = arrChoicePointStack[j]
                                /\ ChoiceVar(j)' = ChoiceVar(j) /\ ChoiceVar(j) \in Known
         /\ ChoiceVar(Depth)' = v
         /\ arrChoicePointStack'[Depth'].nNumUnresolved = nNumUnresolvedFunctions
<1>1. /\ arrChoicePointStack \in Seq([var : Var, nNumUnresolved : Nat])
      /\ nNumUnresolvedFunctions \in Nat /\ ChoicesOk /\ pc = "deduced"
  BY DEF IInv, TypeOK, NewBranch
<1>2. PICK c \in [var : Var, nNumUnresolved : Nat] :
        /\ c = [var |-> v, nNumUnresolved |-> nNumUnresolvedFunctions]
        /\ arrChoicePointStack' = Append(arrChoicePointStack, c)
  BY <1>1 DEF NewBranch
<1>3. /\ arrChoicePointStack' \in Seq([var : Var, nNumUnresolved : Nat])
      /\ Depth \in Nat /\ Depth' = Depth + 1
      /\ \A j \in 1..Depth : arrChoicePointStack'[j] = arrChoicePointStack[j]
      /\ arrChoicePointStack'[Depth + 1] = c
  <2>1. /\ Append(arrChoicePointStack, c) \in Seq([var : Var, nNumUnresolved : Nat])
        /\ Len(arrChoicePointStack) \in Nat
        /\ Len(Append(arrChoicePointStack, c)) = Len(arrChoicePointStack) + 1
        /\ \A j \in 1..Len(arrChoicePointStack) :
             Append(arrChoicePointStack, c)[j] = arrChoicePointStack[j]
        /\ Append(arrChoicePointStack, c)[Len(arrChoicePointStack) + 1] = c
    BY <1>1, AppendProperties
  <2> QED
    BY <1>2, <2>1 DEF Depth
<1>4. ChoiceVar(Depth)' = arrChoicePointStack'[Depth'].var
  BY DEF ChoiceVar
<1>5. \A j \in 1..Depth : ChoiceVar(j)' = ChoiceVar(j) /\ ChoiceVar(j) \in Known
  BY <1>1, <1>3 DEF ChoiceVar, ChoicesOk
<1>6. ChoiceVar(Depth)' = v /\ arrChoicePointStack'[Depth'].nNumUnresolved = nNumUnresolvedFunctions
  <2>1. arrChoicePointStack'[Depth'] = c
    BY <1>3
  <2>2. c.var = v /\ c.nNumUnresolved = nNumUnresolvedFunctions
    BY <1>2
  <2> QED
    BY <1>4, <2>1, <2>2
<1> QED
  BY <1>3, <1>5, <1>6

LEMMA ChosenLists ==
  ASSUME IInv, NEW v \in Var, NEW val \in Value, NewBranch(v, val)
  PROVE  /\ TypeOK' /\ StackOk' /\ WhereOk' /\ WaitOk' /\ QueueOk' /\ ListsOk'
         /\ InferOk' /\ CheckOk'
<1>1. /\ pc = "deduced" /\ pc' = "infer" /\ ~popping /\ curFn = NoFn /\ v \notin Known
      /\ arrChangedFn' = [f \in Fn |-> 0]
      /\ \A p \in 0..MAX_FN_PRIORITY - 1 : arrFnInfPriority[p] = <<>>
      /\ FSP!FnStackPushFunctionLevel
      /\ nCurFnVersion' = nCurFnVersion + 1
      /\ arrFnInferenceQueue' = <<>>
      /\ inferring' = [var |-> v, val |-> val, choice |-> FALSE]
      /\ affected' = AFS(v)
      /\ UNCHANGED <<problem, fnState, arrFnFlags, popping, arrSolution,
                     arrBacktrackStack, nNumUnresolvedFunctions, arrInferenceQueue,
                     nextElt, arrFnInfPriority, nLastFnInfPriority, updateVars,
                     resultVars>>
      /\ curFn' = curFn
  BY DEF NewBranch
<1>2. FSP!IInv'
  <2>1. PICK n \in Nat : n = Len(arrFnStack) + 1
    BY DEF IInv, TypeOK
  <2> QED
    BY <1>1, <2>1, LevelOpened DEF IInv, StackOk
<1>3. TypeOK'
  <2>1. arrFnStack' \in Seq(FS!StackEntry)
    BY <1>2 DEF FSP!IInv, FSP!TypeOK, FSP!StackEntry, FS!StackEntry, FSP!LEVEL_START,
                FS!LEVEL_START
  <2>2. arrChangedFn' \in [Fn -> {0, 2, 3}] /\ nCurFnVersion' \in Nat /\ pc' \in PCs
        /\ arrFnInferenceQueue' \in Seq(Fn) /\ affected' \subseteq Fn
        /\ inferring' \in [var : Var, val : Value, choice : BOOLEAN]
    BY <1>1 DEF IInv, TypeOK, PCs, AFS
  <2>3. arrChoicePointStack' \in Seq([var : Var, nNumUnresolved : Nat])
    BY NewChoice
  <2> QED
    BY <1>1, <2>1, <2>2, <2>3 DEF IInv, TypeOK, updateVars, resultVars
<1>4. curFn' \notin Fn /\ pc' = "infer"
  BY <1>1, FnAssumption DEF NoFn
<1>5. StackOk' /\ WhereOk' /\ WaitOk' /\ CheckOk'
  BY <1>1, <1>2, <1>4 DEF IInv, StackOk, WhereOk, WaitOk, CheckOk
<1>6. QueueOk'
  BY <1>1 DEF QueueOk, IsInjective, ToSet
<1>7. ListsOk'
  <2> SUFFICES ASSUME NEW p \in 0..MAX_FN_PRIORITY - 1 PROVE ListOk(p)'
    BY DEF ListsOk
  <2>1. arrFnInfPriority'[p] = <<>>
    BY <1>1
  <2>2. {f \in Fn : arrChangedFn'[f] = 3 /\ FnPriority[f] = p} = {}
    BY <1>1
  <2> QED
    BY <2>1, <2>2 DEF ListOk, IsInjective, ToSet
<1>8. InferOk'
  <2>1. inferring'.var = v
    BY <1>1
  <2>2. AFS(inferring.var)' = AFS(v)
    BY <1>1, <2>1 DEF AFS
  <2> QED
    BY <1>1, <2>1, <2>2 DEF InferOk, Known
<1> QED
  BY <1>3, <1>5, <1>6, <1>7, <1>8

(* The new level has the states of this moment. *)
LEMMA ChosenLevels ==
  ASSUME IInv, NEW v \in Var, NEW val \in Value, NewBranch(v, val)
  PROVE  TrailOk' /\ ChoicesOk' /\ VersionOk' /\ StatesOk' /\ CountOk' /\ LevelsOk'
<1>1. /\ pc = "deduced" /\ pc' = "infer" /\ curFn' = NoFn /\ v \notin Known
      /\ \A f \in Fn : arrChangedFn[f] # 3
      /\ arrChangedFn' = [f \in Fn |-> 0]
      /\ FSP!FnStackPushFunctionLevel
      /\ nCurFnVersion' = nCurFnVersion + 1
      /\ inferring'.var = v
      /\ UNCHANGED <<problem, arrSolution, arrBacktrackStack, nNumUnresolvedFunctions,
                     arrInferenceQueue>>
  BY DEF NewBranch
<1>2. /\ TrailOk /\ ChoicesOk /\ VersionOk /\ StatesOk /\ CountOk /\ LevelsOk
      /\ nCurFnVersion \in Nat /\ FSP!IInv
  BY DEF IInv, TypeOK, StackOk
<1>3. PICK n \in Nat : n = Len(arrFnStack) + 1
  BY DEF IInv, TypeOK
<1>4. /\ Current' = Current
      /\ Levels \subseteq Nat /\ \A l \in Levels : l < n
      /\ Levels' = Levels \cup {n}
      /\ Snapshot' = [l \in Levels \cup {n} |-> IF l = n THEN Current ELSE Snapshot[l]]
      /\ \A l \in Levels : arrFnStack'[l] = arrFnStack[l]
      /\ arrFnStack'[n].prev_version = nCurFnVersion'
  BY <1>1, <1>2, <1>3, LevelOpened
<1>5. /\ Trail' = Trail /\ Known' = Known
      /\ \A w : Before(w)' = Before(w) /\ SolutionBefore(w)' = SolutionBefore(w)
  BY <1>1, BeforeKept
<1>6. Before(v) = Known /\ SolutionBefore(v) = arrSolution
  BY <1>1, BeforeIs
<1>7. /\ Depth \in Nat /\ Depth' = Depth + 1
      /\ \A j \in 1..Depth : /\ arrChoicePointStack'[j] = arrChoicePointStack[j]
                             /\ ChoiceVar(j)' = ChoiceVar(j) /\ ChoiceVar(j) \in Known
      /\ ChoiceVar(Depth)' = v
      /\ arrChoicePointStack'[Depth'].nNumUnresolved = nNumUnresolvedFunctions
  BY NewChoice
<1>8. TrailOk'
  BY <1>1, <1>2, <1>5 DEF TrailOk
<1>9. VersionOk' /\ nCurFnVersion' <= 2 + Cardinality(Known)
  BY <1>1, <1>2, <1>5, KnownFinite DEF VersionOk
<1>10. CountOk'
  BY <1>1, <1>2, <1>4 DEF CountOk, Open
<1>11. StatesOk'
  BY <1>1, <1>2, <1>4 DEF StatesOk, Follows
<1>12. ChoicesOk'
  <2>1. ASSUME NEW j \in 1..Depth', NEW k \in 1..Depth', j < k
        PROVE  ChoiceVar(j)' \in Before(ChoiceVar(k))'
    <3>1. j \in 1..Depth /\ (k \in 1..Depth \/ k = Depth')
      BY <1>7, <2>1
    <3>2. PICK w : w = ChoiceVar(k)'
      OBVIOUS
    <3>3. Before(ChoiceVar(k))' = Before(w)'
      BY <3>2 DEF Before, Trail
    <3>4. ChoiceVar(j) \in Before(w)
      <4>1. CASE k \in 1..Depth
        BY <1>2, <1>7, <2>1, <3>1, <3>2, <4>1 DEF ChoicesOk
      <4>2. CASE k = Depth'
        <5>1. w = v
          BY <1>7, <3>2, <4>2
        <5> QED
          BY <1>6, <1>7, <3>1, <5>1
      <4> QED
        BY <3>1, <4>1, <4>2
    <3> QED
      BY <1>5, <1>7, <3>1, <3>3, <3>4
  <2>2. ASSUME NEW j \in 1..Depth'
        PROVE  ChoiceVar(j)' \in Known' \/ ChoiceVar(j)' = inferring'.var
    <3>1. j \in 1..Depth \/ j = Depth'
      BY <1>7
    <3>2. j = Depth' => ChoiceVar(j)' = v
      BY <1>7
    <3> QED
      BY <1>1, <1>5, <1>7, <3>1, <3>2
  <2> QED
    BY <1>1, <2>1, <2>2 DEF ChoicesOk
<1>13. LevelsOk'
  <2>1. PICK lev \in [1..Depth -> Levels] :
          InOrder(lev) /\ \A j \in 1..Depth : LevelOk(j, lev[j])
    BY <1>2 DEF LevelsOk
  <2>2. PICK new : new = [j \in 1..Depth + 1 |-> IF j = Depth + 1 THEN n ELSE lev[j]]
    OBVIOUS
  <2>3. /\ new \in [1..Depth' -> Levels']
        /\ new[Depth'] = n /\ \A j \in 1..Depth : new[j] = lev[j] /\ lev[j] \in Levels
    BY <1>4, <1>7, <2>1, <2>2
  <2>4. InOrder(new)'
    <3>1. ASSUME NEW j \in 1..Depth', NEW k \in 1..Depth', j < k PROVE new[j] < new[k]
      <4>1. j \in 1..Depth /\ (k \in 1..Depth \/ k = Depth')
        BY <1>7, <3>1
      <4> QED
        BY <1>4, <2>1, <2>3, <3>1, <4>1 DEF InOrder
    <3>2. ASSUME NEW l \in Levels' PROVE \E j \in 1..Depth' : new[j] = l
      <4>1. Depth' \in 1..Depth' /\ \A j \in 1..Depth : j \in 1..Depth'
        BY <1>7
      <4>2. CASE l = n
        BY <2>3, <4>1, <4>2
      <4>3. CASE l \in Levels
        BY <2>1, <2>3, <4>1, <4>3 DEF InOrder
      <4> QED
        BY <1>4, <4>2, <4>3
    <3> QED
      BY <3>1, <3>2 DEF InOrder
  <2>5. ASSUME NEW j \in 1..Depth' PROVE LevelOk(j, new[j])'
    <3>1. CASE j \in 1..Depth
      <4>1. LevelOk(j, lev[j]) /\ lev[j] \in Levels /\ lev[j] # n /\ new[j] = lev[j]
        BY <1>4, <2>1, <2>3, <3>1
      <4>2. Snapshot'[lev[j]] = Snapshot[lev[j]]
        BY <1>4, <4>1
      <4>3. Open(Snapshot[lev[j]])' = Open(Snapshot[lev[j]])
        BY <4>2 DEF Open
      <4>4. /\ Before(ChoiceVar(j))' = Before(ChoiceVar(j))
            /\ SolutionBefore(ChoiceVar(j))' = SolutionBefore(ChoiceVar(j))
        <5>1. PICK w : w = ChoiceVar(j) /\ ChoiceVar(j)' = w
          BY <1>7, <3>1
        <5> QED
          BY <1>5, <5>1, SameChoice
      <4> QED
        BY <1>1, <1>4, <1>7, <3>1, <4>1, <4>2, <4>3, <4>4 DEF LevelOk
    <3>2. CASE j = Depth'
      <4>1. new[j] = n /\ Snapshot'[n] = Current /\ ChoiceVar(j)' = v
        BY <1>4, <1>7, <2>3, <3>2
      <4>2. Before(ChoiceVar(j))' = Known /\ SolutionBefore(ChoiceVar(j))' = arrSolution
        BY <1>5, <1>6, <4>1, SameChoice
      <4>3. \A f \in Fn : Follows(Current[f], problem[f], arrSolution)
                          /\ Settled(Current[f], arrSolution)
        BY <1>1, <1>2 DEF StatesOk
      <4>4. Open(Snapshot[n])' = Open(Current)
        BY <4>1 DEF Open
      <4>5. arrChoicePointStack'[j].nNumUnresolved = Cardinality(Open(Current))
        BY <1>2, <1>7, <3>2 DEF CountOk
      <4>6. arrFnStack'[n].prev_version <= 2 + Cardinality(Known)
        BY <1>4, <1>9
      <4> QED
        BY <1>1, <4>1, <4>2, <4>3, <4>4, <4>5, <4>6 DEF LevelOk
    <3> QED
      BY <1>7, <3>1, <3>2
  <2> QED
    BY <2>3, <2>4, <2>5 DEF LevelsOk
<1> QED
  BY <1>8, <1>9, <1>10, <1>11, <1>12, <1>13

(* What was to be looked at here is split between the value chosen and the *)
(* other one. *)
LEMMA ChosenSearch ==
  ASSUME IInv, NEW v \in Var, NEW val \in Value, NewBranch(v, val)
  PROVE  SearchOk'
<1>1. /\ pc = "deduced" /\ pc' = "infer" /\ v \notin Known
      /\ inferring' = [var |-> v, val |-> val, choice |-> FALSE]
      /\ UNCHANGED <<problem, arrSolution, arrBacktrackStack, solutions>>
  BY DEF NewBranch
<1>2. Models' = Models /\ Found' = Found /\ SearchOk
  BY <1>1 DEF Models, Found, IInv
<1>3. /\ Depth \in Nat /\ Depth' = Depth + 1
      /\ \A j \in 1..Depth : ChoiceVar(j)' = ChoiceVar(j) /\ ChoiceVar(j) \in Known
      /\ ChoiceVar(Depth)' = v
  BY NewChoice
<1>4. Chosen' = Chosen \cup {v} /\ Chosen \subseteq Known
  <2>1. ASSUME NEW x \in Chosen' PROVE x \in Chosen \/ x = v
    <3>1. PICK j \in 1..Depth' : x = ChoiceVar(j)'
      BY <2>1 DEF Chosen
    <3>2. j \in 1..Depth \/ j = Depth'
      BY <1>3
    <3> QED
      BY <1>3, <3>1, <3>2 DEF Chosen
  <2>2. ASSUME NEW x \in Chosen PROVE x \in Chosen' /\ x \in Known
    <3>1. PICK j \in 1..Depth : x = ChoiceVar(j)
      BY DEF Chosen
    <3>2. j \in 1..Depth' /\ x = ChoiceVar(j)' /\ x \in Known
      BY <1>3, <3>1
    <3> QED
      BY <3>2 DEF Chosen
  <2>3. v \in Chosen'
    <3>1. Depth' \in 1..Depth'
      BY <1>3
    <3>2. \E j \in 1..Depth' : v = ChoiceVar(j)'
      BY <1>3, <3>1
    <3> QED
      BY <3>2 DEF Chosen
  <2> QED
    BY <2>1, <2>2, <2>3
<1>5. /\ \A w : SolutionBefore(w)' = SolutionBefore(w)
      /\ SolutionBefore(v) = arrSolution
  BY <1>1, BeforeKept, BeforeIs
<1>6. \A u \in Chosen : OtherBranch(u)' = OtherBranch(u)
  <2>1. \A u \in Known : ChosenValue(u)' = ChosenValue(u)
    BY <1>1 DEF ChosenValue, Known
  <2> QED
    BY <1>4, <1>5, <2>1 DEF OtherBranch
<1>7. \A m : m \in OtherBranch(v)' <=> m \in Cube(arrSolution) /\ m[v] # val
  <2>1. ChosenValue(v)' = val
    BY <1>1 DEF ChosenValue, Known
  <2> QED
    BY <1>5, <2>1 DEF OtherBranch
<1>8. \A m : m \in Here' <=> m \in Cube(arrSolution) /\ m[v] = val
  <2>1. \A m : m \in Here' <=> m \in Cube(arrSolution)' /\ m[inferring'.var] = inferring'.val
    BY <1>1 DEF Here
  <2>2. Cube(arrSolution)' = Cube(arrSolution)
    BY <1>1
  <2> QED
    BY <1>1, <2>1, <2>2
<1>9. Here = Cube(arrSolution)
  BY <1>1 DEF Here
<1>10. \A m : m \in Later' <=> m \in Later \/ m \in OtherBranch(v)'
  <2>1. \A m : m \in OtherBranch(v)' => m \in Assignment
    BY <1>7 DEF Cube
  <2> QED
    BY <1>4, <1>6, <2>1 DEF Later
<1> QED
  BY <1>1, <1>2, <1>7, <1>8, <1>9, <1>10 DEF SearchOk

LEMMA SelectNewBranchPointInv == ASSUME IInv, SelectNewBranchPoint PROVE IInv'
<1>1. PICK v \in Var, val \in Value : NewBranch(v, val)
  BY BranchChosen
<1>2. VerdictOk'
  BY <1>1, VerdictKept DEF NewBranch, IInv
<1> QED
  BY <1>1, <1>2, ChosenLists, ChosenLevels, ChosenSearch DEF IInv

-----------------------------------------------------------------------------
(* RecordSolution *)

(* When no function is left, all of the branch are models. *)
LEMMA AllModels ==
  ASSUME IInv, pc = "deduced", nNumUnresolvedFunctions = 0
  PROVE  /\ \A m \in Cube(arrSolution) : m \in Models
         /\ Here = Cube(arrSolution)
<1>1. Here = Cube(arrSolution)
  BY DEF Here
<1>2. \A f \in Fn : Current[f] = true_ptr
  <2>1. Cardinality(Open(Current)) = 0 /\ IsFiniteSet(Open(Current))
    BY FnAssumption, FS_Subset DEF IInv, CountOk, Open
  <2>2. Open(Current) = {}
    BY <2>1, FS_EmptySet
  <2> QED
    BY <2>2 DEF Open
<1>3. ASSUME NEW m \in Cube(arrSolution) PROVE m \in Models
  <2>1. m \in Assignment
    BY DEF Cube
  <2>2. \A f \in Fn : m \in Current[f]
    BY <1>2, <2>1 DEF true_ptr
  <2>3. \A f \in Fn : m \in problem[f]
    BY <1>3, <2>2 DEF IInv, StatesOk, Follows
  <2> QED
    BY <2>1, <2>3 DEF Models
<1> QED
  BY <1>1, <1>3

LEMMA FoundGrows ==
  ASSUME solutions \in Seq(Partial), NEW p \in Partial, solutions' = Append(solutions, p)
  PROVE  /\ solutions' \in Seq(Partial) /\ solutions' # <<>>
         /\ \A m : m \in Found' <=> m \in Found \/ m \in Cube(p)
<1>1. /\ solutions' \in Seq(Partial) /\ solutions' # <<>>
      /\ Len(solutions) \in Nat /\ Len(solutions') = Len(solutions) + 1
      /\ \A i \in 1..Len(solutions) : solutions'[i] = solutions[i]
      /\ solutions'[Len(solutions) + 1] = p
  BY AppendProperties
<1>2. DOMAIN solutions = 1..Len(solutions) /\ DOMAIN solutions' = 1..Len(solutions) + 1
  BY <1>1, LenProperties
<1>3. \A m : m \in Found <=> \E i \in 1..Len(solutions) : m \in Cube(solutions[i])
  BY <1>2 DEF Found
<1>4. \A m : m \in Found' <=> \E i \in 1..Len(solutions) + 1 : m \in Cube(solutions'[i])
  <2>1. Found' = UNION {Cube(solutions'[i]) : i \in DOMAIN solutions'}
    BY DEF Found, Cube
  <2> QED
    BY <1>2, <2>1
<1>5. ASSUME NEW m PROVE m \in Found' <=> m \in Found \/ m \in Cube(p)
  <2>1. ASSUME m \in Found' PROVE m \in Found \/ m \in Cube(p)
    <3>1. PICK i \in 1..Len(solutions) + 1 : m \in Cube(solutions'[i])
      BY <1>4, <2>1
    <3>2. i \in 1..Len(solutions) \/ i = Len(solutions) + 1
      BY <1>1
    <3> QED
      BY <1>1, <1>3, <3>1, <3>2
  <2>2. ASSUME m \in Found PROVE m \in Found'
    BY <1>1, <1>3, <1>4, <2>2
  <2>3. ASSUME m \in Cube(p) PROVE m \in Found'
    <3>1. Len(solutions) + 1 \in 1..Len(solutions) + 1
      BY <1>1
    <3> QED
      BY <1>1, <1>4, <2>3, <3>1
  <2> QED
    BY <2>1, <2>2, <2>3
<1> QED
  BY <1>1, <1>5

LEMMA RecordSolutionInv == ASSUME IInv, RecordSolution PROVE IInv'
<1>1. /\ pc = "deduced" /\ nNumUnresolvedFunctions = 0
      /\ solutions' = Append(solutions, arrSolution)
      /\ pc' = IF Len(solutions') = MaxSolutions THEN "finish" ELSE "backtrack"
      /\ UNCHANGED <<problem, stackVars, trailVars, nNumUnresolvedFunctions,
                     queueVars, updateVars, inferVars, backtracks, errLimits, ret>>
  BY DEF RecordSolution
<1>2. UNCHANGED <<arrSolution, arrBacktrackStack, arrChoicePointStack, curFn, inferring,
                  arrInferenceQueue, arrFnInferenceQueue, arrFnInfPriority>>
  BY <1>1 DEF trailVars, updateVars, inferVars, queueVars
<1>3. /\ solutions \in Seq(Partial) /\ arrSolution \in Partial /\ SearchOk /\ VerdictOk
  BY DEF IInv, TypeOK
<1>4. /\ solutions' \in Seq(Partial) /\ solutions' # <<>>
      /\ \A m : m \in Found' <=> m \in Found \/ m \in Cube(arrSolution)
  <2>1. PICK p \in Partial : p = arrSolution
    BY <1>3
  <2> QED
    BY <1>1, <1>3, <2>1, FoundGrows
<1>5. TypeOK'
  <2>1. pc' \in PCs
    BY <1>1 DEF PCs
  <2> QED
    BY <1>1, <1>4, <2>1 DEF IInv, TypeOK, stackVars, trailVars, queueVars, updateVars,
       inferVars
<1>6. /\ \A m \in Cube(arrSolution) : m \in Models
      /\ Here = Cube(arrSolution)
  BY <1>1, AllModels
<1>7. SearchOk'
  <2>1. Models' = Models /\ Later' = Later
    BY <1>1, <1>2, LaterKept DEF Models
  <2>2. Here' = {}
    BY <1>1 DEF Here
  <2>3. \A m \in Found : m \in Models
    BY <1>3 DEF SearchOk
  <2>4. \A m \in Cube(arrSolution) : m \notin Later
    <3> SUFFICES ASSUME NEW m \in Cube(arrSolution), m \in Later PROVE FALSE
      OBVIOUS
    <3>1. PICK v \in Chosen : m \in OtherBranch(v)
      BY DEF Later
    <3>2. v \in Known /\ v \in Var
      BY <1>1 DEF IInv, ChoicesOk, Chosen, Known
    <3>3. m[v] = arrSolution[v]
      BY <1>3, <3>2, CubeIs DEF Cube, Known
    <3> QED
      BY <3>1, <3>2, <3>3 DEF OtherBranch, ChosenValue, Known
  <2> QED
    BY <1>1, <1>3, <1>4, <1>6, <2>1, <2>2, <2>3, <2>4 DEF SearchOk
<1>8. VerdictOk'
  <2>1. pc' = "finish" => MaxSolutions # 0
    <3>1. Len(solutions') # 0
      BY <1>4
    <3> QED
      BY <1>1, <3>1
  <2> QED
    BY <1>1, <1>3, <1>4, <2>1 DEF VerdictOk
<1>9. pc \in Plain /\ pc' \in {"backtrack", "finish"} /\ curFn' \notin Fn
  BY <1>1, <1>2, FnAssumption DEF IInv, WhereOk, Plain, PCs, NoFn
<1> QED
  BY <1>1, <1>2, <1>5, <1>7, <1>8, <1>9, BranchEnds

-----------------------------------------------------------------------------
(* HitLimit, NowhereToBacktrack and Return *)

LEMMA SearchOver ==
  ASSUME SearchOk, pc \in {"backtrack", "finish"}, pc' \in {"finish", "done"},
         UNCHANGED <<problem, trailVars, inferring, solutions>>
  PROVE  SearchOk'
<1>1. Models' = Models /\ Found' = Found /\ Later' = Later
  BY LaterKept DEF Models, Found
<1>2. Here' = {}
  BY DEF Here
<1> QED
  BY <1>1, <1>2 DEF SearchOk

LEMMA BacktrackCount ==
  ASSUME backtracks \in 0..BacktracksPerReport - 1, CountBacktrack
  PROVE  backtracks' \in 0..BacktracksPerReport - 1
BY NumbersAssumption DEF CountBacktrack

LEMMA HitLimitInv == ASSUME IInv, HitLimit PROVE IInv'
<1>1. /\ pc = "backtrack" /\ pc' = "finish" /\ Limits /\ errLimits' = TRUE /\ CountBacktrack
      /\ UNCHANGED <<problem, stackVars, trailVars, nNumUnresolvedFunctions,
                     queueVars, updateVars, inferVars, solutions, ret>>
      /\ UNCHANGED <<inferring, curFn, arrInferenceQueue, arrFnInferenceQueue,
                     arrFnInfPriority>>
  BY DEF HitLimit, inferVars, updateVars, queueVars
<1>2. TypeOK'
  BY <1>1, BacktrackCount DEF IInv, TypeOK, stackVars, trailVars, queueVars, updateVars,
     inferVars, PCs
<1>3. SearchOk' /\ VerdictOk'
  BY <1>1, SearchOver DEF IInv, VerdictOk
<1>4. pc \in Plain /\ curFn' \notin Fn
  BY <1>1 DEF IInv, WhereOk, Plain, PCs
<1> QED
  BY <1>1, <1>2, <1>3, <1>4, BranchEnds

(* Without a choice to reverse all models are found. *)
LEMMA NowhereToBacktrackInv == ASSUME IInv, NowhereToBacktrack PROVE IInv'
<1>1. /\ pc = "backtrack" /\ pc' = "finish" /\ arrChoicePointStack = <<>> /\ CountBacktrack
      /\ UNCHANGED <<problem, stackVars, trailVars, nNumUnresolvedFunctions,
                     queueVars, updateVars, inferVars, solutions, errLimits, ret>>
      /\ UNCHANGED <<inferring, curFn, arrInferenceQueue, arrFnInferenceQueue,
                     arrFnInfPriority>>
  BY DEF NowhereToBacktrack, NoChoiceLeft, inferVars, updateVars, queueVars
<1>2. TypeOK'
  BY <1>1, BacktrackCount DEF IInv, TypeOK, stackVars, trailVars, queueVars, updateVars,
     inferVars, PCs
<1>3. Found = Models
  <2>1. Here = {} /\ Later = {}
    BY <1>1 DEF Here, Later, Chosen, Depth
  <2>2. \A m \in Models : m \in Found
    BY <1>1, <2>1 DEF IInv, SearchOk
  <2>3. \A m \in Found : m \in Models
    BY DEF IInv, SearchOk
  <2> QED
    BY <2>2, <2>3
<1>4. SearchOk'
  BY <1>1, SearchOver DEF IInv
<1>5. VerdictOk'
  <2>1. Found' = Found /\ Models' = Models
    BY <1>1 DEF Found, Models
  <2> QED
    BY <1>1, <1>3, <2>1 DEF IInv, VerdictOk
<1>6. pc \in Plain /\ curFn' \notin Fn
  BY <1>1 DEF IInv, WhereOk, Plain, PCs
<1> QED
  BY <1>1, <1>2, <1>4, <1>5, <1>6, BranchEnds

LEMMA ReturnInv == ASSUME IInv, Return PROVE IInv'
<1>1. /\ pc = "finish" /\ pc' = "done" /\ ret' = Verdict
      /\ UNCHANGED <<problem, stackVars, trailVars, nNumUnresolvedFunctions,
                     queueVars, updateVars, inferVars, solutions, backtracks, errLimits>>
      /\ UNCHANGED <<inferring, curFn, arrInferenceQueue, arrFnInferenceQueue,
                     arrFnInfPriority>>
  BY DEF Return, inferVars, updateVars, queueVars
<1>2. TypeOK'
  <2>1. ret' \in {SOLV_SAT, SOLV_UNSAT, SOLV_UNKNOWN}
    BY <1>1 DEF Verdict
  <2> QED
    BY <1>1, <2>1 DEF IInv, TypeOK, stackVars, trailVars, queueVars, updateVars,
       inferVars, PCs
<1>3. SearchOk' /\ VerdictOk'
  BY <1>1, SearchOver DEF IInv, VerdictOk
<1>4. pc \in Plain /\ curFn' \notin Fn
  BY <1>1 DEF IInv, WhereOk, Plain, PCs
<1> QED
  BY <1>1, <1>2, <1>3, <1>4, BranchEnds

-----------------------------------------------------------------------------
(* BackTrack_NL *)

(* The newest choice v is at position pos of the trail, which is cut there.*)
BranchLeft(v, pos) ==
  /\ pc = "backtrack" /\ pc' = "pop" /\ curFn \notin Fn
  /\ Depth \in Nat \ {0} /\ Depth' = Depth - 1 /\ v = ChoiceVar(Depth) /\ v \in Known
  /\ arrChoicePointStack' \in Seq([var : Var, nNumUnresolved : Nat])
  /\ \A j \in 1..Depth - 1 : arrChoicePointStack'[j] = arrChoicePointStack[j]
  /\ nNumUnresolvedFunctions' = arrChoicePointStack[Depth].nNumUnresolved
  /\ pos \in 1..Len(Trail) /\ Trail[pos] = v
  /\ Trail \in Seq(Var) /\ DOMAIN arrBacktrackStack = 1..Len(Trail)
  /\ arrBacktrackStack' \in Seq([var : Var, choice : BOOLEAN])
  /\ Trail' \in Seq(Var) /\ Len(Trail') = pos - 1
  /\ DOMAIN arrBacktrackStack' = 1..pos - 1
  /\ \A i \in 1..pos - 1 : Trail'[i] = Trail[i]
  /\ arrSolution' = [w \in Var |-> IF \E i \in 1..pos - 1 : Trail[i] = w
                                   THEN arrSolution[w] ELSE BOOL_UNKNOWN]
  /\ inferring' = [var |-> v, val |-> ReversedValue(v), choice |-> TRUE]
  /\ ~popping /\ popping' = TRUE
  /\ CountBacktrack
  /\ UNCHANGED <<problem, fnState, arrChangedFn, arrFnFlags, nCurFnVersion,
                 arrFnStack, queueVars, updateVars, affected, solutions,
                 errLimits, ret>>

LEMMA LeaveBranch ==
  ASSUME IInv, BackTrack_NL
  PROVE  \E v \in Var, pos \in Nat : BranchLeft(v, pos)
<1> DEFINE cp == Last(arrChoicePointStack)
           p  == CHOOSE i \in DOMAIN arrBacktrackStack : arrBacktrackStack[i].var = cp.var
           kept == SubSeq(arrBacktrackStack, 1, p - 1)
<1>1. /\ pc = "backtrack" /\ pc' = "pop" /\ CountBacktrack
      /\ arrChoicePointStack # <<>>
      /\ arrChoicePointStack' = Front(arrChoicePointStack)
      /\ nNumUnresolvedFunctions' = cp.nNumUnresolved
      /\ arrBacktrackStack' = kept
      /\ arrSolution' = [w \in Var |-> IF \E i \in DOMAIN kept : kept[i].var = w
                                       THEN arrSolution[w] ELSE BOOL_UNKNOWN]
      /\ inferring' = [var |-> cp.var, val |-> ReversedValue(cp.var), choice |-> TRUE]
      /\ popping' = TRUE
      /\ UNCHANGED <<problem, fnState, arrChangedFn, arrFnFlags, nCurFnVersion,
                     arrFnStack, queueVars, updateVars, affected, solutions,
                     errLimits, ret>>
  BY DEF BackTrack_NL, NoChoiceLeft, UnresolvedAt
<1>2. /\ arrChoicePointStack \in Seq([var : Var, nNumUnresolved : Nat])
      /\ arrBacktrackStack \in Seq([var : Var, choice : BOOLEAN])
      /\ ~popping /\ curFn \notin Fn /\ ChoicesOk /\ TrailOk
  BY <1>1 DEF IInv, TypeOK, StackOk, WhereOk
<1>3. /\ Depth \in Nat \ {0} /\ Depth' = Depth - 1
      /\ cp = arrChoicePointStack[Depth] /\ cp.var = ChoiceVar(Depth)
      /\ cp.var \in Var
      /\ arrChoicePointStack' \in Seq([var : Var, nNumUnresolved : Nat])
      /\ \A j \in 1..Depth - 1 : arrChoicePointStack'[j] = arrChoicePointStack[j]
  <2>1. /\ Depth \in Nat \ {0} /\ cp = arrChoicePointStack[Depth]
        /\ cp.var = ChoiceVar(Depth) /\ cp.var \in Var
    <3>1. Depth \in Nat /\ Depth # 0
      BY <1>1, <1>2 DEF Depth
    <3>2. Depth \in 1..Depth
      BY <3>1
    <3> QED
      BY <1>2, <3>1, <3>2, ChoiceType DEF Last, Depth, ChoiceVar
  <2>2. arrChoicePointStack' = SubSeq(arrChoicePointStack, 1, Depth - 1)
    BY <1>1 DEF Front, Depth
  <2>3. Depth - 1 \in 0..Len(arrChoicePointStack)
    BY <2>1 DEF Depth
  <2>4. /\ arrChoicePointStack' \in Seq([var : Var, nNumUnresolved : Nat])
        /\ Len(arrChoicePointStack') = Depth - 1
        /\ \A j \in 1..Depth - 1 : arrChoicePointStack'[j] = arrChoicePointStack[j]
    BY ONLY <1>2, <2>2, <2>3, FirstPart
  <2> QED
    BY <2>1, <2>4 DEF Depth
<1> HIDE DEF cp
<1>4. cp.var \in Known
  <2>1. Depth \in 1..Depth
    BY <1>3
  <2> QED
    BY <1>1, <1>2, <1>3, <2>1 DEF ChoicesOk
<1>5. /\ Trail \in Seq(Var) /\ Len(Trail) \in Nat /\ DOMAIN Trail = 1..Len(Trail)
      /\ DOMAIN arrBacktrackStack = 1..Len(Trail) /\ Len(arrBacktrackStack) = Len(Trail)
      /\ \A i \in 1..Len(Trail) : Trail[i] = arrBacktrackStack[i].var
  BY <1>2, TrailType
<1>6. p \in 1..Len(Trail) /\ Trail[p] = cp.var
  <2>1. \E i \in DOMAIN arrBacktrackStack : arrBacktrackStack[i].var = cp.var
    BY <1>2, <1>4, <1>5 DEF TrailOk, ToSet
  <2> QED
    BY <1>5, <2>1
<1> HIDE DEF p
<1>7. /\ kept \in Seq([var : Var, choice : BOOLEAN]) /\ Len(kept) = p - 1
      /\ \A i \in 1..p - 1 : kept[i] = arrBacktrackStack[i]
  <2>1. p - 1 \in 0..Len(arrBacktrackStack)
    BY <1>5, <1>6
  <2> QED
    BY ONLY <1>2, <2>1, FirstPart
<1> HIDE DEF kept
<1>8. /\ DOMAIN kept = 1..p - 1
      /\ \A i \in 1..p - 1 : kept[i].var = Trail[i]
  <2>1. \A i \in 1..p - 1 : i \in 1..Len(Trail)
    BY <1>5, <1>6
  <2> QED
    BY <1>5, <1>6, <1>7, <2>1
<1>9. Trail' \in Seq(Var) /\ Len(Trail') = p - 1
      /\ \A i \in 1..p - 1 : Trail'[i] = Trail[i]
  <2>1. Trail' = [i \in 1..p - 1 |-> kept[i].var]
    BY <1>1, <1>8 DEF Trail
  <2>2. \A i \in 1..p - 1 : kept[i].var \in Var
    <3>1. \A i \in 1..p - 1 : i \in 1..Len(Trail)
      BY <1>5, <1>6
    <3>2. \A i \in 1..Len(Trail) : Trail[i] \in Var
      BY <1>5, ElementOfSeq
    <3> QED
      BY <1>8, <3>1, <3>2
  <2>3. p - 1 \in Nat
    BY <1>5, <1>6
  <2> QED
    BY <1>8, <2>1, <2>2, <2>3
<1>10. arrSolution' = [w \in Var |-> IF \E i \in 1..p - 1 : Trail[i] = w
                                     THEN arrSolution[w] ELSE BOOL_UNKNOWN]
  BY <1>1, <1>8
<1>11. BranchLeft(cp.var, p)
  BY <1>1, <1>2, <1>3, <1>4, <1>5, <1>6, <1>7, <1>8, <1>9, <1>10 DEF BranchLeft
<1> QED
  BY <1>3, <1>5, <1>6, <1>11

(* What remains of the trail is what was assigned before the choice; what  *)
(* was before the choices that remain does not change. *)
LEMMA TrailCut ==
  ASSUME IInv, NEW v \in Var, NEW pos \in Nat, BranchLeft(v, pos)
  PROVE  /\ IsInjective(Trail)' /\ ToSet(Trail)' = Before(v) /\ Known' = Before(v)
         /\ arrSolution' = SolutionBefore(v) /\ v \notin Before(v)
         /\ \A u \in Before(v) : /\ Before(u)' = Before(u)
                                 /\ SolutionBefore(u)' = SolutionBefore(u)
                                 /\ arrSolution'[u] = arrSolution[u]
<1>1. /\ pos \in 1..Len(Trail) /\ Trail[pos] = v
      /\ Trail \in Seq(Var) /\ DOMAIN arrBacktrackStack = 1..Len(Trail)
      /\ Trail' \in Seq(Var) /\ Len(Trail') = pos - 1
      /\ DOMAIN arrBacktrackStack' = 1..pos - 1
      /\ \A i \in 1..pos - 1 : Trail'[i] = Trail[i]
      /\ arrSolution' = [w \in Var |-> IF \E i \in 1..pos - 1 : Trail[i] = w
                                       THEN arrSolution[w] ELSE BOOL_UNKNOWN]
  BY DEF BranchLeft
<1>2. PICK n \in Nat : n = Len(Trail)
  BY <1>1, LenProperties
<1>3. /\ DOMAIN Trail = 1..n /\ DOMAIN Trail' = 1..pos - 1 /\ pos \in 1..n
      /\ \A i \in 1..pos - 1 : i \in 1..n
      /\ \A i \in 1..n : Trail[i] \in Var
  BY <1>1, <1>2, LenProperties, ElementOfSeq
<1>4. \A i, k \in 1..n : Trail[i] = Trail[k] => i = k
  BY <1>3 DEF IInv, TrailOk, IsInjective
<1>5. \A u, x : x \in Before(u) <=>
        \E i \in 1..n : Trail[i] = x /\ \A h \in 1..i : Trail[h] # u
  BY <1>1, <1>2 DEF Before
<1>6. \A u, x : x \in Before(u)' <=>
        \E i \in 1..pos - 1 : Trail'[i] = x /\ \A h \in 1..i : Trail'[h] # u
  BY <1>1 DEF Before
<1>7. ASSUME NEW k \in 1..n, NEW x
      PROVE  x \in Before(Trail[k]) <=> \E i \in 1..k - 1 : Trail[i] = x
  <2>1. ASSUME x \in Before(Trail[k]) PROVE \E i \in 1..k - 1 : Trail[i] = x
    <3>1. PICK i \in 1..n : Trail[i] = x /\ \A h \in 1..i : Trail[h] # Trail[k]
      BY <1>5, <2>1
    <3>2. ~(k \in 1..i)
      BY <3>1
    <3>3. i \in 1..k - 1
      BY <3>2
    <3> QED
      BY <3>1, <3>3
  <2>2. ASSUME NEW i \in 1..k - 1, Trail[i] = x PROVE x \in Before(Trail[k])
    <3>1. i \in 1..n /\ \A h \in 1..i : h \in 1..n /\ h # k
      OBVIOUS
    <3>2. \A h \in 1..i : Trail[h] # Trail[k]
      BY <1>4, <3>1
    <3> QED
      BY <1>5, <2>2, <3>1, <3>2
  <2> QED
    BY <2>1, <2>2
<1>8. \A x : x \in Before(v) <=> \E i \in 1..pos - 1 : Trail[i] = x
  BY <1>1, <1>3, <1>7
<1>9. IsInjective(Trail)'
  BY <1>1, <1>3, <1>4 DEF IsInjective
<1>10. ToSet(Trail)' = Before(v)
  <2>1. \A x : x \in ToSet(Trail)' <=> \E i \in 1..pos - 1 : Trail'[i] = x
    BY <1>3 DEF ToSet
  <2> QED
    BY <1>1, <1>8, <2>1
<1>11. Before(v) \subseteq Known /\ v \notin Before(v)
  BY BeforeIs
<1>12. arrSolution' = SolutionBefore(v)
  BY <1>1, <1>8 DEF SolutionBefore
<1>13. Known' = Before(v) /\ \A u \in Before(v) : arrSolution'[u] = arrSolution[u]
  BY <1>11, <1>12 DEF SolutionBefore, Known
<1>14. ASSUME NEW u \in Before(v)
       PROVE  /\ Before(u)' = Before(u) /\ Before(u) \subseteq Before(v)
              /\ SolutionBefore(u)' = SolutionBefore(u)
  <2>1. PICK k \in 1..pos - 1 : Trail[k] = u
    BY <1>8
  <2>2. k \in 1..n /\ \A i \in 1..k - 1 : i \in 1..pos - 1
    BY <1>3
  <2>3. \A x : x \in Before(u) <=> \E i \in 1..k - 1 : Trail[i] = x
    BY <1>7, <2>1, <2>2
  <2>4. ASSUME NEW x, x \in Before(u) PROVE x \in Before(u)' /\ x \in Before(v)
    <3>1. PICK i \in 1..k - 1 : Trail[i] = x
      BY <2>3, <2>4
    <3>2. i \in 1..pos - 1 /\ \A h \in 1..i : h \in 1..pos - 1 /\ h \in 1..n /\ h # k
      BY <1>3, <2>2
    <3>3. \A h \in 1..i : Trail'[h] # u
      BY <1>1, <1>4, <2>1, <2>2, <3>2
    <3> QED
      BY <1>1, <1>6, <1>8, <3>1, <3>2, <3>3
  <2>5. ASSUME NEW x, x \in Before(u)' PROVE x \in Before(u)
    <3>1. PICK i \in 1..pos - 1 : Trail'[i] = x /\ \A h \in 1..i : Trail'[h] # u
      BY <1>6, <2>5
    <3>2. ~(k \in 1..i)
      BY <1>1, <2>1, <3>1
    <3>3. i \in 1..k - 1 /\ Trail[i] = x
      BY <1>1, <3>1, <3>2
    <3> QED
      BY <2>3, <3>3
  <2>6. Before(u)' = Before(u) /\ Before(u) \subseteq Before(v)
    BY <2>4, <2>5
  <2>7. \A w \in Before(u) : arrSolution'[w] = arrSolution[w]
    BY <1>13, <2>6
  <2> QED
    BY <2>6, <2>7 DEF SolutionBefore
<1> QED
  BY <1>9, <1>10, <1>11, <1>12, <1>13, <1>14

(* The level of the choice is the newest one, which is popped. *)
LEMMA LevelLeft ==
  ASSUME IInv, NEW v \in Var, NEW pos \in Nat, BranchLeft(v, pos)
  PROVE  /\ FSP!IInv' /\ StatesOk' /\ CountOk' /\ LevelsOk' /\ VersionOk'
<1>1. /\ pc = "backtrack" /\ pc' = "pop"
      /\ Depth \in Nat \ {0} /\ Depth' = Depth - 1 /\ v = ChoiceVar(Depth)
      /\ \A j \in 1..Depth - 1 : arrChoicePointStack'[j] = arrChoicePointStack[j]
      /\ nNumUnresolvedFunctions' = arrChoicePointStack[Depth].nNumUnresolved
      /\ ~popping /\ popping' = TRUE
      /\ UNCHANGED <<problem, fnState, arrChangedFn, arrFnFlags, nCurFnVersion, arrFnStack>>
  BY DEF BranchLeft
<1>2. FSP!IInv /\ ChoicesOk /\ Levels = FSP!Marks
  BY <1>1 DEF IInv, StackOk, Levels, FSP!OpenLevels
<1>3. PICK lev \in [1..Depth -> Levels] :
        InOrder(lev) /\ \A j \in 1..Depth : LevelOk(j, lev[j])
  BY DEF IInv, LevelsOk
<1>4. Depth \in 1..Depth /\ lev[Depth] \in Levels
  BY <1>1, <1>3
<1>5. FSP!StartPop
  BY <1>1, <1>2, <1>4 DEF FSP!StartPop
<1>6. PICK t : t = FSP!TopMark
  OBVIOUS
<1>7. /\ FSP!IInv' /\ t \in Levels /\ \A l \in Levels : l <= t
      /\ FSP!TopMark' = t
      /\ Levels \subseteq Nat /\ Levels' = Levels \ {t}
      /\ Current' = Snapshot[t]
      /\ Snapshot' = [l \in Levels \ {t} |-> Snapshot[l]]
  BY <1>2, <1>5, <1>6, LevelClosed
<1>8. lev[Depth] = t
  <2>1. PICK j \in 1..Depth : lev[j] = t
    BY <1>3, <1>7 DEF InOrder
  <2>2. CASE j = Depth
    BY <2>1, <2>2
  <2>3. CASE j # Depth
    <3>1. j < Depth
      BY <1>1, <2>3
    <3>2. lev[j] < lev[Depth]
      BY <1>3, <1>4, <3>1 DEF InOrder
    <3>3. t \in Nat /\ lev[Depth] \in Nat /\ lev[Depth] <= t
      BY <1>4, <1>7
    <3> QED
      BY ONLY <2>1, <3>2, <3>3
  <2> QED
    BY <2>2, <2>3
<1>9. /\ \A f \in Fn : /\ Follows(Snapshot[t][f], problem[f], SolutionBefore(v))
                       /\ Settled(Snapshot[t][f], SolutionBefore(v))
      /\ arrChoicePointStack[Depth].nNumUnresolved = Cardinality(Open(Snapshot[t]))
      /\ arrFnStack[t].prev_version <= 2 + Cardinality(Before(v))
  BY <1>1, <1>3, <1>4, <1>8 DEF LevelOk
<1>10. /\ Known' = Before(v) /\ arrSolution' = SolutionBefore(v)
       /\ \A u \in Before(v) : /\ Before(u)' = Before(u)
                               /\ SolutionBefore(u)' = SolutionBefore(u)
  BY TrailCut
<1>11. StatesOk'
  BY <1>1, <1>7, <1>9, <1>10 DEF StatesOk, Follows
<1>12. CountOk'
  <2>1. Open(Current)' = Open(Snapshot[t])
    BY <1>7 DEF Open
  <2> QED
    BY <1>1, <1>9, <2>1 DEF CountOk
<1>13. VersionOk'
  BY <1>1, <1>7, <1>9, <1>10 DEF VersionOk
<1>14. LevelsOk'
  <2>1. PICK new : new = [j \in 1..Depth - 1 |-> lev[j]]
    OBVIOUS
  <2>2. \A j \in 1..Depth - 1 : /\ j \in 1..Depth /\ j < Depth /\ new[j] = lev[j]
                                /\ lev[j] \in Levels /\ lev[j] # t
    <3> SUFFICES ASSUME NEW j \in 1..Depth - 1
                 PROVE  /\ j \in 1..Depth /\ j < Depth /\ new[j] = lev[j]
                        /\ lev[j] \in Levels /\ lev[j] # t
      OBVIOUS
    <3>1. j \in 1..Depth /\ j < Depth /\ new[j] = lev[j] /\ lev[j] \in Levels
      BY <1>1, <1>3, <2>1
    <3>2. lev[j] < lev[Depth]
      BY <1>3, <1>4, <3>1 DEF InOrder
    <3> QED
      BY <1>4, <1>7, <1>8, <3>1, <3>2
  <2>3. new \in [1..Depth' -> Levels']
    BY <1>1, <1>7, <2>1, <2>2
  <2>4. InOrder(new)'
    <3>1. ASSUME NEW j \in 1..Depth', NEW k \in 1..Depth', j < k PROVE new[j] < new[k]
      BY <1>1, <1>3, <2>2, <3>1 DEF InOrder
    <3>2. ASSUME NEW l \in Levels' PROVE \E j \in 1..Depth' : new[j] = l
      <4>1. PICK j \in 1..Depth : lev[j] = l
        BY <1>3, <1>7 DEF InOrder
      <4>2. j \in 1..Depth - 1
        BY <1>1, <1>7, <1>8, <4>1
      <4> QED
        BY <1>1, <2>2, <4>1, <4>2
    <3> QED
      BY <3>1, <3>2 DEF InOrder
  <2>5. ASSUME NEW j \in 1..Depth' PROVE LevelOk(j, new[j])'
    <3>1. /\ j \in 1..Depth - 1 /\ LevelOk(j, lev[j]) /\ new[j] = lev[j]
          /\ arrChoicePointStack'[j] = arrChoicePointStack[j]
      BY <1>1, <1>3, <2>2
    <3>2. PICK u : u = ChoiceVar(j) /\ ChoiceVar(j)' = u
      BY <3>1 DEF ChoiceVar
    <3>3. u \in Before(v)
      BY <1>1, <1>2, <1>4, <2>2, <3>1, <3>2 DEF ChoicesOk
    <3>4. /\ Before(ChoiceVar(j))' = Before(ChoiceVar(j))
          /\ SolutionBefore(ChoiceVar(j))' = SolutionBefore(ChoiceVar(j))
      BY <1>10, <3>2, <3>3, SameChoice
    <3>5. Snapshot'[lev[j]] = Snapshot[lev[j]]
      BY <1>7, <2>2, <3>1
    <3>6. Open(Snapshot[lev[j]])' = Open(Snapshot[lev[j]])
      BY <3>5 DEF Open
    <3> QED
      BY <1>1, <3>1, <3>4, <3>5, <3>6 DEF LevelOk
  <2> QED
    BY <2>3, <2>4, <2>5 DEF LevelsOk
<1> QED
  BY <1>7, <1>11, <1>12, <1>13, <1>14

(* The other branch of the choice is the one to look at next. *)
LEMMA LeftSearch ==
  ASSUME IInv, NEW v \in Var, NEW pos \in Nat, BranchLeft(v, pos)
  PROVE  ChoicesOk' /\ SearchOk'
<1>1. /\ pc = "backtrack" /\ pc' = "pop"
      /\ Depth \in Nat \ {0} /\ Depth' = Depth - 1 /\ v = ChoiceVar(Depth) /\ v \in Known
      /\ \A j \in 1..Depth - 1 : arrChoicePointStack'[j] = arrChoicePointStack[j]
      /\ inferring' = [var |-> v, val |-> ReversedValue(v), choice |-> TRUE]
      /\ UNCHANGED <<problem, solutions>>
  BY DEF BranchLeft
<1>2. ChoicesOk /\ SearchOk /\ arrSolution \in Partial
  BY DEF IInv, TypeOK
<1>3. /\ Known' = Before(v) /\ arrSolution' = SolutionBefore(v) /\ v \notin Before(v)
      /\ \A u \in Before(v) : /\ Before(u)' = Before(u)
                              /\ SolutionBefore(u)' = SolutionBefore(u)
                              /\ arrSolution'[u] = arrSolution[u]
  BY TrailCut
<1>4. ASSUME NEW j \in 1..Depth - 1
      PROVE  /\ j \in 1..Depth /\ ChoiceVar(j)' = ChoiceVar(j) /\ ChoiceVar(j) \in Before(v)
             /\ Before(ChoiceVar(j))' = Before(ChoiceVar(j))
  <2>1. j \in 1..Depth /\ Depth \in 1..Depth /\ j < Depth
    BY <1>1
  <2>2. PICK u : u = ChoiceVar(j) /\ ChoiceVar(j)' = u
    BY <1>1 DEF ChoiceVar
  <2>3. u \in Before(v)
    BY <1>1, <1>2, <2>1, <2>2 DEF ChoicesOk
  <2> QED
    BY <1>3, <2>1, <2>2, <2>3, SameChoice
<1>5. ChoicesOk'
  <2>1. ASSUME NEW j \in 1..Depth', NEW k \in 1..Depth', j < k
        PROVE  ChoiceVar(j)' \in Before(ChoiceVar(k))'
    <3>1. j \in 1..Depth - 1 /\ k \in 1..Depth - 1
      BY <1>1
    <3> QED
      BY <1>2, <1>4, <2>1, <3>1 DEF ChoicesOk
  <2>2. ASSUME NEW j \in 1..Depth' PROVE ChoiceVar(j)' \in Known'
    BY <1>1, <1>3, <1>4
  <2> QED
    BY <2>1, <2>2 DEF ChoicesOk
<1>6. /\ Chosen' \subseteq Before(v) /\ Chosen' \subseteq Chosen
      /\ \A u \in Chosen : u = v \/ u \in Chosen'
  <2>1. ASSUME NEW u \in Chosen' PROVE u \in Before(v) /\ u \in Chosen
    <3>1. PICK j \in 1..Depth - 1 : u = ChoiceVar(j)'
      BY <1>1, <2>1 DEF Chosen
    <3> QED
      BY <1>4, <3>1 DEF Chosen
  <2>2. ASSUME NEW u \in Chosen, u # v PROVE u \in Chosen'
    <3>1. PICK j \in 1..Depth : u = ChoiceVar(j)
      BY <2>2 DEF Chosen
    <3>2. j \in 1..Depth' /\ j \in 1..Depth - 1
      BY <1>1, <2>2, <3>1
    <3>3. u = ChoiceVar(j)'
      BY <1>4, <3>1, <3>2
    <3> QED
      BY <3>2, <3>3 DEF Chosen
  <2> QED
    BY <2>1, <2>2
<1>7. \A u \in Chosen' : OtherBranch(u)' = OtherBranch(u)
  <2>1. \A u \in Before(v) : arrSolution'[u] # BOOL_UNKNOWN
    BY <1>3 DEF Known
  <2>2. \A u \in Before(v) : ChosenValue(u)' = ChosenValue(u)
    BY <1>3, <2>1 DEF ChosenValue
  <2> QED
    BY <1>3, <1>6, <2>2 DEF OtherBranch
<1>8. \A m : m \in OtherBranch(v) => m \in Here'
  <2> SUFFICES ASSUME NEW m \in OtherBranch(v) PROVE m \in Here'
    OBVIOUS
  <2>1. /\ m \in Cube(SolutionBefore(v)) /\ m \in Assignment
        /\ m[v] # arrSolution[v] /\ m[v] \in Value /\ arrSolution[v] \in Value
    BY <1>1, <1>2 DEF OtherBranch, Cube, Assignment, ChosenValue, Known, Partial
  <2>2. m[v] = ReversedValue(v)
    BY <2>1, Values DEF ReversedValue
  <2>3. m \in Cube(arrSolution)'
    BY <1>3, <2>1
  <2> QED
    BY <1>1, <2>2, <2>3 DEF Here
<1>9. \A m : m \in Here' => m \in OtherBranch(v)
  <2> SUFFICES ASSUME NEW m \in Here' PROVE m \in OtherBranch(v)
    OBVIOUS
  <2>1. m \in Cube(arrSolution)' /\ m[v] = ReversedValue(v)
    BY <1>1 DEF Here
  <2>2. m \in Cube(SolutionBefore(v))
    BY <1>3, <2>1
  <2>3. arrSolution[v] \in Value
    BY <1>1, <1>2 DEF Known, Partial
  <2>4. m[v] # arrSolution[v] /\ arrSolution[v] # BOOL_UNKNOWN
    BY <2>1, <2>3, Values DEF ReversedValue
  <2> QED
    BY <2>2, <2>4 DEF OtherBranch, ChosenValue
<1>10. Here = {} /\ Models' = Models /\ Found' = Found
  BY <1>1 DEF Here, Models, Found
<1>11. v \in Chosen
  <2>1. Depth \in 1..Depth
    BY <1>1
  <2> QED
    BY <1>1, <2>1 DEF Chosen
<1>12. ASSUME NEW m \in Assignment
       PROVE  m \in Later <=> m \in Here' \/ m \in Later'
  <2>1. m \in Later => m \in Here' \/ m \in Later'
    BY <1>6, <1>7, <1>8 DEF Later
  <2>2. m \in Here' => m \in Later
    BY <1>9, <1>11 DEF Later
  <2>3. m \in Later' => m \in Later
    BY <1>6, <1>7 DEF Later
  <2> QED
    BY <2>1, <2>2, <2>3
<1>13. SearchOk'
  <2>1. \A m \in Found : m \in Assignment
    BY <1>2 DEF SearchOk, Models
  <2>2. \A m \in Models : m \in Assignment
    BY DEF Models
  <2> QED
    BY <1>1, <1>2, <1>10, <1>12, <2>1, <2>2 DEF SearchOk
<1> QED
  BY <1>5, <1>13

LEMMA BackTrackInv == ASSUME IInv, BackTrack_NL PROVE IInv'
<1>1. PICK v \in Var, pos \in Nat : BranchLeft(v, pos)
  BY LeaveBranch
<1>2. /\ pc = "backtrack" /\ pc' = "pop" /\ curFn \notin Fn
      /\ arrChoicePointStack' \in Seq([var : Var, nNumUnresolved : Nat])
      /\ nNumUnresolvedFunctions' = arrChoicePointStack[Depth].nNumUnresolved
      /\ Depth \in Nat \ {0}
      /\ arrBacktrackStack' \in Seq([var : Var, choice : BOOLEAN])
      /\ inferring' = [var |-> v, val |-> ReversedValue(v), choice |-> TRUE]
      /\ popping' = TRUE
      /\ CountBacktrack
      /\ UNCHANGED <<problem, fnState, arrChangedFn, arrFnFlags, nCurFnVersion,
                     arrFnStack, queueVars, updateVars, affected, solutions,
                     errLimits, ret>>
      /\ curFn' = curFn
  BY <1>1 DEF BranchLeft, updateVars
<1>3. /\ IsInjective(Trail)' /\ ToSet(Trail)' = Before(v) /\ Known' = Before(v)
      /\ arrSolution' = SolutionBefore(v) /\ v \notin Before(v)
  BY <1>1, TrailCut
<1>4. TypeOK'
  <2>1. arrSolution' \in Partial
    BY <1>3, BeforeIs
  <2>2. nNumUnresolvedFunctions' \in Nat
    <3>1. Depth \in 1..Depth
      BY <1>2
    <3> QED
      BY <1>2, <3>1, ChoiceType DEF IInv, TypeOK
  <2>3. inferring' \in [var : Var, val : Value, choice : BOOLEAN]
    BY <1>2, Values DEF ReversedValue
  <2> QED
    BY <1>2, <2>1, <2>2, <2>3, BacktrackCount DEF IInv, TypeOK, queueVars, updateVars, PCs
<1>5. FSP!IInv' /\ StatesOk' /\ CountOk' /\ LevelsOk' /\ VersionOk'
  BY <1>1, LevelLeft
<1>6. ChoicesOk' /\ SearchOk'
  BY <1>1, LeftSearch
<1>7. TrailOk'
  BY <1>2, <1>3 DEF TrailOk
<1>8. StackOk' /\ WhereOk' /\ WaitOk' /\ QueueOk' /\ ListsOk' /\ CheckOk'
  BY <1>2, <1>5 DEF StackOk, WhereOk, WaitOk, QueueOk, ListsOk, CheckOk
<1>9. InferOk'
  <2>1. inferring'.var = v /\ v \notin Known'
    BY <1>2, <1>3
  <2> QED
    BY <1>2, <2>1 DEF InferOk, Known
<1>10. VerdictOk'
  BY <1>2, VerdictKept DEF IInv
<1> QED
  BY <1>4, <1>5, <1>6, <1>7, <1>8, <1>9, <1>10 DEF IInv

-----------------------------------------------------------------------------
(* pop_state_information and what follows it *)

LEMMA PopFunctionInv == ASSUME IInv, PopFunction PROVE IInv'
<1>1. /\ pc = "pop" /\ pc' = "pop" /\ popping
      /\ FS!PopFunction
      /\ UNCHANGED <<problem, trailVars, nNumUnresolvedFunctions, queueVars,
                     updateVars, inferVars, resultVars>>
      /\ UNCHANGED <<arrSolution, arrBacktrackStack, arrChoicePointStack, inferring,
                     solutions, errLimits, ret, curFn, arrInferenceQueue>>
  BY DEF PopFunction, FS!PopFunction, trailVars, inferVars, resultVars, updateVars, queueVars
<1>2. FSP!PopFunction
  BY <1>1 DEF FS!PopFunction, FSP!PopFunction, FS!Top, FSP!Top, FS!LEVEL_START,
              FSP!LEVEL_START, FS!RemoveTop, FSP!RemoveTop
<1>3. /\ FSP!IInv' /\ StackKept /\ FSP!TopMark' = FSP!TopMark
      /\ arrFnStack'[FSP!TopMark] = arrFnStack[FSP!TopMark]
  BY <1>2, FunctionRestored DEF IInv, StackOk
<1>4. UNCHANGED <<nCurFnVersion, popping>>
  BY <1>1 DEF FS!PopFunction
<1>5. TypeOK'
  <2>1. /\ fnState' \in [Fn -> Function] /\ arrChangedFn' \in [Fn -> {0, 2, 3}]
        /\ arrFnFlags' \in [Fn -> Nat] /\ nCurFnVersion' \in Nat
        /\ arrFnStack' \in Seq(FS!StackEntry) /\ popping' \in BOOLEAN
    BY <1>3 DEF FSP!IInv, FSP!TypeOK, FSP!StackEntry, FS!StackEntry, FSP!LEVEL_START,
                FS!LEVEL_START
  <2> QED
    BY <1>1, <2>1 DEF IInv, TypeOK, trailVars, queueVars, updateVars, inferVars, resultVars
<1>6. StackOk'
  BY <1>1, <1>3, <1>4 DEF StackOk
<1>7. TrailOk' /\ ChoicesOk' /\ VersionOk' /\ CountOk' /\ LevelsOk'
  BY <1>1, <1>3, <1>4, BranchKept DEF IInv, SamePlace
<1>8. StatesOk'
  BY <1>1, <1>3 DEF IInv, StatesOk, StackKept, Follows
<1>9. WhereOk' /\ WaitOk' /\ QueueOk' /\ ListsOk' /\ CheckOk' /\ InferOk'
  BY <1>1 DEF IInv, WhereOk, WaitOk, QueueOk, ListsOk, CheckOk, InferOk
<1>10. SearchOk' /\ VerdictOk'
  BY <1>1, SearchKept, VerdictKept DEF IInv
<1> QED
  BY <1>5, <1>6, <1>7, <1>8, <1>9, <1>10 DEF IInv

LEMMA EmptySuffix ==
  ASSUME NEW T, NEW t \in Seq(T)
  PROVE  IsSuffix(<<>>, t)
<1>1. <<>> \in Seq(T) /\ Len(<<>>) = 0
  BY EmptySeq
<1>2. Len(t) \in Nat
  BY LenProperties
<1>3. PICK e \in Seq(T) : e = <<>>
  BY <1>1
<1>4. Len(e) = 0
  BY <1>1, <1>3
<1>5. Len(e) <= Len(t) /\ \A i \in 1..Len(e) : e[i] = t[Len(t) - Len(e) + i]
  BY ONLY <1>2, <1>4
<1>6. IsSuffix(e, t)
  BY <1>5, SuffixIs
<1> QED
  BY <1>3, <1>6

(* All marks, lists and queues are empty when the pop has ended. *)
LEMMA FlipChoiceInv == ASSUME IInv, FlipChoice PROVE IInv'
<1>1. /\ pc = "pop" /\ pc' = "infer" /\ popping
      /\ FS!PopLevelStart
      /\ arrInferenceQueue' = <<>>
      /\ nextElt' = 0
      /\ arrFnInferenceQueue' = <<>>
      /\ arrFnInfPriority' = [p \in DOMAIN arrFnInfPriority |-> <<>>]
      /\ nLastFnInfPriority' = 0
      /\ affected' = AFS(inferring.var)
      /\ UNCHANGED <<problem, trailVars, nNumUnresolvedFunctions, updateVars,
                     inferring, resultVars>>
      /\ UNCHANGED <<arrSolution, arrBacktrackStack, arrChoicePointStack,
                     solutions, errLimits, ret, curFn>>
  BY DEF FlipChoice, FS!PopLevelStart, Flushed, FlushedLists, trailVars, resultVars,
         updateVars
<1>2. FSP!PopLevelStart
  BY <1>1 DEF FS!PopLevelStart, FSP!PopLevelStart, FS!Top, FSP!Top, FS!LEVEL_START,
              FSP!LEVEL_START, FS!RemoveTop, FSP!RemoveTop
<1>3. /\ FSP!IInv' /\ StackKept /\ popping' = FALSE
      /\ nCurFnVersion' = arrFnStack[FSP!TopMark].prev_version
      /\ \A f \in Fn : arrChangedFn'[f] = 0
  BY <1>1, <1>2, LevelPopped DEF IInv, StackOk, FS!PopLevelStart
<1>4. /\ curFn = NoFn /\ NoFn \notin Fn
      /\ DOMAIN arrFnInfPriority = 0..MAX_FN_PRIORITY - 1
      /\ TrailOk /\ ChoicesOk /\ VersionOk /\ CountOk /\ StatesOk /\ InferOk
  BY <1>1, FnAssumption DEF IInv, WhereOk, TypeOK, NoFn
<1>5. TypeOK'
  <2>1. /\ fnState' \in [Fn -> Function] /\ arrChangedFn' \in [Fn -> {0, 2, 3}]
        /\ arrFnFlags' \in [Fn -> Nat] /\ nCurFnVersion' \in Nat
        /\ arrFnStack' \in Seq(FS!StackEntry) /\ popping' \in BOOLEAN
    BY <1>3 DEF FSP!IInv, FSP!TypeOK, FSP!StackEntry, FS!StackEntry, FSP!LEVEL_START,
                FS!LEVEL_START
  <2>2. /\ arrInferenceQueue' \in Seq(Var) /\ nextElt' \in 0..Len(arrInferenceQueue')
        /\ arrFnInferenceQueue' \in Seq(Fn)
        /\ arrFnInfPriority' \in [0..MAX_FN_PRIORITY - 1 -> Seq(Fn)]
        /\ nLastFnInfPriority' \in 0..MAX_FN_PRIORITY
        /\ affected' \subseteq Fn /\ pc' \in PCs
    BY <1>1, <1>4 DEF AFS, PCs, MAX_FN_PRIORITY
  <2> QED
    BY <1>1, <2>1, <2>2 DEF IInv, TypeOK, trailVars, updateVars, resultVars
<1>6. StackOk' /\ WhereOk' /\ WaitOk' /\ CheckOk'
  BY <1>1, <1>3, <1>4 DEF StackOk, WhereOk, WaitOk, CheckOk
<1>7. QueueOk'
  BY <1>1, <1>3 DEF QueueOk, IsInjective, ToSet
<1>8. ListsOk'
  <2> SUFFICES ASSUME NEW p \in 0..MAX_FN_PRIORITY - 1 PROVE ListOk(p)'
    BY DEF ListsOk
  <2>1. arrFnInfPriority'[p] = <<>>
    BY <1>1, <1>4
  <2>2. {f \in Fn : arrChangedFn'[f] = 3 /\ FnPriority[f] = p} = {}
    BY <1>3
  <2> QED
    BY <2>1, <2>2 DEF ListOk, IsInjective, ToSet
<1>9. /\ Trail' = Trail /\ Known' = Known
  BY <1>1, BeforeKept
<1>10. TrailOk'
  <2>1. IsSuffix(<<>>, Trail)
    BY TrailType, EmptySuffix DEF IInv, TypeOK
  <2> QED
    BY <1>1, <1>4, <1>9, <2>1 DEF TrailOk
<1>11. ChoicesOk'
  <2>1. Depth' = Depth /\ \A j : ChoiceVar(j)' = ChoiceVar(j)
    BY <1>1 DEF Depth, ChoiceVar
  <2>2. ASSUME NEW k \in 1..Depth PROVE Before(ChoiceVar(k))' = Before(ChoiceVar(k))
    <3>1. PICK u : u = ChoiceVar(k) /\ ChoiceVar(k)' = u
      BY <2>1
    <3> QED
      BY <1>1, <3>1, SameChoice, BeforeKept
  <2> QED
    BY <1>1, <1>4, <1>9, <2>1, <2>2 DEF ChoicesOk
<1>12. VersionOk'
  BY <1>1, <1>3, <1>4, <1>9, KnownFinite DEF VersionOk
<1>13. CountOk' /\ LevelsOk'
  BY <1>1, <1>3, <1>4, LevelsKept DEF IInv, CountOk, StackKept, Open
<1>14. StatesOk'
  BY <1>1, <1>3, <1>4 DEF StatesOk, StackKept, Follows
<1>15. InferOk'
  <2>1. AFS(inferring.var)' = AFS(inferring.var)
    BY <1>1 DEF AFS
  <2> QED
    BY <1>1, <1>4, <2>1 DEF InferOk
<1>16. SearchOk'
  <2>1. Models' = Models /\ Found' = Found /\ Later' = Later
    BY <1>1, LaterKept DEF Models, Found
  <2>2. Here' = Here
    BY <1>1 DEF Here
  <2> QED
    BY <1>1, <2>1, <2>2 DEF IInv, SearchOk
<1>17. VerdictOk'
  BY <1>1, VerdictKept DEF IInv
<1> QED
  BY <1>5, <1>6, <1>7, <1>8, <1>10, <1>11, <1>12, <1>13, <1>14, <1>15, <1>16, <1>17 DEF IInv

-----------------------------------------------------------------------------
(* The invariant holds at first, and every step keeps it. *)

LEMMA InitInv == Init => IInv
<1> SUFFICES ASSUME Init PROVE IInv
  OBVIOUS
<1>1. /\ problem \in Problems /\ problem \in [Fn -> Function] /\ fnState = problem
      /\ \A f \in Fn : Normalized(problem[f]) /\ problem[f] # true_ptr
  BY ProblemsAssumption DEF Init
<1>2. FSP!Init
  BY <1>1 DEF Init, FSP!Init
<1>3. FSP!IInv
  BY <1>2, FSP!InitInv, StackAssumptions
<1>4. Current = problem /\ Levels = {}
  <2>1. ~popping /\ arrFnStack = <<>>
    BY DEF Init
  <2>2. Current = fnState
    BY <1>1, <2>1 DEF Current, FSP!SpecCurrent
  <2> QED
    BY <1>1, <2>1, <2>2 DEF Levels, FSP!OpenLevels, FSP!Marks
<1>5. Cardinality(Fn) \in Nat
  BY FnAssumption, FS_CardinalityType
<1>6. arrSolution \in Partial /\ \A v \in Var : arrSolution[v] = BOOL_UNKNOWN
  BY DEF Init, Partial
<1>7. TypeOK
  <2>1. arrFnStack \in Seq(FS!StackEntry)
    BY DEF Init
  <2>2. inferring \in [var : Var, val : Value, choice : BOOLEAN]
    BY NumVarsAssumption, Values DEF Init, Var
  <2>3. backtracks \in 0..BacktracksPerReport - 1
    BY NumbersAssumption DEF Init
  <2>4. /\ arrChangedFn \in [Fn -> {0, 2, 3}] /\ arrFnFlags \in [Fn -> Nat]
        /\ arrFnInfPriority \in [0..MAX_FN_PRIORITY - 1 -> Seq(Fn)]
    BY DEF Init
  <2>5. /\ nLastFnInfPriority \in 0..MAX_FN_PRIORITY
        /\ maxPriority \in {0, MAX_FN_PRIORITY - 1, MAX_FN_PRIORITY}
        /\ curPriority \in 0..MAX_FN_PRIORITY - 1
        /\ nextElt \in 0..Len(arrInferenceQueue)
    BY DEF Init, MAX_FN_PRIORITY
  <2>6. nextState \in Function
    BY DEF Init, Function, false_ptr
  <2>7. /\ nCurFnVersion \in Nat /\ popping \in BOOLEAN
        /\ nNumUnresolvedFunctions \in Nat /\ pc \in PCs
        /\ curFn \in Fn \cup {NoFn} /\ errLimits \in BOOLEAN
        /\ ret \in {SOLV_SAT, SOLV_UNSAT, SOLV_UNKNOWN}
    BY <1>5 DEF Init, PCs
  <2>8. /\ arrBacktrackStack \in Seq([var : Var, choice : BOOLEAN])
        /\ arrChoicePointStack \in Seq([var : Var, nNumUnresolved : Nat])
        /\ arrInferenceQueue \in Seq(Var) /\ arrFnInferenceQueue \in Seq(Fn)
        /\ solutions \in Seq(Partial)
    BY EmptySeq DEF Init
  <2>9. toCheck \subseteq Literal /\ affected \subseteq Fn
    BY DEF Init
  <2> QED
    BY <1>1, <1>6, <2>1, <2>2, <2>3, <2>4, <2>5, <2>6, <2>7, <2>8, <2>9 DEF TypeOK
<1>8. StackOk /\ WhereOk /\ WaitOk /\ InferOk /\ CheckOk /\ VerdictOk
  BY <1>3, FnAssumption DEF Init, StackOk, WhereOk, WaitOk, InferOk, CheckOk, VerdictOk, NoFn
<1>9. QueueOk /\ ListsOk
  <2>1. QueueOk
    BY DEF Init, QueueOk, IsInjective, ToSet
  <2>2. ASSUME NEW p \in 0..MAX_FN_PRIORITY - 1 PROVE ListOk(p)
    <3>1. arrFnInfPriority[p] = <<>>
      BY DEF Init
    <3>2. {f \in Fn : arrChangedFn[f] = 3 /\ FnPriority[f] = p} = {}
      BY DEF Init
    <3> QED
      BY <3>1, <3>2 DEF ListOk, IsInjective, ToSet
  <2> QED
    BY <2>1, <2>2 DEF ListsOk
<1>10. Known = {} /\ Depth = 0 /\ Chosen = {}
  BY <1>6 DEF Known, Depth, Chosen, Init
<1>11. TrailOk
  <2>1. Trail \in Seq(Var) /\ Len(Trail) = 0 /\ DOMAIN Trail = {}
    <3>1. Len(arrBacktrackStack) = 0
      BY DEF Init
    <3>2. arrBacktrackStack \in Seq([var : Var, choice : BOOLEAN])
      BY <1>7 DEF TypeOK
    <3> QED
      BY <3>1, <3>2, TrailType
  <2>2. IsSuffix(arrInferenceQueue, Trail)
    BY <2>1, EmptySuffix DEF Init
  <2> QED
    BY <1>10, <2>1, <2>2 DEF TrailOk, IsInjective, ToSet
<1>12. ChoicesOk
  BY <1>10 DEF ChoicesOk
<1>13. VersionOk
  BY KnownFinite DEF VersionOk, Init
<1>14. StatesOk
  BY <1>1, <1>4, <1>6 DEF StatesOk, Follows, Settled, Vbles
<1>15. CountOk
  <2>1. Open(Current) = Fn
    BY <1>1, <1>4 DEF Open
  <2> QED
    BY <2>1 DEF CountOk, Init
<1>16. LevelsOk
  <2>1. PICK lev : lev = [j \in 1..Depth |-> 0]
    OBVIOUS
  <2>2. lev \in [1..Depth -> Levels] /\ \A j : j \notin 1..Depth
    BY <1>10, <2>1
  <2>3. InOrder(lev)
    BY <1>4, <2>2 DEF InOrder
  <2> QED
    BY <2>2, <2>3 DEF LevelsOk
<1>17. SearchOk
  <2>1. Found = {}
    BY DEF Found, Init
  <2>2. \A m \in Models : m \in Here
    <3> SUFFICES ASSUME NEW m \in Models PROVE m \in Here
      OBVIOUS
    <3>1. m \in Assignment
      BY DEF Models
    <3>2. m \in Cube(arrSolution)
      BY <1>6, <3>1, CubeIs
    <3> QED
      BY <3>2 DEF Here, Init
  <2> QED
    BY <2>1, <2>2 DEF SearchOk
<1> QED
  BY <1>7, <1>8, <1>9, <1>11, <1>12, <1>13, <1>14, <1>15, <1>16, <1>17 DEF IInv

LEMMA StutterInv == ASSUME IInv, UNCHANGED vars PROVE IInv'
<1>1. /\ UNCHANGED <<problem, stackVars, trailVars, nNumUnresolvedFunctions, queueVars,
                     updateVars, inferVars, resultVars>>
      /\ UNCHANGED <<fnState, arrChangedFn, nCurFnVersion, arrFnStack, popping,
                     arrSolution, arrFnInferenceQueue, arrFnInfPriority,
                     nLastFnInfPriority, arrInferenceQueue, pc, curFn, curPriority,
                     nextState, toCheck, inferring, affected, solutions, errLimits, ret>>
  BY DEF vars, stackVars, trailVars, queueVars, updateVars, inferVars, resultVars
<1>2. FSP!IInv' /\ StackKept
  BY <1>1, StackUnchanged DEF IInv, StackOk
<1>3. TypeOK'
  BY <1>1 DEF IInv, TypeOK, stackVars, trailVars, queueVars, updateVars, inferVars,
     resultVars
<1>4. TrailOk' /\ ChoicesOk' /\ VersionOk' /\ CountOk' /\ LevelsOk'
  <2>1. FSP!TopMark' = FSP!TopMark
    BY <1>1 DEF FSP!TopMark, FSP!IsTopMark, FSP!Marks
  <2> QED
    BY <1>1, <1>2, <2>1, BranchKept DEF IInv, SamePlace
<1>5. StatesOk' /\ QueueOk' /\ ListsOk' /\ SearchOk'
  BY <1>1, <1>2, StatesKept, ListsKept, SearchKept DEF IInv, StackKept
<1>6. StackOk' /\ WhereOk' /\ WaitOk' /\ InferOk'
  BY <1>1, <1>2 DEF IInv, StackOk, WhereOk, WaitOk, InferOk, AFS
<1>7. CheckOk'
  <2>1. ToInfer' = ToInfer /\ Known' = Known
    BY <1>1 DEF ToInfer, Known
  <2> QED
    BY <1>1, <2>1 DEF IInv, CheckOk
<1>8. VerdictOk'
  <2>1. Found' = Found /\ Models' = Models
    BY <1>1 DEF Found, Models
  <2> QED
    BY <1>1, <2>1 DEF IInv, VerdictOk
<1> QED
  BY <1>2, <1>3, <1>4, <1>5, <1>6, <1>7, <1>8 DEF IInv

LEMMA NextInv == IInv /\ [Next]_vars => IInv'
<1> SUFFICES ASSUME IInv, [Next]_vars PROVE IInv'
  OBVIOUS
<1>1. CASE Deduce
  BY <1>1, DeduceInv
<1>2. CASE NextPriority
  BY <1>2, NextPriorityInv
<1>3. CASE StartUpdate
  BY <1>3, StartUpdateInv
<1>4. CASE Transition
  BY <1>4, TransitionInv
<1>5. CASE CheckInference
  BY <1>5, CheckKnownInv, CheckNewInv, ConflictInv DEF CheckInference
<1>6. CASE Arrive
  BY <1>6, ArriveInv
<1>7. CASE EndUpdate
  BY <1>7, EndUpdateInv
<1>8. CASE \E f \in Fn : InferAffected(f)
  BY <1>8, InferAffectedInv
<1>9. CASE InferAssign
  BY <1>9, InferAssignInv
<1>10. CASE SelectNewBranchPoint
  BY <1>10, SelectNewBranchPointInv
<1>11. CASE RecordSolution
  BY <1>11, RecordSolutionInv
<1>12. CASE HitLimit
  BY <1>12, HitLimitInv
<1>13. CASE NowhereToBacktrack
  BY <1>13, NowhereToBacktrackInv
<1>14. CASE BackTrack_NL
  BY <1>14, BackTrackInv
<1>15. CASE PopFunction
  BY <1>15, PopFunctionInv
<1>16. CASE FlipChoice
  BY <1>16, FlipChoiceInv
<1>17. CASE Return
  BY <1>17, ReturnInv
<1>18. CASE Done \/ UNCHANGED vars
  BY <1>18, StutterInv DEF Done
<1> QED
  BY <1>1, <1>2, <1>3, <1>4, <1>5, <1>6, <1>7, <1>8, <1>9, <1>10, <1>11, <1>12, <1>13,
     <1>14, <1>15, <1>16, <1>17, <1>18 DEF Next

LEMMA InvCorrect == Spec => []IInv
<1>1. Init => IInv
  BY InitInv
<1>2. IInv /\ [Next]_vars => IInv'
  BY NextInv
<1> QED
  BY <1>1, <1>2, PTL DEF Spec

-----------------------------------------------------------------------------
(* What the invariant says of the lists, the queue, the count and the end  *)
(* of a deduction. *)

(* The variables of the search have their types, for any instance. *)
THEOREM TypeCorrect == Spec => []TypeOK
<1>1. IInv => TypeOK
  BY DEF IInv
<1> QED
  BY <1>1, InvCorrect, PTL

(* A function is in the list of its priority, once, exactly while its mark *)
(* says that it waits, and in arrFnInferenceQueue, once, exactly while it  *)
(* is marked: starting a level, ending an update and backtracking clear    *)
(* marks, lists and queue together.                                        *)
THEOREM ListsAndMarksAgree == Spec => []ListsMatchMarks
<1>1. IInv => ListsMatchMarks
  <2> SUFFICES ASSUME IInv PROVE ListsMatchMarks
    OBVIOUS
  <2>1. TypeOK /\ QueueOk /\ ListsOk /\ DOMAIN arrFnInfPriority = 0..MAX_FN_PRIORITY - 1
    BY DEF IInv, TypeOK
  <2> QED
    BY <2>1 DEF ListsMatchMarks, QueueOk, ListsOk, ListOk
<1> QED
  BY <1>1, InvCorrect, PTL

(* The inference queue is the end of the trail, and no variable is on the  *)
(* trail twice, so neither array overflows.                                *)
THEOREM QueueEndsTrail == Spec => []QueueIsEndOfTrail
<1>1. IInv => QueueIsEndOfTrail
  BY DEF IInv, TrailOk, QueueIsEndOfTrail, Trail, Known
<1> QED
  BY <1>1, InvCorrect, PTL

(* nNumUnresolvedFunctions is the number of functions that are not yet     *)
(* true, although it is restored from the choice points and the states     *)
(* from the function stack.                                                *)
THEOREM UnresolvedCount == Spec => []UnresolvedExact
<1>1. IInv => UnresolvedExact
  <2> SUFFICES ASSUME IInv, pc # "pop"
               PROVE  nNumUnresolvedFunctions =
                        Cardinality({f \in Fn : fnState[f] # true_ptr})
    BY DEF UnresolvedExact
  <2>1. ~popping /\ CountOk /\ fnState \in [Fn -> Function]
    BY DEF IInv, StackOk, TypeOK
  <2>2. Current = fnState
    BY <2>1 DEF Current, FSP!SpecCurrent
  <2> QED
    BY <2>1, <2>2 DEF CountOk, Open
<1> QED
  BY <1>1, InvCorrect, PTL

(* A deduction that ends without a conflict has brought every function to  *)
(* its input restricted by the whole assignment, and none of them implies  *)
(* a literal. *)
THEOREM DeductionEnds == Spec => []DeductionComplete
<1>1. IInv => DeductionComplete
  <2> SUFFICES ASSUME IInv, pc = "deduced", NEW f \in Fn
               PROVE  /\ fnState[f] = Restricted(problem[f], arrSolution)
                      /\ Normalized(fnState[f])
    BY DEF DeductionComplete
  <2>1. /\ ~popping /\ StatesOk /\ fnState \in [Fn -> Function]
        /\ arrSolution \in Partial /\ problem[f] \in Function
    BY ProblemsAssumption DEF IInv, StackOk, TypeOK
  <2>2. Current = fnState
    BY <2>1 DEF Current, FSP!SpecCurrent
  <2>3. arrChangedFn[f] # 3
    BY NoneWaits
  <2>4. Follows(fnState[f], problem[f], arrSolution) /\ Settled(fnState[f], arrSolution)
    BY <2>1, <2>2, <2>3 DEF StatesOk
  <2> QED
    BY <2>1, <2>4, SettledIsRestricted DEF Follows
<1> QED
  BY <1>1, InvCorrect, PTL

-----------------------------------------------------------------------------
(* What the search promises: it implements ModelSearch. *)

LEMMA NothingReported ==
  ASSUME UNCHANGED <<problem, solutions, ret>>
  PROVE  UNCHANGED S!vars
<1>1. Models' = Models /\ Found' = Found
  BY DEF Models, Found
<1> QED
  BY <1>1 DEF S!vars

(* A solution stands for some assignment. *)
LEMMA SolutionFound ==
  ASSUME solutions \in Seq(Partial)
  PROVE  Found = {} <=> solutions = <<>>
<1>1. ASSUME solutions # <<>> PROVE Found # {}
  <2>1. 1 \in DOMAIN solutions /\ solutions[1] \in Partial
    BY <1>1
  <2>2. PICK m : m \in Assignment
    BY SomeAssignment
  <2>3. Override(m, solutions[1]) \in Cube(solutions[1])
    BY <2>1, <2>2, OverrideInCube
  <2> QED
    BY <2>1, <2>3 DEF Found
<1>2. ASSUME solutions = <<>> PROVE Found = {}
  BY <1>2 DEF Found
<1> QED
  BY <1>1, <1>2

LEMMA RecordReports == ASSUME IInv, RecordSolution PROVE S!Report
<1>1. /\ pc = "deduced" /\ nNumUnresolvedFunctions = 0
      /\ solutions' = Append(solutions, arrSolution)
      /\ UNCHANGED <<problem, ret>>
  BY DEF RecordSolution
<1>2. /\ solutions \in Seq(Partial) /\ arrSolution \in Partial /\ ret = SOLV_UNKNOWN
      /\ SearchOk
  BY <1>1 DEF IInv, TypeOK, VerdictOk
<1>3. \A m : m \in Found' <=> m \in Found \/ m \in Cube(arrSolution)
  <2>1. PICK p \in Partial : p = arrSolution
    BY <1>2
  <2> QED
    BY <1>1, <1>2, <2>1, FoundGrows
<1>4. \A m \in Cube(arrSolution) : m \in Models /\ m \notin Found
  BY <1>1, <1>2, AllModels DEF SearchOk
<1>5. Models' = Models
  BY <1>1 DEF Models
<1>6. \E m : m \in Cube(arrSolution)
  <2>1. PICK m : m \in Assignment
    BY SomeAssignment
  <2> QED
    BY <1>2, <2>1, OverrideInCube
<1>7. Found \subseteq Found' /\ Found' # Found
  BY <1>3, <1>4, <1>6
<1>8. Found' \in SUBSET Models
  BY <1>2, <1>3, <1>4 DEF SearchOk
<1> QED
  BY <1>1, <1>2, <1>5, <1>7, <1>8 DEF S!Report, SOLV_UNKNOWN, S!SOLV_UNKNOWN

(* A limit hit before the first solution leaves the verdict open. *)
LEMMA ReturnFinishes == ASSUME IInv, Return PROVE S!Finish \/ UNCHANGED S!vars
<1>1. /\ pc = "finish" /\ ret' = Verdict /\ UNCHANGED <<problem, solutions, errLimits>>
  BY DEF Return
<1>2. /\ ret = SOLV_UNKNOWN /\ solutions \in Seq(Partial)
      /\ errLimits => Limits
      /\ \/ errLimits
         \/ Found = Models
         \/ MaxSolutions # 0 /\ solutions # <<>>
  BY <1>1 DEF IInv, TypeOK, VerdictOk
<1>3. Models' = Models /\ Found' = Found
  BY <1>1 DEF Models, Found
<1>4. Found = {} <=> solutions = <<>>
  BY <1>2, SolutionFound
<1>5. CASE solutions = <<>> /\ errLimits
  BY <1>1, <1>2, <1>3, <1>5 DEF S!vars, Verdict
<1>6. CASE ~(solutions = <<>> /\ errLimits)
  <2>1. ret' = IF Found = {} THEN SOLV_UNSAT ELSE SOLV_SAT
    BY <1>1, <1>4, <1>6 DEF Verdict
  <2>2. \/ Found = Models
        \/ MaxSolutions # 0 /\ Found # {}
        \/ Limits /\ Found # {}
    BY <1>2, <1>4, <1>6
  <2> QED
    BY <1>2, <1>3, <2>1, <2>2 DEF S!Finish, SOLV_UNKNOWN, S!SOLV_UNKNOWN, SOLV_SAT,
       S!SOLV_SAT, SOLV_UNSAT, S!SOLV_UNSAT
<1> QED
  BY <1>5, <1>6

LEMMA SearchStep == ASSUME IInv, [Next]_vars PROVE [S!Next]_(S!vars)
<1>1. CASE RecordSolution
  BY <1>1, RecordReports DEF S!Next
<1>2. CASE Return
  BY <1>2, ReturnFinishes DEF S!Next
<1>3. CASE ~RecordSolution /\ ~Return
  <2>1. UNCHANGED <<problem, solutions, ret>>
    <3>1. CASE UNCHANGED vars \/ Done
      BY <3>1 DEF Done, vars, resultVars
    <3>2. CASE Deduce \/ NextPriority \/ StartUpdate \/ Transition \/ Arrive \/ EndUpdate
      BY <3>2 DEF Deduce, NextPriority, StartUpdate, Transition, Arrive, EndUpdate,
         resultVars
    <3>3. CASE CheckInference \/ (\E f \in Fn : InferAffected(f)) \/ InferAssign
      BY <3>3 DEF CheckInference, CheckKnown, CheckNew, Conflict, InferAffected,
         InferAssign, resultVars
    <3>4. CASE SelectNewBranchPoint \/ HitLimit \/ NowhereToBacktrack \/ BackTrack_NL
               \/ PopFunction \/ FlipChoice
      BY <3>4 DEF SelectNewBranchPoint, HitLimit, NowhereToBacktrack, BackTrack_NL,
         PopFunction, FlipChoice, resultVars
    <3> QED
      BY <1>3, <3>1, <3>2, <3>3, <3>4 DEF Next
  <2> QED
    BY <2>1, NothingReported
<1> QED
  BY <1>1, <1>2, <1>3

(* The search reports nothing but models, none of them twice, and its      *)
(* verdict is right: whatever the functions, the choices made and the      *)
(* limits, SOLV_UNSAT is returned only if there is no model, and the search*)
(* ends early only for a limit or when enough solutions are found.         *)
THEOREM FindsTheModels == Spec => FindsModels
<1>1. Init => S!Init
  BY DEF Init, S!Init, Models, Found, SOLV_UNKNOWN, S!SOLV_UNKNOWN
<1>2. IInv /\ [Next]_vars => [S!Next]_(S!vars)
  BY SearchStep
<1> QED
  BY <1>1, <1>2, InvCorrect, PTL DEF Spec, FindsModels, S!Spec

-----------------------------------------------------------------------------
(* How the search uses the function stack. *)

LEMMA ArriveChanges == ASSUME IInv, Arrive PROVE FS!Next
<1>1. /\ curFn \in Fn /\ arrChangedFn[curFn] = 3 /\ ~popping /\ nextState \in Function
  BY UpdatedFunction DEF Arrive, IInv, TypeOK
<1>2. FS!ChangeState(curFn, nextState)
  BY <1>1 DEF Arrive, FS!ChangeState
<1> QED
  BY <1>1, <1>2 DEF FS!Next

LEMMA UpdateEnds == ASSUME IInv, EndUpdate PROVE FS!Next
<1>1. curFn \in Fn /\ arrChangedFn[curFn] = 3 /\ ~popping
  BY UpdatedFunction DEF EndUpdate
<1>2. FS!EndUpdate(curFn)
  BY <1>1 DEF EndUpdate, FS!EndUpdate
<1> QED
  BY <1>1, <1>2 DEF FS!Next

LEMMA AffectedMarks ==
  ASSUME IInv, NEW f \in Fn, InferAffected(f)
  PROVE  FS!Next \/ UNCHANGED stackVars
<1>1. UNCHANGED <<fnState, nCurFnVersion, popping>>
  BY DEF InferAffected
<1>2. CASE AlreadyWaiting(f)
  BY <1>1, <1>2 DEF AlreadyWaiting, stackVars
<1>3. CASE Enlisted(f)
  <2>1. FSP!MarkAffected(f)
    BY <1>3 DEF Enlisted
  <2>2. FS!MarkAffected(f)
    BY <2>1 DEF FS!MarkAffected, FSP!MarkAffected, FS!FnStackPush, FSP!FnStackPush,
       FS!Push, FSP!Push, FS!Entry, FSP!Entry
  <2> QED
    BY <2>2 DEF FS!Next
<1> QED
  BY <1>2, <1>3, AffectedEither

LEMMA ChoiceOpensLevel == ASSUME IInv, SelectNewBranchPoint PROVE FS!Next
<1>1. PICK v \in Var, val \in Value : NewBranch(v, val)
  BY BranchChosen
<1>2. FSP!FnStackPushFunctionLevel
  BY <1>1 DEF NewBranch
<1>3. FS!FnStackPushFunctionLevel
  BY <1>2 DEF FS!FnStackPushFunctionLevel, FSP!FnStackPushFunctionLevel, FS!Push,
     FSP!Push, FS!Mark, FSP!Mark, FS!LEVEL_START, FSP!LEVEL_START
<1> QED
  BY <1>3 DEF FS!Next

(* There is a level to close, that of the newest choice point. *)
LEMMA BacktrackClosesLevel == ASSUME IInv, BackTrack_NL PROVE FS!Next
<1>1. PICK v \in Var, pos \in Nat : BranchLeft(v, pos)
  BY LeaveBranch
<1>2. /\ Depth \in 1..Depth /\ ~popping
      /\ popping' = TRUE
      /\ UNCHANGED <<fnState, arrChangedFn, arrFnFlags, nCurFnVersion, arrFnStack>>
  BY <1>1 DEF BranchLeft
<1>3. PICK lev : lev \in [1..Depth -> Levels]
  BY DEF IInv, LevelsOk
<1>4. FSP!Marks # {}
  BY <1>2, <1>3 DEF Levels, FSP!OpenLevels
<1>5. FS!Marks # {}
  BY <1>4 DEF FS!Marks, FSP!Marks, FS!LEVEL_START, FSP!LEVEL_START
<1>6. FS!StartPop
  BY <1>2, <1>5 DEF FS!StartPop
<1> QED
  BY <1>6 DEF FS!Next

LEMMA StackStep == ASSUME IInv, [Next]_vars PROVE [FS!Next]_(FS!vars)
<1>1. UNCHANGED stackVars => UNCHANGED FS!vars
  BY DEF stackVars, FS!vars
<1>2. CASE UNCHANGED vars \/ Done
  BY <1>1, <1>2 DEF Done, vars
<1>3. CASE Deduce \/ NextPriority \/ StartUpdate \/ Transition \/ CheckInference
  BY <1>1, <1>3 DEF Deduce, NextPriority, StartUpdate, Transition, CheckInference,
     CheckKnown, CheckNew, Conflict
<1>4. CASE Arrive \/ EndUpdate
  BY <1>4, ArriveChanges, UpdateEnds
<1>5. CASE \E f \in Fn : InferAffected(f)
  BY <1>1, <1>5, AffectedMarks
<1>6. CASE InferAssign \/ RecordSolution \/ HitLimit \/ NowhereToBacktrack \/ Return
  BY <1>1, <1>6 DEF InferAssign, RecordSolution, HitLimit, NowhereToBacktrack, Return
<1>7. CASE SelectNewBranchPoint
  BY <1>7, ChoiceOpensLevel
<1>8. CASE BackTrack_NL
  BY <1>8, BacktrackClosesLevel
<1>9. CASE PopFunction \/ FlipChoice
  BY <1>9 DEF PopFunction, FlipChoice, FS!Next, FS!PopStep
<1> QED
  BY <1>2, <1>3, <1>4, <1>5, <1>6, <1>7, <1>8, <1>9 DEF Next

(* The search uses the function stack as FnStack allows: it marks and      *)
(* updates functions only while no level is popped, opens a level only when*)
(* no function waits, and closes one only when one is open; its version    *)
(* counter never passes the number of variables plus one.                  *)
THEOREM StackUsedWell == Spec => UsesFnStack
<1>1. Init => FS!Init
  BY ProblemsAssumption DEF Init, FS!Init
<1>2. IInv /\ [Next]_vars => [FS!Next]_(FS!vars)
  BY StackStep
<1> QED
  BY <1>1, <1>2, InvCorrect, PTL DEF Spec, UsesFnStack, FS!Spec

(* So popping restores, for every function, the state of the moment the    *)
(* choice point was made.                                                  *)
THEOREM SearchKeepsHistory == Spec => FSP!ImplementsHistory
<1>1. FS!Init => FSP!Init
  BY DEF FS!Init, FSP!Init
<1>2. [FS!Next]_(FS!vars) => [FSP!Next]_(FSP!vars)
  BY DEF FS!Next, FSP!Next, FS!vars, FSP!vars, FS!MarkAffected, FSP!MarkAffected,
     FS!FnStackPush, FSP!FnStackPush, FS!Push, FSP!Push, FS!Entry, FSP!Entry,
     FS!ChangeState, FSP!ChangeState, FS!EndUpdate, FSP!EndUpdate,
     FS!FnStackPushFunctionLevel, FSP!FnStackPushFunctionLevel, FS!Mark, FSP!Mark,
     FS!LEVEL_START, FSP!LEVEL_START, FS!StartPop, FSP!StartPop, FS!Marks, FSP!Marks,
     FS!PopStep, FSP!PopStep, FS!PopFunction, FSP!PopFunction, FS!PopLevelStart,
     FSP!PopLevelStart, FS!Top, FSP!Top, FS!RemoveTop, FSP!RemoveTop
<1>3. FS!Spec => FSP!Spec
  BY <1>1, <1>2, PTL DEF FS!Spec, FSP!Spec
<1>4. FSP!Spec => FSP!ImplementsHistory
  BY FSP!Refinement, StackAssumptions
<1>5. Spec => FS!Spec
  BY StackUsedWell DEF UsesFnStack
<1> QED
  BY <1>3, <1>4, <1>5
=============================================================================
