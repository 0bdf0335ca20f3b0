------------------------------ MODULE Brancher ------------------------------
(***************************************************************************)
(* The search loop of the SMURF solver without lemmas (NO_LEMMAS = 1):     *)
(* deduction with its inference queue and its lists of functions waiting   *)
(* for an update, choice points, chronological backtracking (BackTrack_NL),*)
(* solutions and limits (src/src/solv_smurf/br_*.cc, vars_*.cc, fn_*.cc).  *)
(* States of functions are saved and restored by the stack of FnStack.     *)
(*                                                                         *)
(* Every function is a Smurf: its state is the Boolean function that is    *)
(* left of it.  One step is one turn of a loop of the code.                *)
(***************************************************************************)
EXTENDS BoolFn, Sequences, SequencesExt

CONSTANTS Fn,                    \* function numbers
          Problems,              \* the inputs, each a function of Fn
          FnPriority,            \* arrSolverFunctions[f].nFnPriority
          MaxSolutions,          \* max_solutions; 0 asks for all
          BacktracksPerReport,   \* limits are looked at every so many
          Limits                 \* TRUE if a limit is set

MAX_FN_PRIORITY == 3

ASSUME FnAssumption == Fn \subseteq Nat /\ IsFiniteSet(Fn)
ASSUME ProblemsAssumption ==
  \A p \in Problems : /\ p \in [Fn -> Function]
                      /\ \A f \in Fn : Normalized(p[f]) /\ p[f] # true_ptr
ASSUME PriorityAssumption == FnPriority \in [Fn -> 0..MAX_FN_PRIORITY - 1]
ASSUME NumbersAssumption == MaxSolutions \in Nat /\ BacktracksPerReport \in Nat \ {0}

SOLV_SAT     == 7
SOLV_UNSAT   == 8
SOLV_UNKNOWN == 9

NoFn == -1

VARIABLES
  problem,         \* functions[], the input
  \* the function stack
  fnState, arrChangedFn, arrFnFlags, nCurFnVersion, arrFnStack, popping,
  \* assignment, trail and choice points
  arrSolution, arrBacktrackStack, arrChoicePointStack, nNumUnresolvedFunctions,
  \* queues
  arrInferenceQueue,    \* what was inferred since the last flush ...
  nextElt,              \* ... and the number of entries dequeued of it
  arrFnInferenceQueue, arrFnInfPriority, nLastFnInfPriority,
  \* where the program is
  pc, maxPriority, curFn, curPriority, nextState, toCheck, inferring, affected,
  \* results
  solutions, backtracks, errLimits, ret

stackVars  == <<fnState, arrChangedFn, arrFnFlags, nCurFnVersion, arrFnStack,
                popping>>
trailVars  == <<arrSolution, arrBacktrackStack, arrChoicePointStack>>
queueVars  == <<arrInferenceQueue, nextElt, arrFnInferenceQueue,
                arrFnInfPriority, nLastFnInfPriority>>
updateVars == <<maxPriority, curFn, curPriority, nextState, toCheck>>
inferVars  == <<inferring, affected>>
resultVars == <<solutions, backtracks, errLimits, ret>>

vars == <<problem, stackVars, trailVars, nNumUnresolvedFunctions, queueVars, pc,
          updateVars, inferVars, resultVars>>

FS == INSTANCE FnStack WITH State <- Function, BlankState <- false_ptr,
                            MaxVersion <- NumVars + 1

PCs == {"deduce", "update", "smurf", "check", "infer", "deduced", "backtrack",
        "pop", "finish", "done"}

(* The functions that mention variable v, AFSInit. *)
AFS(v) == {f \in Fn : v \in Vbles(problem[f])}

Init ==
  /\ problem \in Problems
  /\ fnState = problem
  /\ arrChangedFn = [f \in Fn |-> 0]
  /\ arrFnFlags = [f \in Fn |-> 0]
  /\ nCurFnVersion = 1
  /\ arrFnStack = <<>>
  /\ popping = FALSE
  /\ arrSolution = [v \in Var |-> BOOL_UNKNOWN]
  /\ arrBacktrackStack = <<>>
  /\ arrChoicePointStack = <<>>
  /\ nNumUnresolvedFunctions = Cardinality(Fn)
  /\ arrInferenceQueue = <<>>
  /\ nextElt = 0
  /\ arrFnInferenceQueue = <<>>
  /\ arrFnInfPriority = [p \in 0..MAX_FN_PRIORITY - 1 |-> <<>>]
  /\ nLastFnInfPriority = 0
  /\ pc = "deduce"
  /\ maxPriority = 0
  /\ curFn = NoFn
  /\ curPriority = 0
  /\ nextState = false_ptr
  /\ toCheck = {}
  /\ inferring = [var |-> 1, val |-> BOOL_FALSE, choice |-> FALSE]
  /\ affected = {}
  /\ solutions = <<>>
  /\ backtracks = 0
  /\ errLimits = FALSE
  /\ ret = SOLV_UNKNOWN

-----------------------------------------------------------------------------
(* ITE_Deduce *)

QueueNonempty == nextElt < Len(arrInferenceQueue)

(* Dequeue an atom and update functions of lower priority, or with an empty*)
(* queue update all functions. *)
Deduce ==
  /\ pc = "deduce"
  /\ pc' = "update"
  /\ nLastFnInfPriority' = 0
  /\ IF QueueNonempty
     THEN nextElt' = nextElt + 1 /\ maxPriority' = MAX_FN_PRIORITY - 1
     ELSE maxPriority' = MAX_FN_PRIORITY /\ UNCHANGED nextElt
  /\ UNCHANGED <<problem, stackVars, trailVars, nNumUnresolvedFunctions,
                 arrInferenceQueue, arrFnInferenceQueue, arrFnInfPriority,
                 curFn, curPriority, nextState, toCheck, inferVars, resultVars>>

(* Mutant: the outer loop of ITE_Deduce goes on forever. *)
AfterUpdateAgain == "deduce"

(* Where the call of UpdateEachAffectedFunction returns to. *)
AfterUpdate == IF maxPriority = MAX_FN_PRIORITY /\ ~QueueNonempty
               THEN "deduced" ELSE "deduce"

(* The outer loop of UpdateEachAffectedFunction finds a list empty, or ends.*)
NextPriority ==
  /\ pc = "update"
  /\ nLastFnInfPriority < maxPriority => arrFnInfPriority[nLastFnInfPriority] = <<>>
  /\ IF nLastFnInfPriority < maxPriority
     THEN nLastFnInfPriority' = nLastFnInfPriority + 1 /\ UNCHANGED pc
     ELSE nLastFnInfPriority' = 0 /\ pc' = AfterUpdate
  /\ UNCHANGED <<problem, stackVars, trailVars, nNumUnresolvedFunctions,
                 arrInferenceQueue, nextElt, arrFnInferenceQueue,
                 arrFnInfPriority, updateVars, inferVars, resultVars>>

(* The inner loop starts the big update of the first function of the list. *)
StartUpdate ==
  /\ pc = "update"
  /\ nLastFnInfPriority < maxPriority
  /\ arrFnInfPriority[nLastFnInfPriority] # <<>>
  /\ curPriority' = nLastFnInfPriority
  /\ curFn' = Head(arrFnInfPriority[nLastFnInfPriority])
  /\ pc' = "smurf"
  /\ UNCHANGED <<problem, stackVars, trailVars, nNumUnresolvedFunctions,
                 queueVars, maxPriority, nextState, toCheck, inferVars, resultVars>>

-----------------------------------------------------------------------------
(* UpdateRegularSmurf *)

Instantiated(F) == {v \in Vbles(F) : arrSolution[v] # BOOL_UNKNOWN}

(* Follow the transition of the highest instantiated variable of the state. *)
Transition ==
  LET v == CHOOSE w \in Instantiated(fnState[curFn]) :
             \A u \in Instantiated(fnState[curFn]) : u <= w
      pFuncEvaled == set_variable(fnState[curFn], v, arrSolution[v])
  IN  /\ pc = "smurf"
      /\ Instantiated(fnState[curFn]) # {}
      /\ toCheck' = Inferences(pFuncEvaled)
      /\ nextState' = set_variable_all_infs(pFuncEvaled)
      /\ pc' = "check"
      /\ UNCHANGED <<problem, stackVars, trailVars, nNumUnresolvedFunctions,
                     queueVars, maxPriority, curFn, curPriority, inferVars,
                     resultVars>>

(* CheckSmurfInferences looks at the positive inferences first. *)
NextInference(l) ==
  /\ pc = "check"
  /\ l \in toCheck
  /\ l[2] = BOOL_FALSE => \A k \in toCheck : k[2] = BOOL_FALSE

CheckKnown(l) ==
  /\ NextInference(l)
  /\ arrSolution[l[1]] = l[2]
  /\ toCheck' = toCheck \ {l}
  /\ UNCHANGED <<problem, stackVars, trailVars, nNumUnresolvedFunctions,
                 queueVars, pc, maxPriority, curFn, curPriority, nextState,
                 inferVars, resultVars>>

CheckNew(l) ==
  /\ NextInference(l)
  /\ arrSolution[l[1]] = BOOL_UNKNOWN
  /\ toCheck' = toCheck \ {l}
  /\ inferring' = [var |-> l[1], val |-> l[2], choice |-> FALSE]
  /\ affected' = AFS(l[1])
  /\ pc' = "infer"
  /\ UNCHANGED <<problem, stackVars, trailVars, nNumUnresolvedFunctions,
                 queueVars, maxPriority, curFn, curPriority, nextState, resultVars>>

(* ERR_BT_SMURF: the update ends, and with it the deduction. *)
Conflict(l) ==
  /\ NextInference(l)
  /\ arrSolution[l[1]] \notin {l[2], BOOL_UNKNOWN}
  /\ nLastFnInfPriority' = 0
  /\ toCheck' = {}
  /\ nextState' = false_ptr
  /\ curFn' = NoFn
  /\ pc' = "backtrack"
  /\ UNCHANGED <<problem, stackVars, trailVars, nNumUnresolvedFunctions,
                 arrInferenceQueue, nextElt, arrFnInferenceQueue,
                 arrFnInfPriority, maxPriority, curPriority, inferVars,
                 resultVars>>

(* The functions left when a function comes to state F. *)
UnresolvedAfter(F) == IF F = true_ptr THEN nNumUnresolvedFunctions - 1
                                      ELSE nNumUnresolvedFunctions

(* All inferences are made: take the transition. *)
Arrive ==
  /\ pc = "check"
  /\ toCheck = {}
  /\ fnState' = [fnState EXCEPT ![curFn] = nextState]
  /\ nNumUnresolvedFunctions' = UnresolvedAfter(nextState)
  /\ nextState' = false_ptr
  /\ pc' = "smurf"
  /\ UNCHANGED <<problem, arrChangedFn, arrFnFlags, nCurFnVersion, arrFnStack,
                 popping, trailVars, queueVars, maxPriority, curFn, curPriority,
                 toCheck, inferVars, resultVars>>

(* Mutant: the list is looked up after InferLiteral may have lowered *)
(* nLastFnInfPriority. *)
ListLookedUpLate == nLastFnInfPriority

(* nCurFnPriority, the list the function was taken from. *)
ListOfUpdate == curPriority

(* No instantiated variable is left: the function leaves its list.  New    *)
(* inferences of a function of top priority go first.                      *)
EndUpdate ==
  /\ pc = "smurf"
  /\ Instantiated(fnState[curFn]) = {}
  /\ arrChangedFn' = [arrChangedFn EXCEPT ![curFn] = 2]
  /\ arrFnInfPriority' = [arrFnInfPriority EXCEPT ![ListOfUpdate] = Tail(@)]
  /\ IF QueueNonempty /\ curPriority = MAX_FN_PRIORITY - 1
     THEN nLastFnInfPriority' = 0 /\ pc' = AfterUpdate
     ELSE pc' = "update" /\ UNCHANGED nLastFnInfPriority
  /\ curFn' = NoFn
  /\ UNCHANGED <<problem, fnState, arrFnFlags, nCurFnVersion, arrFnStack, popping,
                 trailVars, nNumUnresolvedFunctions, arrInferenceQueue, nextElt,
                 arrFnInferenceQueue, maxPriority, curPriority, nextState,
                 toCheck, inferVars, resultVars>>

-----------------------------------------------------------------------------
(* InferLiteral *)

LowerOf(p, q) == IF p < q THEN p ELSE q

(* Mutant: a function that was updated on this level is not updated again. *)
WaitsOrUpdated(f) == arrChangedFn[f] # 0

WaitsForUpdate(f) == arrChangedFn[f] = 3

(* Affected functions are looked at in the order of their numbers, and put *)
(* on the list of their priority unless they wait there already.           *)
InferAffected(f) ==
  /\ pc = "infer"
  /\ f \in affected
  /\ \A g \in affected : f <= g
  /\ affected' = affected \ {f}
  /\ IF WaitsForUpdate(f)
     THEN UNCHANGED <<arrChangedFn, arrFnFlags, arrFnStack, arrFnInferenceQueue,
                      arrFnInfPriority>>
     ELSE /\ IF arrChangedFn[f] = 0
             THEN /\ FS!FnStackPush(f)
                  /\ arrFnInferenceQueue' = Append(arrFnInferenceQueue, f)
             ELSE UNCHANGED <<arrFnFlags, arrFnStack, arrFnInferenceQueue>>
          /\ arrFnInfPriority' =
               [arrFnInfPriority EXCEPT ![FnPriority[f]] = Append(@, f)]
          /\ arrChangedFn' = [arrChangedFn EXCEPT ![f] = 3]
  /\ nLastFnInfPriority' = LowerOf(nLastFnInfPriority, FnPriority[f])
  /\ UNCHANGED <<problem, fnState, nCurFnVersion, popping, trailVars,
                 nNumUnresolvedFunctions, arrInferenceQueue, nextElt, pc,
                 updateVars, inferring, resultVars>>

(* Then the literal is assigned, enqueued and put on the backtrack stack.  *)
InferAssign ==
  /\ pc = "infer"
  /\ affected = {}
  /\ arrSolution' = [arrSolution EXCEPT ![inferring.var] = inferring.val]
  /\ arrInferenceQueue' = Append(arrInferenceQueue, inferring.var)
  /\ arrBacktrackStack' =
       Append(arrBacktrackStack, [var |-> inferring.var, choice |-> inferring.choice])
  /\ pc' = IF curFn = NoFn THEN "deduce" ELSE "check"
  /\ UNCHANGED <<problem, stackVars, arrChoicePointStack, nNumUnresolvedFunctions,
                 nextElt, arrFnInferenceQueue, arrFnInfPriority,
                 nLastFnInfPriority, updateVars, inferVars, resultVars>>

-----------------------------------------------------------------------------
(* Mutant: the level does not get a version of its own. *)
SameVersion == nCurFnVersion

NewVersion == nCurFnVersion + 1

(* SelectNewBranchPoint.  The heuristics choose any free variable. *)
SelectNewBranchPoint ==
  /\ pc = "deduced"
  /\ nNumUnresolvedFunctions # 0
  /\ arrChangedFn' = [f \in Fn |-> IF f \in ToSet(arrFnInferenceQueue) THEN 0
                                   ELSE arrChangedFn[f]]
  /\ nCurFnVersion' = NewVersion
  /\ FS!Push(FS!Mark(nCurFnVersion'))
  /\ arrFnInferenceQueue' = <<>>
  /\ \E v \in Var, val \in Value :
       /\ arrSolution[v] = BOOL_UNKNOWN
       /\ arrChoicePointStack' =
            Append(arrChoicePointStack,
                   [var |-> v, nNumUnresolved |-> nNumUnresolvedFunctions])
       /\ inferring' = [var |-> v, val |-> val, choice |-> FALSE]
       /\ affected' = AFS(v)
  /\ pc' = "infer"
  /\ UNCHANGED <<problem, fnState, arrFnFlags, popping, arrSolution,
                 arrBacktrackStack, nNumUnresolvedFunctions, arrInferenceQueue,
                 nextElt, arrFnInfPriority, nLastFnInfPriority, updateVars,
                 resultVars>>

RecordSolution ==
  /\ pc = "deduced"
  /\ nNumUnresolvedFunctions = 0
  /\ solutions' = Append(solutions, arrSolution)
  /\ pc' = IF Len(solutions') = MaxSolutions THEN "finish" ELSE "backtrack"
  /\ UNCHANGED <<problem, stackVars, trailVars, nNumUnresolvedFunctions,
                 queueVars, updateVars, inferVars, backtracks, errLimits, ret>>

-----------------------------------------------------------------------------
(* CheckBtHooks and BackTrack_NL *)

LimitsChecked == (backtracks + 1) % BacktracksPerReport = 0

CountBacktrack == backtracks' = (backtracks + 1) % BacktracksPerReport

(* Mutant: the search ends at the last choice point. *)
AtMostOneChoice == Len(arrChoicePointStack) <= 1

NoChoiceLeft == arrChoicePointStack = <<>>

(* Mutant: the count stays that of the level that is left. *)
UnresolvedOfLevel(cp) == nNumUnresolvedFunctions

UnresolvedAt(cp) == cp.nNumUnresolved

ReversedValue(v) == IF arrSolution[v] = BOOL_TRUE THEN BOOL_FALSE ELSE BOOL_TRUE

(* CheckLimits finds the time or another limit exceeded. *)
HitLimit ==
  /\ pc = "backtrack"
  /\ Limits /\ LimitsChecked
  /\ CountBacktrack
  /\ errLimits' = TRUE
  /\ pc' = "finish"
  /\ UNCHANGED <<problem, stackVars, trailVars, nNumUnresolvedFunctions,
                 queueVars, updateVars, inferVars, solutions, ret>>

NowhereToBacktrack ==
  /\ pc = "backtrack"
  /\ CountBacktrack
  /\ NoChoiceLeft
  /\ pc' = "finish"
  /\ UNCHANGED <<problem, stackVars, trailVars, nNumUnresolvedFunctions,
                 queueVars, updateVars, inferVars, solutions, errLimits, ret>>

(* Pop the newest choice point, and the backtrack stack down to it. *)
BackTrack_NL ==
  LET cp   == Last(arrChoicePointStack)
      pos  == CHOOSE i \in DOMAIN arrBacktrackStack : arrBacktrackStack[i].var = cp.var
      kept == SubSeq(arrBacktrackStack, 1, pos - 1)
  IN  /\ pc = "backtrack"
      /\ CountBacktrack
      /\ ~NoChoiceLeft
      /\ arrChoicePointStack' = Front(arrChoicePointStack)
      /\ nNumUnresolvedFunctions' = UnresolvedAt(cp)
      /\ arrBacktrackStack' = kept
      /\ arrSolution' = [v \in Var |-> IF \E i \in DOMAIN kept : kept[i].var = v
                                       THEN arrSolution[v] ELSE BOOL_UNKNOWN]
      /\ inferring' = [var |-> cp.var, val |-> ReversedValue(cp.var),
                       choice |-> TRUE]
      /\ popping' = TRUE
      /\ pc' = "pop"
      /\ UNCHANGED <<problem, fnState, arrChangedFn, arrFnFlags, nCurFnVersion,
                     arrFnStack, queueVars, updateVars, affected, solutions,
                     errLimits, ret>>

(* pop_state_information restores the functions of the level ... *)
PopFunction ==
  /\ pc = "pop"
  /\ FS!PopFunction
  /\ UNCHANGED <<problem, trailVars, nNumUnresolvedFunctions, queueVars, pc,
                 updateVars, inferVars, resultVars>>

(* Mutants: the lists are flushed from 1 on, the queues not at all. *)
FlushedFromOne ==
  [p \in DOMAIN arrFnInfPriority |-> IF p = 0 THEN arrFnInfPriority[p] ELSE <<>>]

NotFlushed(q) == q

FlushedLists == [p \in DOMAIN arrFnInfPriority |-> <<>>]

Flushed(q) == <<>>

(* ... then the queues are flushed and the choice is reversed. *)
FlipChoice ==
  /\ pc = "pop"
  /\ FS!PopLevelStart
  /\ arrInferenceQueue' = Flushed(arrInferenceQueue)
  /\ nextElt' = 0
  /\ arrFnInferenceQueue' = Flushed(arrFnInferenceQueue)
  /\ arrFnInfPriority' = FlushedLists
  /\ nLastFnInfPriority' = 0
  /\ affected' = AFS(inferring.var)
  /\ pc' = "infer"
  /\ UNCHANGED <<problem, trailVars, nNumUnresolvedFunctions, updateVars,
                 inferring, resultVars>>

(* Mutant: a search that hit a limit is taken for a complete one. *)
VerdictWithoutLimits == IF solutions # <<>> THEN SOLV_SAT ELSE SOLV_UNSAT

Verdict == IF solutions # <<>> THEN SOLV_SAT
           ELSE IF errLimits THEN SOLV_UNKNOWN ELSE SOLV_UNSAT

(* Brancher leaves its loop and returns the verdict. *)
Return ==
  /\ pc = "finish"
  /\ ret' = Verdict
  /\ pc' = "done"
  /\ UNCHANGED <<problem, stackVars, trailVars, nNumUnresolvedFunctions,
                 queueVars, updateVars, inferVars, solutions, backtracks, errLimits>>

Done == pc = "done" /\ UNCHANGED vars

CheckInference == \E l \in Literal : CheckKnown(l) \/ CheckNew(l) \/ Conflict(l)

Next ==
  \/ Deduce \/ NextPriority \/ StartUpdate
  \/ Transition \/ CheckInference \/ Arrive \/ EndUpdate
  \/ \E f \in Fn : InferAffected(f)
  \/ InferAssign
  \/ SelectNewBranchPoint \/ RecordSolution
  \/ HitLimit \/ NowhereToBacktrack \/ BackTrack_NL \/ PopFunction \/ FlipChoice
  \/ Return \/ Done

(* One thread runs; it goes on as long as it can. *)
Spec == Init /\ [][Next]_vars /\ WF_vars(Next)

-----------------------------------------------------------------------------
(* What the search is about, and how it implements ModelSearch. *)

Models == {m \in Assignment : \A f \in Fn : m \in problem[f]}

Found == UNION {Cube(solutions[i]) : i \in DOMAIN solutions}

S == INSTANCE ModelSearch WITH models <- Models, found <- Found, verdict <- ret,
                               Enough <- MaxSolutions # 0,
                               Interruptible <- Limits

-----------------------------------------------------------------------------
TypeOK ==
  /\ problem \in Problems
  /\ fnState \in [Fn -> Function]
  /\ arrChangedFn \in [Fn -> {0, 2, 3}]
  /\ arrFnFlags \in [Fn -> Nat]
  /\ nCurFnVersion \in Nat
  /\ arrFnStack \in Seq(FS!StackEntry)
  /\ popping \in BOOLEAN
  /\ arrSolution \in Partial
  /\ arrBacktrackStack \in Seq([var : Var, choice : BOOLEAN])
  /\ arrChoicePointStack \in Seq([var : Var, nNumUnresolved : Nat])
  /\ nNumUnresolvedFunctions \in Nat
  /\ arrInferenceQueue \in Seq(Var)
  /\ nextElt \in 0..Len(arrInferenceQueue)
  /\ arrFnInferenceQueue \in Seq(Fn)
  /\ arrFnInfPriority \in [0..MAX_FN_PRIORITY - 1 -> Seq(Fn)]
  /\ nLastFnInfPriority \in 0..MAX_FN_PRIORITY
  /\ pc \in PCs
  /\ maxPriority \in {0, MAX_FN_PRIORITY - 1, MAX_FN_PRIORITY}
  /\ curFn \in Fn \cup {NoFn}
  /\ curPriority \in 0..MAX_FN_PRIORITY - 1
  /\ nextState \in Function
  /\ toCheck \subseteq Literal
  /\ inferring \in [var : Var, val : Value, choice : BOOLEAN]
  /\ affected \subseteq Fn
  /\ solutions \in Seq(Partial)
  /\ backtracks \in 0..BacktracksPerReport - 1
  /\ errLimits \in BOOLEAN
  /\ ret \in {SOLV_SAT, SOLV_UNSAT, SOLV_UNKNOWN}

(* A function waits in exactly the list of its priority, once, while its   *)
(* mark says so, and is in arrFnInferenceQueue, once, while it is marked at*)
(* all: the marks, the lists and the queue are cleared in three places     *)
(* (fn_update.cc:113, fn_stack.cc:130, br_backtrack_nl.cc:146).  This also *)
(* keeps the queue within its array (assert in vars_inferlit.cc:100).      *)
ListsMatchMarks ==
  TypeOK /\ (pc # "pop" =>
    /\ IsInjective(arrFnInferenceQueue)
    /\ \A f \in Fn : f \in ToSet(arrFnInferenceQueue) <=> arrChangedFn[f] # 0
    /\ \A p \in DOMAIN arrFnInfPriority :
         /\ IsInjective(arrFnInfPriority[p])
         /\ ToSet(arrFnInfPriority[p]) =
              {f \in Fn : arrChangedFn[f] = 3 /\ FnPriority[f] = p})

(* The inference queue is the end of the trail, so no variable is inferred *)
(* twice and the queue, which is only flushed on backtracking, never       *)
(* outgrows its array of nNumVariables entries (vars_inferlit.cc:145).     *)
QueueIsEndOfTrail ==
  LET trail == [i \in DOMAIN arrBacktrackStack |-> arrBacktrackStack[i].var]
  IN  pc # "pop" => /\ IsSuffix(arrInferenceQueue, trail)
                    /\ IsInjective(trail)
                    /\ ToSet(trail) = {v \in Var : arrSolution[v] # BOOL_UNKNOWN}

(* The count that decides whether a solution is reached is the number of   *)
(* functions not in the true state, although updates decrement it and      *)
(* backtracking restores it from another stack than the states.            *)
UnresolvedExact ==
  pc # "pop" => nNumUnresolvedFunctions = Cardinality({f \in Fn : fnState[f] # true_ptr})

(* When deduction ends without a conflict, each function has followed every*)
(* assigned variable exactly once, on any level and after any backtracking:*)
(* its state is the input restricted by the current assignment, and no     *)
(* function implies a literal any more (ITE_Deduce, br_brancher.cc:101).   *)
DeductionComplete ==
  pc = "deduced" =>
    \A f \in Fn : /\ fnState[f] = Restricted(problem[f], arrSolution)
                  /\ Normalized(fnState[f])

(* The brancher uses the function stack as FnStack allows, in particular   *)
(* starts a level only when no function waits for an update; and, with     *)
(* MaxVersion = NumVars + 1, its version counter stays below the number of *)
(* variables although popping never decrements it.                         *)
UsesFnStack == FS!Spec

(* The brancher implements ModelSearch: what it reports are models, none   *)
(* twice, and its verdict is right.                                        *)
FindsModels == S!Spec

(* Every search ends. *)
Terminates == <>(pc = "done")
=============================================================================
