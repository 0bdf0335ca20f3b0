----------------------------- MODULE SpecialFns -----------------------------
(***************************************************************************)
(* The special functions of the SMURF solver: clauses and AND equations    *)
(* (fn_and), parities (fn_xor) and numbers of true variables (fn_minmax).  *)
(* They are not automata but counters of what is unknown.  Small updates,  *)
(* in InferLiteral, decrement a New copy of the counters at once; the big  *)
(* update of a waiting function later compares, infers and stores them;    *)
(* backtracking restores the stored ones.                                  *)
(*                                                                         *)
(* One step is the big update of one function with the inferences it makes,*)
(* in any order of the waiting functions, a choice, or a backtrack.  What  *)
(* Brancher shows of queues and of the function stack is used here: a      *)
(* level saves a function when it first affects it.                        *)
(***************************************************************************)
EXTENDS Bdd

CONSTANTS Fn,        \* function numbers
          Problems   \* the inputs, each a function of Fn

ASSUME SpecialAssumption ==
  \A p \in Problems : /\ p \in [Fn -> Function]
                      /\ \A f \in Fn : Normalized(p[f])
                      /\ \A f \in Fn : \A t \in FunctionTypes(p[f]) :
                           t.nType \notin {"UNSURE", "NEG_MINMAX"}

SOLV_SAT     == 7
SOLV_UNSAT   == 8
SOLV_UNKNOWN == 9

VARIABLES
  problem,                  \* functions[], the input
  arrSolverFunctions,       \* the functions as created
  counts,                   \* their counters, which the stack saves ...
  nNumRHSUnknownsNew, nNumLHSUnknownsNew,   \* ... and their New copies
  arrChangedFn,             \* 3 waits for a big update, 2 had one, 0 neither
  arrSolution,
  arrChoicePointStack,      \* choice points, each with what its level saved
  nNumUnresolvedFunctions,
  pc, found, ret

fnVars     == <<counts, nNumRHSUnknownsNew, nNumLHSUnknownsNew, arrChangedFn,
                nNumUnresolvedFunctions>>
resultVars == <<found, ret>>

vars == <<problem, arrSolverFunctions, fnVars, arrSolution, arrChoicePointStack,
          pc, resultVars>>

NEG(val) == 1 - val

-----------------------------------------------------------------------------
(* Creating a function from its BDD *)

(* The literals of a conjunction, read off the path to true. *)
RECURSIVE AndPolarities(_)
AndPolarities(F) ==
  IF F = true_ptr THEN {}
  ELSE LET v == variable(F)
       IN  IF elseCase(F) = false_ptr
           THEN {<<v, BOOL_TRUE>>} \cup AndPolarities(thenCase(F))
           ELSE {<<v, BOOL_FALSE>>} \cup AndPolarities(elseCase(F))

Polarities(lits) == [v \in {l[1] : l \in lits} |-> CHOOSE val \in Value : <<v, val>> \in lits]

(* Variable 0 is always false; a clause is the equation 0 = no literal. *)
BDD2Specfn_AND(F, type) ==
  LET lhsPol == IF type.nType = "OR" THEN BOOL_FALSE ELSE BOOL_TRUE
      rhs    == IF type.nType = "PLAINOR" THEN notCase(F)
                                          ELSE set_variable(F, type.equ, lhsPol)
  IN  [nType |-> "AND", nLHSVble |-> type.equ, nLHSPolarity |-> lhsPol,
       arrRHSPolarities |-> Polarities(AndPolarities(rhs)), min |-> 0, max |-> 0]

(* A parity is satisfied if an odd number of variables have their polarity.*)
(* That of the top variable makes up for the rest.                         *)
TopPolarity(F) ==
  IF (ThenChain(F).end = true_ptr) = (ThenChain(F).length % 2 = 1)
  THEN BOOL_TRUE ELSE BOOL_FALSE

BDD2Specfn_XOR(F) ==
  [nType |-> "XOR", nLHSVble |-> 0, nLHSPolarity |-> BOOL_TRUE,
   arrRHSPolarities |->
     [v \in Vbles(F) |-> IF v = variable(F) THEN TopPolarity(F) ELSE BOOL_TRUE],
   min |-> 0, max |-> 0]

(* Mutant: the chain of then links is one too long. *)
MaxOneMore(F) == ThenChain(F).length

MaxTrue(F) == IF ThenChain(F).end = true_ptr THEN Length(F) ELSE ThenChain(F).length - 1

MinTrue(F) == IF ElseChain(F).end = true_ptr THEN 0
              ELSE Length(F) - ElseChain(F).length + 1

BDD2Specfn_MINMAX(F) ==
  [nType |-> "MINMAX", nLHSVble |-> 0, nLHSPolarity |-> BOOL_TRUE,
   arrRHSPolarities |-> [v \in Vbles(F) |-> BOOL_TRUE],
   min |-> MinTrue(F), max |-> MaxTrue(F)]

CreateFunction(F, type) ==
  CASE type.nType \in {"PLAINOR", "AND", "OR"} -> BDD2Specfn_AND(F, type)
    [] type.nType = "PLAINXOR" -> BDD2Specfn_XOR(F)
    [] type.nType = "MINMAX" -> BDD2Specfn_MINMAX(F)

RHS(fn) == DOMAIN fn.arrRHSPolarities

FnVbles(fn) == RHS(fn) \cup ({fn.nLHSVble} \ {0})

NewCounts(fn) == [nNumRHSUnknowns |-> Cardinality(RHS(fn)),
                  nNumLHSUnknowns |-> IF fn.nLHSVble = 0 THEN 0 ELSE 1,
                  nRHSCounter |-> 0]

Init ==
  /\ problem \in Problems
  /\ \E type \in [Fn -> UNION {FunctionTypes(problem[f]) : f \in Fn}] :
       /\ \A f \in Fn : type[f] \in FunctionTypes(problem[f])
       /\ arrSolverFunctions = [f \in Fn |-> CreateFunction(problem[f], type[f])]
  /\ counts = [f \in Fn |-> NewCounts(arrSolverFunctions[f])]
  /\ nNumRHSUnknownsNew = [f \in Fn |-> counts[f].nNumRHSUnknowns]
  /\ nNumLHSUnknownsNew = [f \in Fn |-> counts[f].nNumLHSUnknowns]
  /\ arrChangedFn = [f \in Fn |-> 0]
  /\ arrSolution = [v \in Var |-> BOOL_UNKNOWN]
  /\ arrChoicePointStack = <<>>
  /\ nNumUnresolvedFunctions = Cardinality(Fn)
  /\ pc = "deduce"
  /\ found = {}
  /\ ret = SOLV_UNKNOWN

-----------------------------------------------------------------------------
(* What a big update finds and does: an outcome has the literals to infer, *)
(* the counters to store, and whether the function is resolved.            *)

Unknown(fn) == {v \in RHS(fn) : arrSolution[v] = BOOL_UNKNOWN}
Agreeing(fn) == {v \in RHS(fn) : arrSolution[v] = fn.arrRHSPolarities[v]}
Opposed(fn) == RHS(fn) \ (Unknown(fn) \cup Agreeing(fn))

LHSValue(fn) == IF fn.nLHSVble = 0 THEN BOOL_FALSE ELSE arrSolution[fn.nLHSVble]

Literals(fn, vs, Val(_)) == {<<v, Val(fn.arrRHSPolarities[v])>> : v \in vs}

Same(val) == val

NoLiteral == {}

Conflict == [conflict |-> TRUE]

Resolve(lits, lhs, counter) ==
  [conflict |-> FALSE, infer |-> lits, resolved |-> TRUE,
   counts |-> [nNumRHSUnknowns |-> 0, nNumLHSUnknowns |-> lhs,
               nRHSCounter |-> counter]]

Store(rhs, lhs, counter) ==
  [conflict |-> FALSE, infer |-> NoLiteral, resolved |-> FALSE,
   counts |-> [nNumRHSUnknowns |-> rhs, nNumLHSUnknowns |-> lhs,
               nRHSCounter |-> counter]]

Unchanged(f) == [conflict |-> FALSE, infer |-> NoLiteral, resolved |-> FALSE,
                 counts |-> counts[f]]

UpdateSpecialFunction_AND(f) ==
  LET fn  == arrSolverFunctions[f]
      n   == Cardinality(Unknown(fn))
      lhs == LHSValue(fn)
      false == Opposed(fn) # {}
      counter == counts[f].nRHSCounter
  IN  IF n = counts[f].nNumRHSUnknowns /\ lhs = BOOL_UNKNOWN THEN Unchanged(f)
      ELSE CASE lhs = fn.nLHSPolarity /\ false -> Conflict
             [] lhs = fn.nLHSPolarity /\ ~false ->
                  Resolve(Literals(fn, Unknown(fn), Same), 0, counter)
             [] lhs = NEG(fn.nLHSPolarity) /\ false -> Resolve(NoLiteral, 0, counter)
             [] lhs = BOOL_UNKNOWN /\ false ->
                  Resolve({<<fn.nLHSVble, NEG(fn.nLHSPolarity)>>}, 0, counter)
             [] lhs = BOOL_UNKNOWN /\ ~false /\ n = 0 ->
                  Resolve({<<fn.nLHSVble, fn.nLHSPolarity>>}, 0, counter)
             [] lhs = NEG(fn.nLHSPolarity) /\ ~false /\ n = 1 ->
                  Resolve(Literals(fn, Unknown(fn), NEG), nNumLHSUnknownsNew[f], counter)
             [] lhs = NEG(fn.nLHSPolarity) /\ ~false /\ n = 0 -> Conflict
             [] OTHER -> Store(n, nNumLHSUnknownsNew[f], counter)

(* Mutant: the last unknown is not looked for. *)
FewUnknownsLate(f) == nNumRHSUnknownsNew[f] <= 0

(* Only then does the big update look at the assignment. *)
FewUnknowns(f) == nNumRHSUnknownsNew[f] <= 1

UpdateSpecialFunction_XOR(f) ==
  LET fn  == arrSolverFunctions[f]
      n   == Cardinality(Unknown(fn))
      odd == Cardinality(Agreeing(fn)) % 2 = 1
      Value1(pol) == IF odd = (pol = BOOL_TRUE) THEN BOOL_FALSE ELSE BOOL_TRUE
  IN  CASE ~FewUnknowns(f) -> Store(nNumRHSUnknownsNew[f], 0, 0)
        [] FewUnknowns(f) /\ n = 0 -> IF odd THEN Resolve(NoLiteral, 0, 0) ELSE Conflict
        [] FewUnknowns(f) /\ n = 1 -> Resolve(Literals(fn, Unknown(fn), Value1), 0, 0)
        [] OTHER -> Store(n, 0, 0)

(* Mutant: more than the maximum counts as settled. *)
OutOfBoundsBelow(counter, fn) == counter < fn.min

OutOfBounds(counter, fn) == counter < fn.min \/ counter > fn.max

UpdateSpecialFunction_MINMAX(f) ==
  LET fn      == arrSolverFunctions[f]
      n       == Cardinality(Unknown(fn))
      counter == Cardinality(Agreeing(fn))
      settled == \/ n = 0
                 \/ counter > fn.max
                 \/ counter >= fn.min /\ counter + n <= fn.max
                 \/ counter + n < fn.min
  IN  CASE settled /\ OutOfBounds(counter, fn) -> Conflict
        [] settled /\ ~OutOfBounds(counter, fn) -> Resolve(NoLiteral, 0, counter)
        [] ~settled /\ counter + n = fn.min ->
             Resolve(Literals(fn, Unknown(fn), Same), 0, counter)
        [] ~settled /\ counter + n # fn.min /\ counter = fn.max ->
             Resolve(Literals(fn, Unknown(fn), NEG), 0, counter)
        [] OTHER -> Store(n, 0, counter)

(* A resolved function is not looked at again. *)
UpdateAffectedFunction(f) ==
  IF counts[f].nNumRHSUnknowns <= 0 THEN Unchanged(f)
  ELSE CASE arrSolverFunctions[f].nType = "AND"    -> UpdateSpecialFunction_AND(f)
         [] arrSolverFunctions[f].nType = "XOR"    -> UpdateSpecialFunction_XOR(f)
         [] arrSolverFunctions[f].nType = "MINMAX" -> UpdateSpecialFunction_MINMAX(f)

-----------------------------------------------------------------------------
(* InferLiteral, for all literals an update infers *)

Atoms(lits) == {l[1] : l \in lits}

Affected(lits) == {f \in Fn : FnVbles(arrSolverFunctions[f]) \cap Atoms(lits) # {}}

(* Mutant: only the right hand side has small updates. *)
NoSmallUpdateOfLHS(f, lits) == 0

SmallUpdatesOfLHS(f, lits) == Cardinality(Atoms(lits) \cap {arrSolverFunctions[f].nLHSVble})

SmallUpdatesOfRHS(f, lits) == Cardinality(Atoms(lits) \cap RHS(arrSolverFunctions[f]))

UpdateDone(marks, f) == [marks EXCEPT ![f] = 2]

(* The marks once the literals are inferred, given the marks before. *)
Marked(marks, lits) == [f \in Fn |-> IF f \in Affected(lits) THEN 3 ELSE marks[f]]

(* The level saves the counters of the functions it affects first. *)
SavedBy(stack, marks, lits) ==
  IF stack = <<>> THEN stack
  ELSE [stack EXCEPT ![Len(stack)].saved =
          [f \in DOMAIN @ \cup {g \in Affected(lits) : marks[g] = 0} |->
             IF f \in DOMAIN @ THEN @[f] ELSE counts[f]]]

Infer(lits, rhsNew, lhsNew) ==
  /\ nNumRHSUnknownsNew' = [f \in Fn |-> rhsNew[f] - SmallUpdatesOfRHS(f, lits)]
  /\ nNumLHSUnknownsNew' = [f \in Fn |-> lhsNew[f] - SmallUpdatesOfLHS(f, lits)]

Assigned(sol, lits) ==
  [v \in Var |-> IF v \in Atoms(lits) THEN CHOOSE val \in Value : <<v, val>> \in lits
                                      ELSE sol[v]]

-----------------------------------------------------------------------------
Waits(f) == pc = "deduce" /\ arrChangedFn[f] = 3

(* UpdateEachAffectedFunction takes a waiting function and updates it. *)
Update(f) ==
  LET outcome == UpdateAffectedFunction(f)
  IN  /\ Waits(f)
      /\ ~outcome.conflict
      /\ counts' = [counts EXCEPT ![f] = outcome.counts]
      /\ Infer(outcome.infer, nNumRHSUnknownsNew, nNumLHSUnknownsNew)
      /\ arrSolution' = Assigned(arrSolution, outcome.infer)
      /\ arrChangedFn' = UpdateDone(Marked(arrChangedFn, outcome.infer), f)
      /\ arrChoicePointStack' =
           SavedBy(arrChoicePointStack, arrChangedFn, outcome.infer)
      /\ nNumUnresolvedFunctions' =
           nNumUnresolvedFunctions - (IF outcome.resolved THEN 1 ELSE 0)
      /\ UNCHANGED <<problem, arrSolverFunctions, pc, resultVars>>

UpdateConflict(f) ==
  /\ Waits(f)
  /\ UpdateAffectedFunction(f).conflict
  /\ pc' = "backtrack"
  /\ UNCHANGED <<problem, arrSolverFunctions, fnVars, arrSolution,
                 arrChoicePointStack, resultVars>>

Deduced == pc = "deduce" /\ \A f \in Fn : arrChangedFn[f] # 3

(* UpdateFunctionInfEnd, for the functions the level affected. *)
NewAtInfEnd(f, stored, new) == IF arrChangedFn[f] # 0 THEN stored ELSE new

(* SelectNewBranchPoint, with any free variable and value. *)
SelectNewBranchPoint(v, val) ==
  /\ Deduced
  /\ nNumUnresolvedFunctions # 0
  /\ arrSolution[v] = BOOL_UNKNOWN
  /\ Infer({<<v, val>>},
           [f \in Fn |-> NewAtInfEnd(f, counts[f].nNumRHSUnknowns, nNumRHSUnknownsNew[f])],
           [f \in Fn |-> NewAtInfEnd(f, counts[f].nNumLHSUnknowns, nNumLHSUnknownsNew[f])])
  /\ arrSolution' = Assigned(arrSolution, {<<v, val>>})
  /\ arrChangedFn' = Marked([f \in Fn |-> 0], {<<v, val>>})
  /\ arrChoicePointStack' =
       SavedBy(Append(arrChoicePointStack,
                      [var |-> v, val |-> val, before |-> arrSolution,
                       nNumUnresolved |-> nNumUnresolvedFunctions,
                       saved |-> [f \in {} |-> counts[f]]]),
               [f \in Fn |-> 0], {<<v, val>>})
  /\ UNCHANGED <<problem, arrSolverFunctions, counts, nNumUnresolvedFunctions,
                 pc, resultVars>>

RecordSolution ==
  /\ Deduced
  /\ nNumUnresolvedFunctions = 0
  /\ found' = found \cup Cube(arrSolution)
  /\ pc' = "backtrack"
  /\ UNCHANGED <<problem, arrSolverFunctions, fnVars, arrSolution,
                 arrChoicePointStack, ret>>

(* Mutant: the choice is repeated. *)
SameChoice(cp) == cp.val

ReversedChoice(cp) == NEG(cp.val)

(* BackTrack_NL: restore what the level saved, and reverse its choice. *)
BackTrack ==
  LET cp    == arrChoicePointStack[Len(arrChoicePointStack)]
      saved == cp.saved
      lower == SubSeq(arrChoicePointStack, 1, Len(arrChoicePointStack) - 1)
      lit   == {<<cp.var, ReversedChoice(cp)>>}
      restored == [f \in Fn |-> IF f \in DOMAIN saved THEN saved[f] ELSE counts[f]]
      RestoredNew(f, stored, new) == IF f \in DOMAIN saved THEN stored ELSE new
      none  == [f \in Fn |-> 0]
  IN  /\ pc = "backtrack"
      /\ arrChoicePointStack # <<>>
      /\ counts' = restored
      /\ Infer(lit,
               [f \in Fn |-> RestoredNew(f, restored[f].nNumRHSUnknowns, nNumRHSUnknownsNew[f])],
               [f \in Fn |-> RestoredNew(f, restored[f].nNumLHSUnknowns, nNumLHSUnknownsNew[f])])
      /\ arrSolution' = Assigned(cp.before, lit)
      /\ arrChangedFn' = Marked(none, lit)
      /\ arrChoicePointStack' =
           IF lower = <<>> THEN lower
           ELSE [lower EXCEPT ![Len(lower)].saved =
                   [f \in DOMAIN @ \cup Affected(lit) |->
                      IF f \in DOMAIN @ THEN @[f] ELSE restored[f]]]
      /\ nNumUnresolvedFunctions' = cp.nNumUnresolved
      /\ pc' = "deduce"
      /\ UNCHANGED <<problem, arrSolverFunctions, resultVars>>

Return ==
  /\ pc = "backtrack"
  /\ arrChoicePointStack = <<>>
  /\ ret' = IF found = {} THEN SOLV_UNSAT ELSE SOLV_SAT
  /\ pc' = "done"
  /\ UNCHANGED <<problem, arrSolverFunctions, fnVars, arrSolution,
                 arrChoicePointStack, found>>

Done == pc = "done" /\ UNCHANGED vars

Next ==
  \/ \E f \in Fn : Update(f) \/ UpdateConflict(f)
  \/ \E v \in Var, val \in Value : SelectNewBranchPoint(v, val)
  \/ RecordSolution \/ BackTrack \/ Return \/ Done

Spec == Init /\ [][Next]_vars /\ WF_vars(Next)

-----------------------------------------------------------------------------
S == INSTANCE ModelSearch WITH
       models <- {m \in Assignment : \A f \in Fn : m \in problem[f]},
       verdict <- ret, Enough <- FALSE, Interruptible <- FALSE

Satisfied(fn, m) ==
  LET counter == Cardinality({v \in RHS(fn) : m[v] = fn.arrRHSPolarities[v]})
      lhs     == IF fn.nLHSVble = 0 THEN BOOL_FALSE ELSE m[fn.nLHSVble]
  IN  CASE fn.nType = "AND" ->
             (lhs = fn.nLHSPolarity) = (counter = Cardinality(RHS(fn)))
        [] fn.nType = "XOR" -> counter % 2 = 1
        [] fn.nType = "MINMAX" -> counter \in fn.min..fn.max

TypeOK ==
  /\ problem \in Problems
  /\ \A f \in Fn :
       /\ counts[f] \in [nNumRHSUnknowns : 0..NumVars, nNumLHSUnknowns : {0, 1},
                        nRHSCounter : 0..NumVars]
       /\ nNumRHSUnknownsNew[f] \in -NumVars..NumVars
       /\ nNumLHSUnknownsNew[f] \in {-1, 0, 1}
       /\ arrChangedFn[f] \in {0, 2, 3}
  /\ arrSolution \in Partial
  /\ nNumUnresolvedFunctions \in 0..Cardinality(Fn)
  /\ pc \in {"deduce", "backtrack", "done"}
  /\ found \subseteq Assignment
  /\ ret \in {SOLV_SAT, SOLV_UNSAT, SOLV_UNKNOWN}

(* The equation, parity or bounds read off a BDD mean what the BDD means,  *)
(* for every BDD that is classified so (bdd2specfn_*.cc).                  *)
CreatedRight ==
  \A f \in Fn : problem[f] = {m \in Assignment : Satisfied(arrSolverFunctions[f], m)}

(* The counters, kept apart from the assignment by small updates, big      *)
(* updates and restores, agree with it for every function not resolved: the*)
(* New ones always, the stored ones when the function does not wait.       *)
CountersExact ==
  TypeOK /\ (pc = "deduce" =>
    \A f \in Fn :
      LET fn == arrSolverFunctions[f]
      IN  counts[f].nNumRHSUnknowns > 0 =>
            /\ nNumRHSUnknownsNew[f] = Cardinality(Unknown(fn))
            /\ nNumLHSUnknownsNew[f] = IF LHSValue(fn) = BOOL_UNKNOWN THEN 1 ELSE 0
            /\ arrChangedFn[f] # 3 =>
                 /\ counts[f].nNumRHSUnknowns = nNumRHSUnknownsNew[f]
                 /\ counts[f].nNumLHSUnknowns = nNumLHSUnknownsNew[f]
                 /\ fn.nType = "MINMAX" =>
                      counts[f].nRHSCounter = Cardinality(Agreeing(fn)))

(* The functions not resolved are as many as are counted; when nothing     *)
(* waits these, and only these, can still be false, and imply no literal   *)
(* any more: the counting finds every inference that the BDD has.          *)
ResolvedExact ==
  /\ pc = "deduce" =>
       nNumUnresolvedFunctions = Cardinality({f \in Fn : counts[f].nNumRHSUnknowns > 0})
  /\ Deduced =>
       \A f \in Fn : LET rest == Restricted(problem[f], arrSolution)
                     IN  IF counts[f].nNumRHSUnknowns = 0 THEN rest = true_ptr
                         ELSE rest # true_ptr /\ Normalized(rest)

(* A big update ends in a conflict exactly if the function is false under  *)
(* the assignment it sees, and otherwise infers only what is implied,      *)
(* whatever was inferred while the function waited.                        *)
UpdatesRight ==
  [][\A f \in Fn :
       LET rest == Restricted(problem[f], arrSolution)
       IN  /\ UpdateConflict(f) => rest = false_ptr
           /\ Update(f) =>
                /\ rest # false_ptr
                /\ \A v \in Var : arrSolution'[v] # arrSolution[v] =>
                                  <<v, arrSolution'[v]>> \in Inferences(rest)]_vars

(* With special functions too the search implements ModelSearch. *)
FindsModels == S!Spec
=============================================================================
