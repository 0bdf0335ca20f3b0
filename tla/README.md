# SBSAT in TLA+

SBSAT decides whether a conjunction of Boolean constraints is satisfiable. It reads
constraints in several formats, turns each into a BDD, rewrites the BDDs
(preprocessing) and hands them to a solver; the default one, the SMURF brancher
(`src/src/solv_smurf`), is a conflict-driven search over *Smurfs*, state machines
built from BDDs. This directory holds TLA+ models of its core, TLC configurations
that check them, and TLAPS proofs.

## Inventory

| component | state | operations | what makes it correct |
|---|---|---|---|
| function stack, `fn_stack.cc` | `arrFnStack` (linked chunks), `nFnStackIdx`, `nCurFnVersion`, `arrFnFlags`, `arrChangedFn` | save a function, start a level, pop a level | popping restores exactly the states of the moment the level began |
| search loop, `br_*.cc` | trail `arrBacktrackStack`, `arrSolution`, choice points, `nNumUnresolvedFunctions`, counters | `Brancher`, `ITE_Deduce`, `SelectNewBranchPoint`, `BackTrack_NL`, `BackTrack`, `RecordSolution`, limits | every model found, none twice, right verdict, termination |
| inference and updates, `vars_inferlit.cc`, `fn_update.cc` | inference queue, list of functions of each priority, list of functions touched on the level | `InferLiteral`, `UpdateEachAffectedFunction`, `Functions_Update_Inf_End` | at the end of deduction every function took every assigned variable into account |
| Smurfs, `fn_smurf/` | current state of a function, transition table shared by all | `UpdateRegularSmurf`, `CreateTransition` | a state stands for the function restricted by the assignment; transitions carry all inferences |
| special functions, `fn_and`, `fn_xor`, `fn_minmax` | counters of unknown variables, each in a stored and a New copy | creation from a BDD, small update (one literal), big update | the function made means what the BDD means; counters describe the restricted function; no inference missed |
| lemmas, `fn_lemma/`, `br_backtrack.cc` | trail with reasons, temporary lemma with its flags, lists of unit lemmas, watched literals, cache queues, lemma blocks | `BackTrack` (conflict analysis, backjump), `UpdateEachAffectedLemma`, cache trimming | lemmas are implied; no model is jumped over; no unit lemma is missed; the cache is bounded |
| heuristics, `hr_*/` | scores | choose a free variable and a value | the choice is free |
| BDD package, `utils/` | node table with chains, pools and a free list, operation table, inference lists, flags | `find_or_add_node`, `ite`, `set_variable`, `bdd_gc`, `GetInferFoAN` | one node for each function, before and after collections; results stay right; complete inference lists |
| preprocessing, `preproc/` | `functions[]`, `variablelist[]`, equivalence classes | cofactoring, pruning, strengthening, dependent variables | the conjunction keeps its models up to recorded substitutions |
| other solvers, `solv_*` | their own | local searches, BDD walks, a simple DPLL | as above |
| driver, formats, output | options, files | read, preprocess, solve, write | sequencing |

How they interact: a single thread runs `solve` (`solver.cc:159`): `solve_init` builds
the functions and tables, `Brancher` loops over deduction, choice and backtracking.
Components share global arrays rather than pass messages. What is hard here is not
concurrency but bookkeeping kept in several places by several routines: the same
fact (which functions changed, what is inferred, how many functions are open) is
held in marks, lists, queues, counters and two stacks, which are brought up to date
at different moments and rolled back by different code. The order of the calls
depends on the input and on the heuristic, so a test reaches few of the orders.
`PROJECT.json` lists the hazards at their lines.

## Modules

* `StateHistory` is the promise of the function stack: levels opened remember the
  states of all functions, levels closed bring them back.
* `FnStack` models `fn_stack.cc` and its callers' protocol. `arrFnStack` is a sequence
  of entries; `MarkAffected` is what `InferLiteral` does to an affected function,
  `ChangeState` and `EndUpdate` its big update, `FnStackPushFunctionLevel` (with the
  clearing of the marks by `Functions_Update_Inf_End` before it) the start of a level,
  and the loop of `pop_state_information(1)` is one action per turn. `H!Spec`, with
  each snapshot recomputed from the lowest save above its mark, is the refinement.
* Theorems about a module are in the modules named after it: `FnStack_proofs`,
  `FnStackPool_proofs`, `BoolFn_proofs` (lemmas only), `Brancher_proofs`,
  `LemmaBrancher_proofs`, `WatchedLits_proofs`, `LemmaCache_proofs`, `BddTable_proofs`.
* `LifoStack` is a stack; `FnStackPool` is the chunked memory that implements the
  sequence of `FnStack`. Cells have the positions of the code (`POOL_START` at 2,
  `POOL_END` at `newsize-2`, the links around them).
* `BoolFn`: BDDs as the Boolean functions they represent, that is sets of
  assignments; `set_variable`, the support, the inferences.
* `ModelSearch` is the promise of a solver: report models, none twice, end with a
  right verdict.
* `Brancher` models the search with `NO_LEMMAS = 1` on Smurf functions, one action per
  turn of a loop of the code, from `ITE_Deduce` down to a single transition of a Smurf
  and a single affected function of `InferLiteral`. `pc` says which routine runs. It
  uses `FnStack`'s operators for the function stack (`FS!FnStackPush`,
  `FS!PopFunction`, ...), and the heuristics' choice is any free variable and value.
  `FS!Spec` as a property shows that it uses the function stack as the proofs about it
  require, so what is proved of `FnStack` holds in the search; `S!Spec` that it
  implements `ModelSearch`.

* `LemmaCache` models `fn_lemma/lemmacache.cc`: the three queues with their pointers, and
  the loop of `RemoveLemmasFromCache`, one action per turn. `calls` is the C stack: a
  turn whose filter keeps the lemma pushes the call of the next queue's `PQEnqueue`, and
  when that returns the caller reads the link of its lemma anew. What `BackTrack` and
  `UpdateEachAffectedLemma` do to a lemma (derive it, hand it over, infer with it, find
  it violated, undo its inference) are the actions of `SolverStep`, in any order.

* `Bdd` adds the shape of reduced BDDs to `BoolFn` (`variable`, `thenCase`, `elseCase` of a
  function) and the tests of `bdd.cc` on it: `isOR`, `isAND_EQU`, `isXOR`, `isMIN_MAX`,
  `findandset_fnType`.
* `SpecialFns` models the functions those tests find. `BDD2Specfn_AND`, `_XOR`, `_MINMAX`
  read polarities, parity and bounds off the paths of the BDD; `UpdateFunction_Infer` of
  each type is `Update` or `UpdateConflict`, a whole big update of one waiting function,
  with the small updates its inferences make in the others. Functions wait in any order.
* `LemmaBrancher` models the search with lemmas. `BackTrack` is one action per turn: `Pop`
  of the trail (in which the conflict lemma is resolved and lemmas are derived), `BackJump`
  to the choice point below, `Flip` and, for each unit lemma left, `UnitInfers` or
  `UnitToCache`. A lemma is the set of its literals. Deduction is any transition of a
  Smurf or inference of a cached lemma in any order, and lemmas leave the cache at any
  time unless they are in use, which is what `LemmaCache` shows of them.
* `WatchedLits` models the lists of watched literals: the numbers are those of the code
  (the head of a literal's list is the literal, lemmas come above), one action is one turn
  of the loop of `UpdateEachAffectedLemma`. The rest of the solver infers, chooses,
  backtracks over several levels and adds or frees lemmas in any way that `BackTrack`
  and the cache may.
* `BddTable` models `bddtable.cc`. A node is its address; `AddNode` is
  `bddtable_find_or_add_node` with the allocation of the node and of its negation,
  `FindNode` the exchange of a node found with the one before it, `StartGc`, `SweepPool`,
  `DropPool` and `EndGc` are `bdd_gc`, one action per pool. What malloc gives for a pool
  may be memory given back before. The results of `ite_x_y_F` stand for the operation
  table, whose entries are all dropped by a collection. `Meaning` is the function of a
  node, computed from its links.

The definitions kept next to the ones they change and commented "Mutant" are faults
the properties must detect; no specification uses them.

## Runs

| run | question | bounds |
|---|---|---|
| `fn_stack` | does version-controlled saving restore the right states? | two functions, two states, versions up to 3: nested levels and levels opened again at a version used before, in every interleaving with saves and changes |
| `fn_stack_pool` | do chunks make one stack? | two entries per chunk, depth 6: three chunks, both boundaries crossed upwards into new and used chunks and downwards |
| `brancher` | is the search correct without limits? | three variables; every choice of three functions from a pool of eight (clauses, equivalences, parities, an AND gate): 56 inputs, satisfiable with up to several models, unsatisfiable by deduction only, and after search; all models requested; limits off |
| `brancher_limits` | with priorities, a limit and one solution? | as above; the last function has the top priority, search ends at the first solution, limits are looked at every second backtrack and may be exceeded each time |
| `special` | are special functions what their BDDs are, do their counters stay true, is the search with them correct? | four variables, two functions: every special function of three variables and the AND equations, clauses, parities and bounds of all four, each with a clause that feeds it, and all pairs of a sample of seven |
| `lemma_search` | are lemmas implied, unique implication points recognised, flags cleared, no models skipped? | four variables, three functions; four inputs: clauses, parities, gates without a model, and one with a choice that is jumped over; every order of deduction, every choice, lemmas leave the cache at any time |
| `lemma_search_ends` | does it end? | two inputs, small enough for liveness |
| `watched` | do the lists stay intact, is a unit or violated lemma ever missed? | four variables; a lemma of all four literals, whose two watches move one after the other, and one of three that shares literals with it; levels up to four, backtracks over any number of them |
| `lemma_cache` | are the queues intact, is nothing in use freed, is the cache bounded? | five lemmas, two referred to at a time, `MAX_NUM_CACHED_LEMMAS = 1` (bounds 0, 1 and 0): three calls nest and each removes a lemma, with lemmas to skip on the way |
| `lemma_cache_ends` | does trimming end? | three lemmas, two referred to; no symmetry and no view, because the property is a liveness property |
| `lemma_cache_stops` | does trimming end only when nothing else is free-able? | three lemmas; expected to fail, see below |
| `bdd_table` | chains, free list, canonicity, meanings and results under collection and reuse? | two variables, three functions and their negations, three pools of three nodes, so that a pair lies across two pools and the middle pool can be given back and allocated again; three chains; one function kept, one stored result |

Three variables suffice for choice points nested twice, conflicts on each level, and
inferences made by one function that others must notice; three functions for lists
with a function to take off, one that waits and one that is appended.

`SamePriority` is what the code does: `nFnPriority` is zero in every function but those
made by `SmurfAuCreateFunction`, and no function gets the type it serves. The lists
still have three priorities in the code, so `MixedPriorities` checks them as written,
with the early return of `UpdateEachAffectedFunction` (`fn_update.cc:101`), which functions
of the present types cannot take.

Bounds that are not in the code: `MaxVersion` in `FnStack` and `MaxDepth` in
`FnStackPool` cap counters; `newsize` is `(nNumFuncs+1)*6 + 10000` there; in `Brancher`
the backtrack counter is kept modulo `BACKTRACKS_PER_STAT_REPORT`, the only way it is
read. `MaxVersion = NumVars + 1` in `UsesFnStack` is itself checked: versions never
exceed the number of variables by more than one.

The number of lemmas is bounded by `Lemma`; the program allocates more when it runs out. `MaxPinned`
bounds the lemmas with references: there is at most one for each assigned variable.
In `BddTable`, `Built` names the functions for which nodes are made, `MaxFunctions` and `MaxCached`
bound `functions[]` and the operation table, and `MaxPools` is the memory there is. Pools have one
size; in the code they grow up to `_bdd_pool_size`. The hash is of addresses, as in the code.

The view `Live` of `lemma_cache` leaves out the fields of a lemma that are written again
before they are read.

Inputs of `Brancher` are normalised (no function implies a literal, none is constant).
That is what preprocessing leaves; `BDD2Smurf` would drop initial inferences, and
`CreateFunctions` would count a true function as unresolved forever (see the hazards).

### Deadlock and fairness

Deadlock is checked in every run: the searches stutter explicitly once they are done.
`Terminates` of `Brancher` and `LemmaBrancher` assumes weak fairness of the next step, and
`CallsEnd` of `LemmaCache` weak fairness of the cache's own steps: each is a loop of the
only thread, which the operating system keeps running. No fairness is assumed of the
heuristic's choice, of the order of deduction, of lemmas leaving the cache, of limits or
of inputs.

## What is checked

The type invariant is a conjunct of the first property of each module but `FnStack`.

* `FnStack`: `ChangedIsSaved`, `PopClearsMarks`, `ImplementsHistory`.
* `FnStackPool`: `ChainIntact` (the asserts of `fn_stack.cc:82,129,230` and more),
  `ReusesChunks`, `ImplementsLifo`.
* `Brancher`: `ListsMatchMarks`, `QueueIsEndOfTrail`, `UnresolvedExact` relate the
  several records of one fact; `DeductionComplete` says what deduction achieved;
  `UsesFnStack`, `FindsModels` and `Terminates` are the use it makes of the function
  stack and the correctness of the search.
* `SpecialFns`: `CreatedRight` (a special function means what its BDD means),
  `CountersExact` (both copies of the counters against the assignment), `ResolvedExact`
  (what is counted as resolved is true, what is not implies no literal once nothing
  waits), `UpdatesRight` (conflicts and inferences of a big update that comes late),
  `FindsModels`.
* `LemmaBrancher`: `ReasonsRight` (each inference follows from its lemma and what was
  assigned before), `LemmasImplied` (no lemma excludes a model not reported yet),
  `FlagsExact` (the count that decides that a unique implication point is reached; no
  flag is left), `UnitLemmasInUse`, `InfersUnknown` (what the comment at
  `br_backtrack.cc:474` relies on), `FindsModels`, `Terminates`.
* `WatchedLits`: `ListsIntact` (both directions, tails, no rings), `WatchesSound` (a watch that
  stays false is covered by a true literal of its level or below), `LemmasComplete`.
  Links that agree in both directions would still admit a ring of lemmas that no head
  leads to; the last part of `ListsIntact` rules it out, as in every set of lemmas one has
  its predecessor outside the set.
* `LemmaCache`: `QueuesLinked` (both directions, counters, and between the turns of
  nested calls), `OnePlace` (nothing is freed twice or lost), `InUseKept` (nothing the
  backtrack stack or a call still needs is freed), `CacheBounded`, `CallsEnd`.
* `BddTable`: `TableIntact` (chains by key, free list, its count), `Canonical` (one node for
  a function, `notCase` its negation), `FunctionsKept` (what a kept function means is
  changed by nothing), `ResultsRight` (no stored result outlives its operands).

### A finding

`RemoveLemmasFromCache` is asked to remove `nNumCachedLemmas - bound + 1` lemmas. It reads
`p->pLPQPrev` (`lemmacache.cc:159`) after the filter was called on `p`. If the filter kept
`p`, that lemma is now at the front of the next queue and the link is `NULL`, so the loop
returns at line 150, commented "not enough free-able lemmas", though there may be
many: `StopsOnlyIfNoneFreeable` fails in `lemma_cache_stops`. The queue stays bounded
all the same, which `CacheBounded` states: one lemma is still removed for each that
comes, so a queue that grew while its lemmas were referred to keeps that size while
its last lemmas are worth keeping.

### Observed while modelling

* `UpdateEachAffectedLemma`, when a watch of a satisfied lemma became false, starts the
  comparison at the index of the first true literal (`bt_lemmas.cc:294`), so the second
  watch is moved only to a literal lower than that. `WatchesSound` and `LemmasComplete`
  hold with it.
* `_and_dot` (`bdd.cc:666`), whose results are only asked for their inferences, gives
  `constant_and(x->elseCase, y)` (lines 712 and 733) also where both operands have the same
  top variable and where they change places; there it looks up `(y, x)` but stores
  `(x, y)`. From reading, this can only lose inferences or stored results; it is not
  modelled.

## What is proved

The theorems hold for every value of the constants that meets the named assumptions of
the modules. None assumes more than that numbers are numbers, that the set of functions
or lemmas is finite, and what the code itself requires: at least one variable, chunks
of at least six cells, pools of at least three nodes, a bound of the cache of at least
one lemma, and inputs as
preprocessing leaves them (each function normalised, that is free of inferences, and
not true).

**Function stack** (`FnStack_proofs`: `TypeCorrect`, `SavesComplete`, `PopClears`,
`Refinement`). `ChangedIsSaved` is not inductive: whether a
push happens depends on `arrFnFlags[f] # nCurFnVersion`, so the invariant of the proof
says what versions mean. No flag is newer than the current version (`FlagsNotNewer`); a
function whose flag is the current version is saved on the newest level
(`SavedIfCurrent`); and when a mark was pushed its version was newer than every flag
(`MarkIsNewer`), which is read off the stack: the flag of a function at that time is in
its lowest entry above the mark, or still in `arrFnFlags`. The last is what makes it
safe to return, after a pop, to a version used before: the flags that return with it
are older. The refinement then follows action by action from two lemmas, that pushing
an entry that is not the first for its function above a mark changes no snapshot and
that popping the top entry restores the state the snapshot of the top mark held.

**Chunks** (`FnStackPool_proofs`: `ChainStaysIntact`, `MemoryReused`, `PoolIsLifo`).
`ChainIntact` becomes inductive with the statement that every cell below the top holds
an entry (`Filled`). An entry of the stack at depth `d` is in chunk `ChunkOf(d)` at cell
`CellOf(d)`, and the lemmas about these two (they are inverse to the depth, one step up
or down crosses a boundary exactly where the code follows a link) carry the refinement.

**Search** (`Brancher_proofs`: `TypeCorrect`, `ListsAndMarksAgree`, `QueueEndsTrail`, `UnresolvedCount`, `DeductionEnds`,
`FindsTheModels`, `StackUsedWell`). The invariant `IInv` has sixteen parts. The first
say what one list, mark or stack means and when another is behind it: between the
assignment of a literal and the end of `InferLiteral` some affected functions are on no
list yet (`InferOk`), a function under update stays marked and first of its list
(`WhereOk`), lists of lower priority numbers are empty (`WaitOk`). `StatesOk` relates
the state of a function to the input: on the assignments still possible it is the
function, and unless the function waits its support holds no assigned variable, so that
it is the function restricted by the assignment. Undoing is where this is hard: `LevelsOk` gives every choice point the mark of the function stack that was
pushed with it, and says that the states saved above it are right for the trail below
it, so that the pop of a level and the pop of the trail agree. `SearchOk` is what
makes the search complete: a model is found already, or is below the present
assignment (`Here`), or in the branch that some choice has not taken yet (`Later`), and
none found is in the other two. `FindsModels` and the right verdict follow. That the
functions are updated through `FnStack` and no other way is itself a theorem
(`StackUsedWell`), and the invariant of `FnStack_proofs` is used through it. What the
deduction does to functions rests on lemmas in `BoolFn_proofs`: what `set_variable` does
to the models and to the support, that a function without assigned variables in its
support is the restriction (`SettledIsRestricted`), and that taking the inferences out
leaves a function that implies none (`WithoutInferences`).

**Search with lemmas** (`LemmaBrancher_proofs`: `ReasonsAreRight`, `LemmasAreImplied`,
`FlagsAreExact`, `UnitLemmasAreInUse`, `InfersNew`, `FindsTheModels`). The invariant `IInv`
has thirteen parts. *States*: `StateOk(F, s, path, b)` says that the state `s` of a Smurf is
right for the trail before position `b`: the literals of its path are false there, a model
of the function that the path does not exclude is in `s`, and one of `s` that agrees with
that part of the trail is a model. From the first two follows that the lemma
of an inference, path and literal, is implied by the function; from the last, that a
solution is a model. It holds of the present states, and of those saved with each choice with the position of that choice as
`b` (`LevelOk`), which is why jumping over several levels may restore the states of the
lowest. *Conflict analysis*: the literals of the conflict lemma that are still assigned are
false and together an implied lemma (`Live`, in `ConflictOk`); `Resolvent` replaces the
literal of the atom popped by the rest of its lemma, which was false before the atom
(`Reason`), so this is kept. The popped literals that stay in the lemma for the sake of
lemmas derived before have no index any more, so `LiteralsLeft` drops them. The count
of `FlagsExact` is kept because the literals of a resolvent that are new are counted as they
are flagged. *Unit lemmas*: a derived lemma is unit as long as its second watch is assigned, and
all its other literals were assigned no later than that (`InfoOk`). *No inference is made
twice*: this is the hardest part. Two lemmas may have the same first watch, one from the list
of a level jumped over and one derived later. Of these two, either one has lost its second
watch, or every assigned literal of the conflict lemma is in one of the two (`PairOk`): the
reversal that ends the conflict is of such a literal, and with it the lemma that has it
stops being unit. *Completeness*:
every model found while a choice holds is in its branch (`LevelOk`), so a reversed choice leads
to none that was found; models that are left agree with all inferences as soon as they agree
with the choices (`ChoicesDecide`), so that without choices there is none left.

**Watched literals** (`WatchedLits_proofs`: `ListsStayIntact`, `WatchesStaySound`,
`NoInferenceMissed`). The lists are shown well linked operation by operation (leaving a
list as its first, middle or last member, entering it), for the two lists a step may
change. `CoverOk` is the heart: a cached lemma with a false watch that was dequeued has
a literal on the trail, of the same level or an older one, so that no backtrack removes
it first. In the middle of a list this does not hold yet; `VisitOk`
says that there is a set `D` of nodes, closed under going back along the list, of lemmas
passed already, and that these are covered.

**Lemma cache** (`LemmaCache_proofs`: `QueuesStayLinked`, `InOnePlace`,
`CacheStaysBounded`, `InUseStays`). `QueuesLinked` follows pointers, which no induction
over the steps can use. The invariant says instead that beside the pointers there is a
function `q` that gives the lemma at each position of each queue (`Chains`), and what
`LPQDequeue` and `LPQEnqueue` do to it is one lemma each. `CacheBounded` needs to know
where the loops are: each waiting call is about an earlier queue than the one it waits
for (`CallersOk`), so no queue is changed under two cursors; and the lemma the latest
loop looks at is at some position `k` such that room has been made already or all lemmas
behind `k` are referred to (`CursorOk`). A loop that
passes a lemma on may end early, its cursor reset, but that lemma has left its queue,
which is room enough for the one to be enqueued.

**Memory of the BDD package** (`BddTable_proofs`: `TableStaysIntact`, `StaysCanonical`,
`ResultsStayRight`, `FunctionsStay`). `TableIntact` and `Canonical` follow pointers and say
nothing of the middle of a collection. `IInv` says there what the code does not write
down: which nodes are on chains (`live`), which in the free list (`fr`), and a rank that
grows along each link, so that lists end (`Linkage`). Between collections (`AtRest`) the
two are just the nodes of the pools, and those in use are closed under their links, with
one node for each key and the negation of each among them (`Reduced`). During one
(`Collecting`) this holds of the flagged nodes, and chains and free list hold exactly the
nodes of the pools already swept. The model sweeps a pool by a fold over its nodes.
`FoldIs` and the lemmas before it give such a fold a value after each node, so that
`Linkage` is kept node by node; a pool that is freed leaves `chain_free` where it was, and
the list ends where it did before that pool. Flagging takes as many rounds as there are
addresses; that the set it ends with is closed is a counting argument. That two nodes for
one function are one node is an induction on the variables: nodes of one meaning test the
same variable, lead to nodes of the same meanings, and so have one key. `FunctionsKept`
holds of each step because the nodes below `functions[]` keep their fields
(`KeepsNodes`), and the meaning of a node depends on nothing else. TLC cannot evaluate
`IInv` itself, whose ranks are any natural numbers; it checks the invariants that follow.

Only model-checked:

* liveness (`Terminates`, `CallsEnd`), beyond the prover;
* `SpecialFns`: `Bdd` uses recursive operators, which it cannot handle;
* nothing connects `LemmaBrancher`, `WatchedLits` and `LemmaCache` formally: each leaves the
  others' part free within what the code of the others may do, and the theorems hold for
  all of that.

## Plan

1. *Done:* `StateHistory`, `FnStack` with proofs, `LifoStack`, `FnStackPool`, `BoolFn`,
   `ModelSearch`, `Brancher`, `LemmaCache`.
2. *Done:* `Bdd`, `SpecialFns`.
3. *Done:* `WatchedLits`. Left: the blocks lemmas are stored in (`lemmaspace.cc`).
4. *Done:* `LemmaBrancher`.
5. *Done:* `BddTable`. Left: `GetInferFoAN` and the recursions of `ite` against `BoolFn`, then
   preprocessing with equivalence classes.
6. Proofs. *Done:* `FnStack`, `FnStackPool`, `Brancher`, `WatchedLits`, `LemmaCache`,
   `LemmaBrancher`, `BddTable`.

## Not modelled

Heuristic scores (floating point; the choice is free), statistics and display, the
transition table of a Smurf and its sharing (a transition is computed when taken;
`CreateTransition` is deterministic), lemmas of special functions, the sliding of lemmas,
lemma blocks and lemma files, autarky (`autarky` is off and no autarky function
is made), `ITE_Split` (compiled out), parsing and output, the solvers other than the
SMURF brancher, `src/src/solver` (an old copy that is not built), and third-party code.

Four places look suspicious but cannot go wrong as the code is, and are not among the
hazards. The collection at `solver.cc:115` keeps nothing that only the states of functions
point to, but `ComputeSmurfOfNormalized` has computed all transitions by then. The loop of
`InferLiteral` would leave functions unmarked on an error of a small update
(`vars_inferlit.cc:135`), but all small updates return `NO_ERROR`. `GetChoicePointHint`
(`vars_hints.cc:64`) tests the hint in the place of its value, but only autarky functions add
hints. The early return for functions of the last priority needs an autarky function, too.
