------------------------------ MODULE FnStack -------------------------------
(***************************************************************************)
(* The function stack of the SMURF solver: how constraint states are saved *)
(* before the search changes them and restored when it backtracks          *)
(* (src/src/solv_smurf/fn_stack.cc).                                       *)
(*                                                                         *)
(* One stack serves all functions and all decision levels.  A function is  *)
(* pushed the first time an inferred literal touches it, a LEVEL_START     *)
(* mark separates the levels, and a version counter tells whether a        *)
(* function was already pushed since the newest mark.  The counter is not  *)
(* decremented when a level is popped: it is set to the version the mark   *)
(* recorded, which FnStackPushFunctionLevel had incremented before.        *)
(*                                                                         *)
(* The stack is a sequence here; FnStackPool models the chunks it lives in.*)
(***************************************************************************)
EXTENDS Integers, Sequences

CONSTANTS Fn,         \* function numbers, nFnId
          State,      \* what procSave2Stack saves of a function
          BlankState, \* what the saved field of a mark holds: no one reads it
          MaxVersion  \* bound on nCurFnVersion

ASSUME FnAssumption      == Fn \subseteq Nat
ASSUME StateAssumption   == BlankState \in State
ASSUME VersionAssumption == MaxVersion \in Nat

VARIABLES fnState,       \* arrSolverFunctions[f], the part that is saved
          arrChangedFn,  \* 0 untouched, 3 waits for its big update, 2 updated
          arrFnFlags,    \* the version at which f was last pushed
          nCurFnVersion,
          arrFnStack,    \* the stack, its top last
          popping        \* pop_state_information is running

vars == <<fnState, arrChangedFn, arrFnFlags, nCurFnVersion, arrFnStack, popping>>

LEVEL_START == -1

Mark(v) == [nFnId |-> LEVEL_START, prev_version |-> v, saved |-> BlankState]

Entry(f, v, s) == [nFnId |-> f, prev_version |-> v, saved |-> s]

StackEntry == [nFnId : Fn \cup {LEVEL_START}, prev_version : Nat, saved : State]

Push(e) == arrFnStack' = Append(arrFnStack, e)

Top == arrFnStack[Len(arrFnStack)]

RemoveTop == arrFnStack' = SubSeq(arrFnStack, 1, Len(arrFnStack) - 1)

(* Positions of the LEVEL_START marks. *)
Marks == {i \in 1..Len(arrFnStack) : arrFnStack[i].nFnId = LEVEL_START}

Init ==
  /\ fnState \in [Fn -> State]
  /\ arrChangedFn = [f \in Fn |-> 0]
  /\ arrFnFlags = [f \in Fn |-> 0]
  /\ nCurFnVersion = 1
  /\ arrFnStack = <<>>
  /\ popping = FALSE

(* FN_STACK_PUSH: save f unless it was saved at the current version. *)
FnStackPush(f) ==
  IF arrFnFlags[f] # nCurFnVersion
  THEN /\ Push(Entry(f, arrFnFlags[f], fnState[f]))
       /\ arrFnFlags' = [arrFnFlags EXCEPT ![f] = nCurFnVersion]
  ELSE UNCHANGED <<arrFnStack, arrFnFlags>>

(* InferLiteral touches an affected function f that is not yet marked for  *)
(* its big update; one that is untouched on this level is saved first.     *)
MarkAffected(f) ==
  /\ ~popping
  /\ arrChangedFn[f] # 3
  /\ IF arrChangedFn[f] = 0 THEN FnStackPush(f)
                            ELSE UNCHANGED <<arrFnStack, arrFnFlags>>
  /\ arrChangedFn' = [arrChangedFn EXCEPT ![f] = 3]
  /\ UNCHANGED <<fnState, nCurFnVersion, popping>>

(* The big update moves a marked function to a new state ... *)
ChangeState(f, s) ==
  /\ ~popping
  /\ arrChangedFn[f] = 3
  /\ fnState' = [fnState EXCEPT ![f] = s]
  /\ UNCHANGED <<arrChangedFn, arrFnFlags, nCurFnVersion, arrFnStack, popping>>

(* Mutant: the wrong bit of the mark is cleared. *)
EndUpdateWrongBit(f) ==
  /\ ~popping
  /\ arrChangedFn[f] = 3
  /\ arrChangedFn' = [arrChangedFn EXCEPT ![f] = 1]
  /\ UNCHANGED <<fnState, arrFnFlags, nCurFnVersion, arrFnStack, popping>>

(* ... and when it ends without a conflict takes the function off the list.*)
EndUpdate(f) ==
  /\ ~popping
  /\ arrChangedFn[f] = 3
  /\ arrChangedFn' = [arrChangedFn EXCEPT ![f] = 2]
  /\ UNCHANGED <<fnState, arrFnFlags, nCurFnVersion, arrFnStack, popping>>

(* Mutant: the marks of the level before are not cleared. *)
PushLevelKeepsMarks ==
  /\ ~popping
  /\ \A f \in Fn : arrChangedFn[f] # 3
  /\ nCurFnVersion < MaxVersion
  /\ nCurFnVersion' = nCurFnVersion + 1
  /\ Push(Mark(nCurFnVersion'))
  /\ UNCHANGED <<fnState, arrChangedFn, arrFnFlags, popping>>

(* SelectNewBranchPoint, once no function waits for an update: clear the   *)
(* marks (Functions_Update_Inf_End) and start a level.                     *)
FnStackPushFunctionLevel ==
  /\ ~popping
  /\ \A f \in Fn : arrChangedFn[f] # 3
  /\ nCurFnVersion < MaxVersion
  /\ arrChangedFn' = [f \in Fn |-> 0]
  /\ nCurFnVersion' = nCurFnVersion + 1
  /\ Push(Mark(nCurFnVersion'))
  /\ UNCHANGED <<fnState, arrFnFlags, popping>>

(* Backtracking calls pop_state_information(1) when a choice point is left.*)
StartPop ==
  /\ ~popping
  /\ Marks # {}
  /\ popping' = TRUE
  /\ UNCHANGED <<fnState, arrChangedFn, arrFnFlags, nCurFnVersion, arrFnStack>>

(* Mutant: a restored function keeps its mark. *)
PopFunctionKeepsMark ==
  LET f == Top.nFnId
  IN  /\ popping
      /\ f # LEVEL_START
      /\ fnState' = [fnState EXCEPT ![f] = Top.saved]
      /\ arrFnFlags' = [arrFnFlags EXCEPT ![f] = Top.prev_version]
      /\ RemoveTop
      /\ UNCHANGED <<arrChangedFn, nCurFnVersion, popping>>

(* Mutant: a restored function keeps the version of its last push. *)
PopFunctionKeepsFlag ==
  LET f == Top.nFnId
  IN  /\ popping
      /\ f # LEVEL_START
      /\ fnState' = [fnState EXCEPT ![f] = Top.saved]
      /\ arrChangedFn' = [arrChangedFn EXCEPT ![f] = 0]
      /\ RemoveTop
      /\ UNCHANGED <<arrFnFlags, nCurFnVersion, popping>>

(* One turn of the loop of pop_state_information: restore the top function.*)
PopFunction ==
  LET f == Top.nFnId
  IN  /\ popping
      /\ f # LEVEL_START
      /\ fnState' = [fnState EXCEPT ![f] = Top.saved]
      /\ arrChangedFn' = [arrChangedFn EXCEPT ![f] = 0]
      /\ arrFnFlags' = [arrFnFlags EXCEPT ![f] = Top.prev_version]
      /\ RemoveTop
      /\ UNCHANGED <<nCurFnVersion, popping>>

(* The loop ends at the mark; its version becomes the current one. *)
PopLevelStart ==
  /\ popping
  /\ Top.nFnId = LEVEL_START
  /\ nCurFnVersion' = Top.prev_version
  /\ RemoveTop
  /\ popping' = FALSE
  /\ UNCHANGED <<fnState, arrChangedFn, arrFnFlags>>

PopStep == PopFunction \/ PopLevelStart

Next ==
  \/ \E f \in Fn : \/ MarkAffected(f)
                   \/ \E s \in State : ChangeState(f, s)
                   \/ EndUpdate(f)
  \/ FnStackPushFunctionLevel
  \/ StartPop
  \/ PopStep

Spec == Init /\ [][Next]_vars

-----------------------------------------------------------------------------
(* What the stack remembers.  The state (and the push version) f had when  *)
(* the mark at position k was pushed is in the lowest entry for f above k, *)
(* or is still current if there is none.                                   *)

SavedAbove(k, f) == {i \in k+1..Len(arrFnStack) : arrFnStack[i].nFnId = f}

IsFirstSave(i, k, f) ==
  /\ i \in SavedAbove(k, f)
  /\ \A j \in SavedAbove(k, f) : i <= j

FirstSave(k, f) == CHOOSE i \in SavedAbove(k, f) : IsFirstSave(i, k, f)

StateAt(k, f) == IF SavedAbove(k, f) = {} THEN fnState[f]
                 ELSE arrFnStack[FirstSave(k, f)].saved

FlagAt(k, f) == IF SavedAbove(k, f) = {} THEN arrFnFlags[f]
                ELSE arrFnStack[FirstSave(k, f)].prev_version

(* The level being popped is already closed. *)
IsTopMark(k) == k \in Marks /\ \A j \in Marks : j <= k

TopMark == CHOOSE k \in Marks : IsTopMark(k)

OpenLevels == IF popping THEN Marks \ {TopMark} ELSE Marks

SpecCurrent == [f \in Fn |-> IF popping THEN StateAt(TopMark, f) ELSE fnState[f]]

SpecSnapshot == [k \in OpenLevels |-> [f \in Fn |-> StateAt(k, f)]]

H == INSTANCE StateHistory WITH current <- SpecCurrent, snapshot <- SpecSnapshot

-----------------------------------------------------------------------------
TypeOK ==
  /\ fnState \in [Fn -> State]
  /\ arrChangedFn \in [Fn -> {0, 2, 3}]
  /\ arrFnFlags \in [Fn -> Nat]
  /\ nCurFnVersion \in Nat
  /\ arrFnStack \in Seq(StackEntry)
  /\ popping \in BOOLEAN

(* A function the search may be changing was saved on the newest level, so *)
(* that a later pop finds it: FN_STACK_PUSH decides by comparing versions, *)
(* and versions are reused after a pop (fn_stack.cc:172).                  *)
ChangedIsSaved ==
  ~popping => \A f \in Fn, k \in Marks :
                 arrChangedFn[f] # 0 => SavedAbove(k, f) # {}

(* A popped level leaves no mark of its updates behind: every function     *)
(* still marked when the pop ends was marked before the level began, which *)
(* FnStackPushFunctionLevel excludes; so all marks are 0 after a pop.      *)
PopClearsMarks ==
  [][popping /\ ~popping' => \A f \in Fn : arrChangedFn'[f] = 0]_vars

(* The function stack implements StateHistory: popping restores exactly    *)
(* the states of the moment the level was opened, for every function.      *)
ImplementsHistory == H!Spec
=============================================================================
