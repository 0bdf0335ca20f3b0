--------------------------- MODULE FnStack_proofs ---------------------------
(***************************************************************************)
(* Theorems about the function stack, for any functions, any states and    *)
(* any bound on the version.                                               *)
(***************************************************************************)
EXTENDS FnStack, SequenceTheorems, WellFoundedInduction, TLAPS

(* A pop that has begun has a mark to stop at. *)
PopHasMark == popping => Marks # {}

(* Wherever f is saved above a mark there is a lowest such entry. *)
FirstSaveExists ==
  \A k \in Marks, f \in Fn :
    SavedAbove(k, f) # {} => \E i \in SavedAbove(k, f) : IsFirstSave(i, k, f)

(* ChangedIsSaved, which also holds while a level is being popped. *)
SavedIfChanged ==
  \A k \in Marks, f \in Fn : arrChangedFn[f] # 0 => SavedAbove(k, f) # {}

(* The test of FN_STACK_PUSH is right: a function whose flag is the current *)
(* version is saved on the newest level.                                    *)
SavedIfCurrent ==
  ~popping => \A k \in Marks, f \in Fn :
                arrFnFlags[f] = nCurFnVersion => SavedAbove(k, f) # {}

(* No flag is newer than the current version. *)
FlagsNotNewer ==
  ~popping => \A f \in Fn : arrFnFlags[f] <= nCurFnVersion

(* When a mark was pushed its version was newer than every flag: this is    *)
(* what makes it safe to return to that version after the pop.              *)
MarkIsNewer ==
  \A k \in Marks, f \in Fn :
    /\ SavedAbove(k, f) = {} => arrFnFlags[f] < arrFnStack[k].prev_version
    /\ \A i \in SavedAbove(k, f) :
         IsFirstSave(i, k, f) =>
           arrFnStack[i].prev_version < arrFnStack[k].prev_version

IInv == /\ TypeOK
        /\ PopHasMark
        /\ FirstSaveExists
        /\ SavedIfChanged
        /\ SavedIfCurrent
        /\ FlagsNotNewer
        /\ MarkIsNewer

-----------------------------------------------------------------------------
(* Appending an entry adds one position, and leaves the others as they are.*)
LEMMA PushStack ==
  ASSUME arrFnStack \in Seq(StackEntry), NEW e \in StackEntry, Push(e)
  PROVE  /\ Len(arrFnStack') = Len(arrFnStack) + 1
         /\ \A i \in 1..Len(arrFnStack) : arrFnStack'[i] = arrFnStack[i]
         /\ arrFnStack'[Len(arrFnStack) + 1] = e
         /\ arrFnStack' \in Seq(StackEntry)
BY DEF Push

(* Removing the top entry removes one position. *)
LEMMA PopStack ==
  ASSUME arrFnStack \in Seq(StackEntry), Len(arrFnStack) > 0, RemoveTop
  PROVE  /\ Len(arrFnStack') = Len(arrFnStack) - 1
         /\ \A i \in 1..Len(arrFnStack) - 1 : arrFnStack'[i] = arrFnStack[i]
         /\ arrFnStack' \in Seq(StackEntry)
<1>1. Len(arrFnStack) \in Nat /\ Len(arrFnStack) - 1 \in Nat
  OBVIOUS
<1>2. \A i \in 1..Len(arrFnStack) - 1 : arrFnStack[i] \in StackEntry
  BY <1>1
<1> DEFINE n == Len(arrFnStack) - 1
<1>3. /\ SubSeq(arrFnStack, 1, n) \in Seq(StackEntry)
      /\ Len(SubSeq(arrFnStack, 1, n)) = IF 1 <= n THEN n - 1 + 1 ELSE 0
      /\ \A i \in 1..n - 1 + 1 : SubSeq(arrFnStack, 1, n)[i] = arrFnStack[1 + i - 1]
  <2> HIDE DEF n
  <2>1. n \in Int /\ \A i \in 1..n : arrFnStack[i] \in StackEntry
    BY <1>1, <1>2 DEF n
  <2> QED
    BY <2>1, SubSeqProperties
<1>4. arrFnStack' = SubSeq(arrFnStack, 1, n)
  BY DEF RemoveTop
<1>5. /\ arrFnStack' \in Seq(StackEntry)
      /\ Len(arrFnStack') = IF 1 <= n THEN n - 1 + 1 ELSE 0
      /\ \A i \in 1..n - 1 + 1 : arrFnStack'[i] = arrFnStack[1 + i - 1]
  BY ONLY <1>3, <1>4, Zenon
<1>6. n \in Nat /\ n = Len(arrFnStack) - 1
  BY <1>1
<1> HIDE DEF n
<1>7. Len(arrFnStack') = n
  BY <1>5, <1>6
<1>8. \A i \in 1..n : arrFnStack'[i] = arrFnStack[i]
  <2> SUFFICES ASSUME NEW i \in 1..n PROVE arrFnStack'[i] = arrFnStack[i]
    OBVIOUS
  <2>1. i \in 1..n - 1 + 1 /\ 1 + i - 1 = i
    BY <1>6
  <2> QED
    BY <1>5, <2>1
<1> QED
  BY <1>5, <1>6, <1>7, <1>8

(* Pushing the entry of a function does not change the marks, and it adds  *)
(* its position to what is saved of that function above each mark.         *)
LEMMA PushFunctionSaved ==
  ASSUME TypeOK, NEW f \in Fn, NEW v \in Nat, NEW s \in State,
         Push(Entry(f, v, s))
  PROVE  /\ Marks' = Marks
         /\ \A k \in Marks, g \in Fn :
              SavedAbove(k, g)' = IF g = f
                                  THEN SavedAbove(k, g) \cup {Len(arrFnStack) + 1}
                                  ELSE SavedAbove(k, g)
<1>1. Entry(f, v, s) \in StackEntry
  BY DEF Entry, StackEntry
<1>2. f # LEVEL_START
  BY FnAssumption DEF LEVEL_START
<1>3. Entry(f, v, s).nFnId = f
  BY DEF Entry
<1>4. /\ Len(arrFnStack') = Len(arrFnStack) + 1
      /\ \A i \in 1..Len(arrFnStack) : arrFnStack'[i] = arrFnStack[i]
      /\ arrFnStack'[Len(arrFnStack) + 1].nFnId = f
  BY <1>1, <1>3, PushStack DEF TypeOK
<1>5. Len(arrFnStack) \in Nat
  BY DEF TypeOK
<1>6. Marks' = Marks
  BY <1>2, <1>4, <1>5 DEF Marks
<1>7. ASSUME NEW k \in Marks, NEW g \in Fn
      PROVE  SavedAbove(k, g)' = IF g = f
                                 THEN SavedAbove(k, g) \cup {Len(arrFnStack) + 1}
                                 ELSE SavedAbove(k, g)
  BY <1>4, <1>5 DEF Marks, SavedAbove
<1> QED
  BY <1>6, <1>7

(* Pushing a mark adds it to the marks, with nothing saved above it. *)
LEMMA PushMarkSaved ==
  ASSUME TypeOK, NEW v \in Nat, Push(Mark(v)),
         NEW n \in Nat, n = Len(arrFnStack) + 1
  PROVE  /\ Marks' = Marks \cup {n}
         /\ \A k \in Marks, g \in Fn : SavedAbove(k, g)' = SavedAbove(k, g)
         /\ \A g \in Fn : SavedAbove(n, g)' = {}
         /\ \A i \in 1..Len(arrFnStack) : arrFnStack'[i] = arrFnStack[i]
         /\ arrFnStack'[n].prev_version = v
         /\ arrFnStack' \in Seq(StackEntry)
<1>1. Mark(v) \in StackEntry
  BY StateAssumption DEF Mark, StackEntry
<1>2. Mark(v).nFnId = LEVEL_START /\ Mark(v).prev_version = v
  BY DEF Mark
<1>3. /\ Len(arrFnStack') = Len(arrFnStack) + 1
      /\ \A i \in 1..Len(arrFnStack) : arrFnStack'[i] = arrFnStack[i]
      /\ arrFnStack'[n] = Mark(v)
      /\ arrFnStack' \in Seq(StackEntry)
  BY <1>1, PushStack DEF TypeOK
<1>4. Len(arrFnStack) \in Nat
  BY DEF TypeOK
<1>5. Marks' = Marks \cup {n}
  BY <1>2, <1>3, <1>4 DEF Marks
<1>6. ASSUME NEW g \in Fn PROVE g # LEVEL_START
  BY FnAssumption DEF LEVEL_START
<1>7. ASSUME NEW k \in Marks, NEW g \in Fn
      PROVE  SavedAbove(k, g)' = SavedAbove(k, g)
  <2>1. k \in 1..Len(arrFnStack)
    BY DEF Marks
  <2> QED
    BY <1>2, <1>3, <1>4, <1>6, <2>1 DEF SavedAbove
<1>8. ASSUME NEW g \in Fn
      PROVE  SavedAbove(n, g)' = {}
  BY <1>3, <1>4 DEF SavedAbove
<1> QED
  BY <1>2, <1>3, <1>5, <1>7, <1>8

(* Removing the top entry removes its position from the marks and from what*)
(* is saved above each mark that remains.                                  *)
LEMMA PopSaved ==
  ASSUME TypeOK, Len(arrFnStack) > 0, RemoveTop
  PROVE  /\ Marks' = Marks \ {Len(arrFnStack)}
         /\ \A k \in Marks', g \in Fn :
              SavedAbove(k, g)' = SavedAbove(k, g) \ {Len(arrFnStack)}
<1>1. /\ Len(arrFnStack') = Len(arrFnStack) - 1
      /\ \A i \in 1..Len(arrFnStack) - 1 : arrFnStack'[i] = arrFnStack[i]
      /\ Len(arrFnStack) \in Nat
  BY PopStack DEF TypeOK
<1>2. Marks' = Marks \ {Len(arrFnStack)}
  BY <1>1 DEF Marks
<1>3. ASSUME NEW k \in Marks', NEW g \in Fn
      PROVE  SavedAbove(k, g)' = SavedAbove(k, g) \ {Len(arrFnStack)}
  <2>1. k \in 1..Len(arrFnStack) - 1
    BY <1>1 DEF Marks
  <2> QED
    BY <1>1, <2>1 DEF SavedAbove
<1> QED
  BY <1>2, <1>3

(* A pop that is under way finds an entry on the stack. *)
LEMMA PopHasTop ==
  ASSUME TypeOK, PopHasMark, popping
  PROVE  /\ Len(arrFnStack) \in Nat \ {0}
         /\ Top = arrFnStack[Len(arrFnStack)]
         /\ Top \in StackEntry
BY DEF TypeOK, PopHasMark, Marks, Top

(* A pop removes at most what is on top, so a mark that remains keeps its  *)
(* entry. *)
LEMMA PopKeeps ==
  ASSUME TypeOK, Len(arrFnStack) > 0, RemoveTop
  PROVE  /\ \A k \in Marks' : k \in 1..Len(arrFnStack) - 1
         /\ \A k \in Marks', g \in Fn : \A i \in SavedAbove(k, g)' :
              i \in 1..Len(arrFnStack) - 1
         /\ \A i \in 1..Len(arrFnStack) - 1 : arrFnStack'[i] = arrFnStack[i]
<1>1. /\ Len(arrFnStack') = Len(arrFnStack) - 1
      /\ \A i \in 1..Len(arrFnStack) - 1 : arrFnStack'[i] = arrFnStack[i]
      /\ Len(arrFnStack) \in Nat
  BY PopStack DEF TypeOK
<1> QED
  BY <1>1 DEF Marks, SavedAbove

-----------------------------------------------------------------------------
(* The invariant holds initially: the stack is empty. *)
LEMMA InitInv == Init => IInv
<1> SUFFICES ASSUME Init PROVE IInv
  OBVIOUS
<1>1. TypeOK
  <2>1. fnState \in [Fn -> State]
    BY DEF Init
  <2>2. arrFnStack \in Seq(StackEntry)
    BY DEF Init
  <2> QED
    BY <2>1, <2>2 DEF Init, TypeOK
<1>2. Marks = {}
  BY DEF Init, Marks
<1> QED
  BY <1>1, <1>2 DEF Init, IInv, PopHasMark, FirstSaveExists, SavedIfChanged,
                    SavedIfCurrent, FlagsNotNewer, MarkIsNewer

(* FN_STACK_PUSH keeps what earlier levels saved. *)
LEMMA PushInv ==
  ASSUME IInv, ~popping, NEW f \in Fn, arrChangedFn[f] = 0,
         arrFnFlags[f] # nCurFnVersion, FnStackPush(f),
         arrChangedFn' = [arrChangedFn EXCEPT ![f] = 3],
         UNCHANGED <<fnState, nCurFnVersion, popping>>
  PROVE  IInv'
<1> DEFINE e == Entry(f, arrFnFlags[f], fnState[f])
           n == Len(arrFnStack) + 1
<1>1. /\ Push(e)
      /\ arrFnFlags' = [arrFnFlags EXCEPT ![f] = nCurFnVersion]
      /\ TypeOK
      /\ UNCHANGED <<fnState, nCurFnVersion, popping>>
  BY DEF FnStackPush, IInv
<1>2. /\ arrFnFlags[f] \in Nat /\ fnState[f] \in State
      /\ e \in StackEntry
      /\ e.prev_version = arrFnFlags[f]
      /\ n - 1 \in Nat
  BY <1>1 DEF TypeOK, Entry, StackEntry
<1>3. /\ Marks' = Marks
      /\ \A k \in Marks, g \in Fn :
           SavedAbove(k, g)' = IF g = f THEN SavedAbove(k, g) \cup {n}
                                        ELSE SavedAbove(k, g)
  BY <1>1, <1>2, PushFunctionSaved
<1>4. /\ arrFnStack' \in Seq(StackEntry)
      /\ \A i \in 1..n-1 : arrFnStack'[i] = arrFnStack[i]
      /\ arrFnStack'[n] = e
  BY <1>1, <1>2, PushStack DEF TypeOK
<1>5. \A k \in Marks : k \in 1..n-1
  BY DEF Marks
<1>6. \A k \in Marks, g \in Fn : \A i \in SavedAbove(k, g) : i \in 1..n-1 /\ i < n
  BY <1>2, <1>5 DEF SavedAbove
<1>7. TypeOK'
  BY <1>1, <1>4 DEF TypeOK
<1>8. PopHasMark'
  BY <1>1, <1>3 DEF IInv, PopHasMark
<1>9. FirstSaveExists'
  <2> SUFFICES ASSUME NEW k \in Marks, NEW g \in Fn, SavedAbove(k, g)' # {}
               PROVE  \E i \in SavedAbove(k, g)' :
                         \A j \in SavedAbove(k, g)' : i <= j
    BY <1>3 DEF FirstSaveExists, IsFirstSave
  <2>1. CASE SavedAbove(k, g) = {}
    BY <1>2, <1>3, <2>1
  <2>2. CASE SavedAbove(k, g) # {}
    <3>1. PICK i \in SavedAbove(k, g) : \A j \in SavedAbove(k, g) : i <= j
      BY <2>2 DEF IInv, FirstSaveExists, IsFirstSave
    <3>2. i <= n /\ i \in SavedAbove(k, g)'
      BY <1>2, <1>3, <1>6, <3>1
    <3> QED
      BY <1>3, <3>1, <3>2
  <2> QED
    BY <2>1, <2>2
<1>10. SavedIfChanged'
  BY <1>1, <1>3 DEF IInv, TypeOK, SavedIfChanged
<1>11. SavedIfCurrent'
  BY <1>1, <1>3 DEF IInv, TypeOK, SavedIfCurrent
<1>12. FlagsNotNewer'
  BY <1>1 DEF IInv, TypeOK, FlagsNotNewer
<1>13. MarkIsNewer'
  <2> SUFFICES ASSUME NEW k \in Marks, NEW g \in Fn
               PROVE  /\ SavedAbove(k, g)' = {} =>
                            arrFnFlags'[g] < arrFnStack'[k].prev_version
                      /\ \A i \in SavedAbove(k, g)' :
                           (\A j \in SavedAbove(k, g)' : i <= j) =>
                             arrFnStack'[i].prev_version
                               < arrFnStack'[k].prev_version
    BY <1>3 DEF MarkIsNewer, IsFirstSave
  <2>0. arrFnStack'[k] = arrFnStack[k]
    BY <1>4, <1>5
  <2>1. CASE SavedAbove(k, g)' = {}
    BY <1>1, <1>3, <2>0, <2>1 DEF IInv, TypeOK, MarkIsNewer
  <2>2. ASSUME NEW i \in SavedAbove(k, g)',
               \A j \in SavedAbove(k, g)' : i <= j
        PROVE  arrFnStack'[i].prev_version < arrFnStack'[k].prev_version
    <3>1. CASE i \in SavedAbove(k, g)
      BY <1>3, <1>4, <1>6, <2>0, <2>2, <3>1 DEF IInv, MarkIsNewer, IsFirstSave
    <3>2. CASE i \notin SavedAbove(k, g)
      <4>1. i = n /\ g = f
        BY <1>3, <2>2, <3>2
      <4>2. SavedAbove(k, g) = {}
        BY <1>2, <1>3, <1>6, <2>2, <4>1
      <4> QED
        BY <1>2, <1>4, <2>0, <4>1, <4>2 DEF IInv, MarkIsNewer
    <3> QED
      BY <3>1, <3>2
  <2> QED
    BY <2>1, <2>2
<1> QED
  BY <1>7, <1>8, <1>9, <1>10, <1>11, <1>12, <1>13 DEF IInv

(* A step that leaves the stack, the flags and the version alone. *)
LEMMA SameStackInv ==
  ASSUME IInv, UNCHANGED <<arrFnFlags, nCurFnVersion, arrFnStack>>, TypeOK',
         PopHasMark', ~popping' => ~popping,
         \A f \in Fn : arrChangedFn'[f] # 0 => arrChangedFn[f] # 0
  PROVE  IInv'
<1>1. Marks' = Marks
  BY DEF Marks
<1>2. \A k, g : SavedAbove(k, g)' = SavedAbove(k, g)
  BY DEF SavedAbove
<1>3. FirstSaveExists'
  BY <1>1, <1>2 DEF IInv, FirstSaveExists, IsFirstSave
<1>4. SavedIfChanged'
  BY <1>1, <1>2 DEF IInv, SavedIfChanged
<1>5. SavedIfCurrent' /\ FlagsNotNewer'
  BY <1>1, <1>2 DEF IInv, SavedIfCurrent, FlagsNotNewer
<1>6. MarkIsNewer'
  BY <1>1, <1>2 DEF IInv, MarkIsNewer, IsFirstSave
<1> QED
  BY <1>3, <1>4, <1>5, <1>6 DEF IInv

(* InferLiteral touches a function that is not marked yet. *)
LEMMA MarkAffectedInv ==
  ASSUME IInv, NEW f \in Fn, MarkAffected(f)
  PROVE  IInv'
<1>1. CASE arrChangedFn[f] = 0 /\ arrFnFlags[f] # nCurFnVersion
  BY <1>1, PushInv DEF MarkAffected
<1>2. CASE ~(arrChangedFn[f] = 0 /\ arrFnFlags[f] # nCurFnVersion)
  <2>1. /\ UNCHANGED <<arrFnFlags, arrFnStack, fnState, nCurFnVersion, popping>>
        /\ arrChangedFn' = [arrChangedFn EXCEPT ![f] = 3]
        /\ ~popping
    BY <1>2 DEF MarkAffected, FnStackPush
  <2>2. Marks' = Marks
    BY <2>1 DEF Marks
  <2>3. \A k, g : SavedAbove(k, g)' = SavedAbove(k, g)
    BY <2>1 DEF SavedAbove
  <2>4. TypeOK' /\ PopHasMark'
    BY <2>1, <2>2 DEF IInv, TypeOK, PopHasMark
  <2>5. FirstSaveExists'
    BY <2>2, <2>3 DEF IInv, FirstSaveExists, IsFirstSave
  <2>6. SavedIfChanged'
    BY <1>2, <2>1, <2>2, <2>3
    DEF IInv, TypeOK, SavedIfChanged, SavedIfCurrent
  <2>7. SavedIfCurrent' /\ FlagsNotNewer'
    BY <2>1, <2>2, <2>3 DEF IInv, SavedIfCurrent, FlagsNotNewer
  <2>8. MarkIsNewer'
    BY <2>1, <2>2, <2>3 DEF IInv, MarkIsNewer, IsFirstSave
  <2> QED
    BY <2>4, <2>5, <2>6, <2>7, <2>8 DEF IInv
<1> QED
  BY <1>1, <1>2

(* A new level begins with a version newer than every flag. *)
LEMMA PushLevelInv ==
  ASSUME IInv, FnStackPushFunctionLevel
  PROVE  IInv'
<1>0. PICK n \in Nat : n = Len(arrFnStack) + 1
  BY DEF IInv, TypeOK
<1>v. PICK v \in Nat : v = nCurFnVersion + 1
  BY DEF IInv, TypeOK
<1>1. /\ Push(Mark(v)) /\ nCurFnVersion' = v /\ v \in Nat /\ TypeOK
      /\ arrChangedFn' = [f \in Fn |-> 0]
      /\ UNCHANGED <<fnState, arrFnFlags, popping>> /\ ~popping
      /\ n - 1 \in Nat
  BY <1>0, <1>v DEF FnStackPushFunctionLevel, IInv, TypeOK
<1>2. /\ Marks' = Marks \cup {n}
      /\ \A k \in Marks, g \in Fn : SavedAbove(k, g)' = SavedAbove(k, g)
      /\ \A g \in Fn : SavedAbove(n, g)' = {}
      /\ \A i \in 1..n-1 : arrFnStack'[i] = arrFnStack[i]
      /\ arrFnStack'[n].prev_version = v
      /\ arrFnStack' \in Seq(StackEntry)
  BY <1>0, <1>1, PushMarkSaved
<1>3. \A k \in Marks : k \in 1..n-1
  BY <1>0, <1>1 DEF Marks
<1>4. \A k \in Marks, g \in Fn : \A i \in SavedAbove(k, g) : i \in 1..n-1
  BY <1>0, <1>1, <1>3 DEF SavedAbove
<1>5. TypeOK'
  BY <1>1, <1>2 DEF TypeOK
<1>6. PopHasMark'
  BY <1>1 DEF PopHasMark
<1>7. FirstSaveExists'
  <2> SUFFICES ASSUME NEW k \in Marks', NEW g \in Fn, SavedAbove(k, g)' # {}
               PROVE  \E i \in SavedAbove(k, g)' :
                         \A j \in SavedAbove(k, g)' : i <= j
    BY DEF FirstSaveExists, IsFirstSave
  <2> QED
    BY <1>2 DEF IInv, FirstSaveExists, IsFirstSave
<1>8. SavedIfChanged'
  BY <1>1 DEF SavedIfChanged
<1>9. \A g \in Fn : arrFnFlags'[g] < v
  BY <1>1, <1>v DEF IInv, TypeOK, FlagsNotNewer
<1>10. SavedIfCurrent' /\ FlagsNotNewer'
  <2>1. \A g \in Fn : arrFnFlags'[g] \in Nat
    BY <1>5 DEF TypeOK
  <2> QED
    BY <1>1, <1>9, <2>1 DEF SavedIfCurrent, FlagsNotNewer
<1>11. MarkIsNewer'
  <2> SUFFICES ASSUME NEW k \in Marks', NEW g \in Fn
               PROVE  /\ SavedAbove(k, g)' = {} =>
                            arrFnFlags'[g] < arrFnStack'[k].prev_version
                      /\ \A i \in SavedAbove(k, g)' :
                           (\A j \in SavedAbove(k, g)' : i <= j) =>
                             arrFnStack'[i].prev_version
                               < arrFnStack'[k].prev_version
    BY DEF MarkIsNewer, IsFirstSave
  <2>1. CASE k = n
    BY <1>2, <1>9, <2>1 DEF IsFirstSave
  <2>2. CASE k \in Marks
    BY <1>1, <1>2, <1>3, <1>4, <2>2 DEF IInv, MarkIsNewer, IsFirstSave
  <2> QED
    BY <1>2, <2>1, <2>2
<1> QED
  BY <1>5, <1>6, <1>7, <1>8, <1>10, <1>11 DEF IInv

(* Restoring a function takes away its newest save, and its marks. *)
LEMMA PopFunctionInv ==
  ASSUME IInv, PopFunction
  PROVE  IInv'
<1>0. PICK n \in Nat \ {0} : n = Len(arrFnStack)
  BY PopHasTop DEF IInv, PopFunction
<1>f. PICK f \in Fn : f = Top.nFnId
  BY PopHasTop DEF IInv, PopFunction, StackEntry
<1>1. /\ TypeOK /\ n \in Nat \ {0} /\ Top = arrFnStack[n] /\ Top \in StackEntry
      /\ popping /\ popping' /\ RemoveTop /\ f # LEVEL_START /\ n > 0
  BY <1>0, <1>f, PopHasTop DEF IInv, PopFunction
<1>2. f \in Fn /\ Top.saved \in State /\ Top.prev_version \in Nat
  BY <1>1 DEF StackEntry
<1>3. /\ fnState' = [fnState EXCEPT ![f] = Top.saved]
      /\ arrChangedFn' = [arrChangedFn EXCEPT ![f] = 0]
      /\ arrFnFlags' = [arrFnFlags EXCEPT ![f] = Top.prev_version]
      /\ nCurFnVersion' = nCurFnVersion
  BY <1>f DEF PopFunction
<1>4. /\ Marks' = Marks \ {n}
      /\ \A k \in Marks', g \in Fn : SavedAbove(k, g)' = SavedAbove(k, g) \ {n}
  BY <1>0, <1>1, PopSaved
<1>5. /\ \A k \in Marks' : k \in 1..n-1
      /\ \A k \in Marks', g \in Fn : \A i \in SavedAbove(k, g)' : i \in 1..n-1
      /\ \A i \in 1..n-1 : arrFnStack'[i] = arrFnStack[i]
  BY <1>0, <1>1, PopKeeps
<1>6. arrFnStack' \in Seq(StackEntry)
  BY <1>0, <1>1, PopStack DEF TypeOK
<1>7. Marks' = Marks
  BY <1>0, <1>1, <1>4, <1>f DEF Marks
<1>8. ASSUME NEW k \in Marks, NEW g \in Fn
      PROVE  IF g = f THEN n \in SavedAbove(k, g)
                      ELSE n \notin SavedAbove(k, g) /\ SavedAbove(k, g)' = SavedAbove(k, g)
  <2>1. k \in 1..n-1 /\ k \in Marks'
    BY <1>5, <1>7
  <2>2. n \in k+1..n
    BY <1>1, <2>1
  <2>3. n \in SavedAbove(k, g) <=> g = f
    BY <1>0, <1>1, <1>f, <2>2 DEF SavedAbove
  <2> QED
    BY <1>4, <2>1, <2>3
<1>9. TypeOK'
  BY <1>1, <1>2, <1>3, <1>6 DEF TypeOK
<1>10. PopHasMark'
  BY <1>1, <1>7 DEF IInv, PopHasMark
<1>11. ASSUME NEW k \in Marks, NEW i \in SavedAbove(k, f)'
       PROVE  \E j \in SavedAbove(k, f)' : IsFirstSave(j, k, f)
  <2>1. PICK j \in SavedAbove(k, f) : IsFirstSave(j, k, f)
    BY <1>2, <1>8 DEF IInv, FirstSaveExists
  <2>2. i \in SavedAbove(k, f) /\ i \in 1..n-1
    BY <1>2, <1>4, <1>5, <1>7
  <2>3. j <= i /\ j \in 1..n
    BY <1>0, <2>1, <2>2, <1>1, <1>5, <1>7 DEF IsFirstSave, SavedAbove, Marks
  <2>4. j # n
    BY <1>1, <2>2, <2>3
  <2> QED
    BY <1>2, <1>4, <1>7, <2>1, <2>4 DEF IsFirstSave
<1>12. FirstSaveExists'
  <2> SUFFICES ASSUME NEW k \in Marks, NEW g \in Fn, SavedAbove(k, g)' # {}
               PROVE  \E i \in SavedAbove(k, g)' :
                         \A j \in SavedAbove(k, g)' : i <= j
    BY <1>7 DEF FirstSaveExists, IsFirstSave
  <2>1. CASE g = f
    BY <1>2, <1>4, <1>7, <1>11, <2>1 DEF IsFirstSave
  <2>2. CASE g # f
    BY <1>8, <2>2 DEF IInv, FirstSaveExists, IsFirstSave
  <2> QED
    BY <2>1, <2>2
<1>13. SavedIfChanged'
  <2> SUFFICES ASSUME NEW k \in Marks, NEW g \in Fn, arrChangedFn'[g] # 0
               PROVE  SavedAbove(k, g)' # {}
    BY <1>7 DEF SavedIfChanged
  <2>1. g # f /\ arrChangedFn[g] # 0
    BY <1>1, <1>2, <1>3 DEF TypeOK
  <2> QED
    BY <1>8, <2>1 DEF IInv, SavedIfChanged
<1>14. SavedIfCurrent' /\ FlagsNotNewer'
  BY <1>1 DEF SavedIfCurrent, FlagsNotNewer
<1>15. MarkIsNewer'
  <2> SUFFICES ASSUME NEW k \in Marks, NEW g \in Fn
               PROVE  /\ SavedAbove(k, g)' = {} =>
                            arrFnFlags'[g] < arrFnStack'[k].prev_version
                      /\ \A i \in SavedAbove(k, g)' :
                           (\A j \in SavedAbove(k, g)' : i <= j) =>
                             arrFnStack'[i].prev_version
                               < arrFnStack'[k].prev_version
    BY <1>7 DEF MarkIsNewer, IsFirstSave
  <2>1. arrFnStack'[k] = arrFnStack[k]
    BY <1>5, <1>7
  <2>2. CASE g # f
    <3>1. SavedAbove(k, g)' = SavedAbove(k, g) /\ arrFnFlags'[g] = arrFnFlags[g]
      BY <1>1, <1>2, <1>3, <1>8, <2>2 DEF TypeOK
    <3>2. \A i \in SavedAbove(k, g) : arrFnStack'[i] = arrFnStack[i]
      BY <1>5, <1>7, <3>1
    <3> QED
      BY <2>1, <3>1, <3>2 DEF IInv, MarkIsNewer, IsFirstSave
  <2>3. CASE g = f /\ SavedAbove(k, g)' = {}
    <3>1. SavedAbove(k, g) = {n}
      BY <1>4, <1>7, <1>8, <2>3
    <3>2. IsFirstSave(n, k, g)
      BY <1>1, <3>1 DEF IsFirstSave
    <3>3. Top.prev_version < arrFnStack[k].prev_version
      BY <1>1, <3>1, <3>2 DEF IInv, MarkIsNewer
    <3> QED
      BY <1>1, <1>2, <1>3, <2>1, <2>3, <3>3 DEF TypeOK
  <2>4. ASSUME g = f, NEW i \in SavedAbove(k, g)',
               \A j \in SavedAbove(k, g)' : i <= j
        PROVE  arrFnStack'[i].prev_version < arrFnStack'[k].prev_version
    <3>1. i \in SavedAbove(k, g) /\ i \in 1..n-1
      BY <1>4, <1>5, <1>7
    <3>2. \A j \in SavedAbove(k, g) : i <= j
      BY <1>1, <1>4, <1>7, <2>4, <3>1
    <3> QED
      BY <1>5, <2>1, <3>1, <3>2 DEF IInv, MarkIsNewer, IsFirstSave
  <2> QED
    BY <2>2, <2>3, <2>4
<1> QED
  BY <1>9, <1>10, <1>12, <1>13, <1>14, <1>15 DEF IInv

(* When the loop reaches the mark nothing is saved above it: no function is *)
(* marked as changed, and every flag is older than the mark's version.      *)
LEMMA PopLevelStartInv ==
  ASSUME IInv, PopLevelStart
  PROVE  /\ IInv'
         /\ \A g \in Fn : arrChangedFn'[g] = 0
<1>0. PICK n \in Nat \ {0} : n = Len(arrFnStack)
  BY PopHasTop DEF IInv, PopLevelStart
<1>1. /\ TypeOK /\ n \in Nat \ {0} /\ Top = arrFnStack[n] /\ Top \in StackEntry
      /\ popping /\ popping' = FALSE /\ RemoveTop /\ Top.nFnId = LEVEL_START
      /\ n > 0
      /\ nCurFnVersion' = Top.prev_version /\ Top.prev_version \in Nat
      /\ UNCHANGED <<fnState, arrChangedFn, arrFnFlags>>
  BY <1>0, PopHasTop DEF IInv, PopLevelStart, StackEntry
<1>2. /\ Marks' = Marks \ {n}
      /\ \A k \in Marks', g \in Fn : SavedAbove(k, g)' = SavedAbove(k, g) \ {n}
  BY <1>0, <1>1, PopSaved
<1>3. /\ \A k \in Marks' : k \in 1..n-1
      /\ \A k \in Marks', g \in Fn : \A i \in SavedAbove(k, g)' : i \in 1..n-1
      /\ \A i \in 1..n-1 : arrFnStack'[i] = arrFnStack[i]
  BY <1>0, <1>1, PopKeeps
<1>4. arrFnStack' \in Seq(StackEntry)
  BY <1>0, <1>1, PopStack DEF TypeOK
<1>5. n \in Marks /\ \A g \in Fn : SavedAbove(n, g) = {}
  BY <1>0, <1>1 DEF Marks, SavedAbove
<1>6. \A g \in Fn : arrChangedFn[g] = 0 /\ arrFnFlags[g] < Top.prev_version
  BY <1>1, <1>5 DEF IInv, SavedIfChanged, MarkIsNewer
<1>7. ASSUME NEW k \in Marks', NEW g \in Fn
      PROVE  SavedAbove(k, g)' = SavedAbove(k, g) /\ k \in Marks
  <2>1. g # LEVEL_START
    BY FnAssumption DEF LEVEL_START
  <2>2. n \notin SavedAbove(k, g)
    BY <1>0, <1>1, <2>1 DEF SavedAbove
  <2>3. SavedAbove(k, g)' = SavedAbove(k, g) \ {n} /\ k \in Marks
    BY <1>2
  <2> QED
    BY <2>2, <2>3
<1>8. TypeOK'
  BY <1>1, <1>4 DEF TypeOK
<1>9. PopHasMark'
  BY <1>1 DEF PopHasMark
<1>10. FirstSaveExists'
  <2> SUFFICES ASSUME NEW k \in Marks', NEW g \in Fn, SavedAbove(k, g)' # {}
               PROVE  \E i \in SavedAbove(k, g)' :
                         \A j \in SavedAbove(k, g)' : i <= j
    BY DEF FirstSaveExists, IsFirstSave
  <2> QED
    BY <1>7 DEF IInv, FirstSaveExists, IsFirstSave
<1>11. SavedIfChanged'
  BY <1>1, <1>6 DEF SavedIfChanged
<1>12. SavedIfCurrent' /\ FlagsNotNewer'
  <2>1. \A g \in Fn : arrFnFlags'[g] \in Nat /\ arrFnFlags'[g] < nCurFnVersion'
    BY <1>1, <1>6, <1>8 DEF TypeOK
  <2> QED
    BY <1>1, <2>1 DEF SavedIfCurrent, FlagsNotNewer
<1>13. MarkIsNewer'
  <2> SUFFICES ASSUME NEW k \in Marks', NEW g \in Fn
               PROVE  /\ SavedAbove(k, g)' = {} =>
                            arrFnFlags'[g] < arrFnStack'[k].prev_version
                      /\ \A i \in SavedAbove(k, g)' :
                           (\A j \in SavedAbove(k, g)' : i <= j) =>
                             arrFnStack'[i].prev_version
                               < arrFnStack'[k].prev_version
    BY DEF MarkIsNewer, IsFirstSave
  <2>1. arrFnStack'[k] = arrFnStack[k]
    BY <1>3
  <2>2. \A i \in SavedAbove(k, g)' : arrFnStack'[i] = arrFnStack[i]
    BY <1>3
  <2> QED
    BY <1>1, <1>7, <2>1, <2>2 DEF IInv, MarkIsNewer, IsFirstSave
<1> QED
  BY <1>1, <1>6, <1>8, <1>9, <1>10, <1>11, <1>12, <1>13 DEF IInv

(* Every step keeps the invariant. *)
LEMMA NextInv == IInv /\ [Next]_vars => IInv'
<1> SUFFICES ASSUME IInv, [Next]_vars PROVE IInv'
  OBVIOUS
<1>1. ASSUME NEW f \in Fn, MarkAffected(f) PROVE IInv'
  BY <1>1, MarkAffectedInv
<1>2. ASSUME NEW f \in Fn, NEW s \in State, ChangeState(f, s) PROVE IInv'
  <2>1. Marks' = Marks
    BY <1>2 DEF ChangeState, Marks
  <2>2. TypeOK' /\ PopHasMark'
    BY <1>2, <2>1 DEF ChangeState, IInv, TypeOK, PopHasMark
  <2> QED
    BY <1>2, <2>2, SameStackInv DEF ChangeState
<1>3. ASSUME NEW f \in Fn, EndUpdate(f) PROVE IInv'
  <2>1. Marks' = Marks
    BY <1>3 DEF EndUpdate, Marks
  <2>2. TypeOK' /\ PopHasMark'
    BY <1>3, <2>1 DEF EndUpdate, IInv, TypeOK, PopHasMark
  <2>3. \A g \in Fn : arrChangedFn'[g] # 0 => arrChangedFn[g] # 0
    BY <1>3 DEF EndUpdate, IInv, TypeOK
  <2> QED
    BY <1>3, <2>2, <2>3, SameStackInv DEF EndUpdate
<1>4. CASE FnStackPushFunctionLevel
  BY <1>4, PushLevelInv
<1>5. CASE StartPop
  <2>1. Marks' = Marks
    BY <1>5 DEF StartPop, Marks
  <2>2. TypeOK' /\ PopHasMark'
    BY <1>5, <2>1 DEF StartPop, IInv, TypeOK, PopHasMark
  <2> QED
    BY <1>5, <2>2, SameStackInv DEF StartPop
<1>6. CASE PopFunction
  BY <1>6, PopFunctionInv
<1>7. CASE PopLevelStart
  BY <1>7, PopLevelStartInv
<1>8. CASE UNCHANGED vars
  <2>1. TypeOK' /\ PopHasMark'
    BY <1>8 DEF vars, IInv, TypeOK, PopHasMark, Marks
  <2> QED
    BY <1>8, <2>1, SameStackInv DEF vars
<1> QED
  BY <1>1, <1>2, <1>3, <1>4, <1>5, <1>6, <1>7, <1>8 DEF Next, PopStep

-----------------------------------------------------------------------------
(* TypeOK: the stack only ever holds saves of functions and marks, and every*)
(* function is in a state, in every order of saves, levels and pops.        *)
THEOREM TypeCorrect == Spec => []TypeOK
<1>1. IInv => TypeOK
  BY DEF IInv
<1> QED
  BY <1>1, InitInv, NextInv, PTL DEF Spec

LEMMA InvCorrect == Spec => []IInv
BY InitInv, NextInv, PTL DEF Spec

(* ChangedIsSaved: FN_STACK_PUSH may compare versions although a pop reuses *)
(* them; a function the search is changing was saved on every open level.   *)
THEOREM SavesComplete == Spec => []ChangedIsSaved
<1>1. IInv => ChangedIsSaved
  BY DEF IInv, ChangedIsSaved, SavedIfChanged
<1> QED
  BY <1>1, InvCorrect, PTL

(* PopClearsMarks: pop_state_information leaves no function marked as       *)
(* changed, so the queues may be flushed without looking at them.           *)
THEOREM PopClears == Spec => PopClearsMarks
<1>1. IInv /\ [Next]_vars =>
        [popping /\ ~popping' => \A f \in Fn : arrChangedFn'[f] = 0]_vars
  <2> SUFFICES ASSUME IInv, [Next]_vars, popping, ~popping'
               PROVE  \A f \in Fn : arrChangedFn'[f] = 0
    BY DEF vars
  <2>1. PopLevelStart
    BY DEF Next, vars, MarkAffected, ChangeState, EndUpdate,
           FnStackPushFunctionLevel, StartPop, PopStep, PopFunction
  <2> QED
    BY <2>1, PopLevelStartInv
<1> QED
  BY <1>1, InvCorrect, PTL DEF Spec, PopClearsMarks

-----------------------------------------------------------------------------
(* The function stack implements StateHistory: popping a level restores    *)
(* every function to the state it had when the level was opened.           *)

(* A nonempty set of stack positions has a highest one. *)
LEMMA HighestExists ==
  ASSUME NEW N \in Nat, NEW S \in SUBSET (1..N), S # {}
  PROVE  \E k \in S : \A j \in S : j <= k
<1> DEFINE T == {N - k : k \in S}
<1>1. \A k \in S : k \in 1..N /\ N - k \in Nat
  OBVIOUS
<1>2. T \subseteq Nat
  BY <1>1
<1>3. T # {}
  <2>1. PICK k \in S : TRUE
    OBVIOUS
  <2>2. N - k \in T
    OBVIOUS
  <2> QED
    BY <2>2
<1>4. \E x \in T : \A y \in T : ~(<<y, x>> \in OpToRel(<, Nat))
  <2> HIDE DEF T
  <2> QED
    BY <1>2, <1>3, NatLessThanWellFounded, WFMin
<1>5. PICK k \in S : \A y \in T : ~(<<y, N - k>> \in OpToRel(<, Nat))
  BY <1>4
<1>6. ASSUME NEW j \in S PROVE j <= k
  <2>1. ~(<<N - j, N - k>> \in OpToRel(<, Nat))
    BY <1>5
  <2>2. ~(N - j < N - k)
    BY <1>1, <2>1 DEF OpToRel
  <2> QED
    BY <1>1, <2>2
<1> QED
  BY <1>6

(* TopMark is the highest mark. *)
LEMMA TopMarkIsTop ==
  ASSUME TypeOK, Marks # {}
  PROVE  TopMark \in Marks /\ \A j \in Marks : j <= TopMark
<1>1. \E k \in Marks : IsTopMark(k)
  <2>1. Len(arrFnStack) \in Nat /\ Marks \in SUBSET (1..Len(arrFnStack))
    BY DEF TypeOK, Marks
  <2> QED
    BY <2>1, HighestExists DEF IsTopMark
<1>2. IsTopMark(TopMark)
  BY <1>1 DEF TopMark
<1> QED
  BY <1>2 DEF IsTopMark

(* FirstSave is the lowest save. *)
LEMMA FirstSaveIs ==
  ASSUME NEW k \in Nat, NEW f, NEW i, IsFirstSave(i, k, f),
         arrFnStack \in Seq(StackEntry)
  PROVE  FirstSave(k, f) = i
<1>1. IsFirstSave(FirstSave(k, f), k, f)
  BY DEF FirstSave, IsFirstSave
<1>2. \A j \in SavedAbove(k, f) : j \in Nat
  BY DEF SavedAbove
<1> QED
  BY <1>1, <1>2 DEF IsFirstSave

(* The same two facts about the state after a step. *)
LEMMA TopMarkIsNext ==
  ASSUME NEW k \in Nat, k \in Marks', Marks' \subseteq Nat,
         \A j \in Marks' : j <= k
  PROVE  TopMark' = k
<1>1. IsTopMark(k)'
  BY DEF IsTopMark
<1>2. TopMark' \in Marks' /\ IsTopMark(TopMark)'
  BY <1>1 DEF TopMark
<1>3. k <= TopMark' /\ TopMark' <= k
  BY <1>2 DEF IsTopMark
<1> QED
  BY <1>2, <1>3

LEMMA FirstSaveIsNext ==
  ASSUME NEW k \in Nat, NEW f, NEW i, IsFirstSave(i, k, f)',
         arrFnStack' \in Seq(StackEntry)
  PROVE  FirstSave(k, f)' = i
<1>1. IsFirstSave(FirstSave(k, f), k, f)'
  BY DEF FirstSave, IsFirstSave
<1>2. \A j \in SavedAbove(k, f)' : j \in Nat
  BY DEF SavedAbove
<1> QED
  BY <1>1, <1>2 DEF IsFirstSave

(* Every mark is a position, and a natural number. *)
LEMMA MarksAreNat ==
  ASSUME TypeOK
  PROVE  /\ Len(arrFnStack) \in Nat
         /\ Marks \subseteq 1..Len(arrFnStack)
         /\ Marks \subseteq Nat
BY DEF TypeOK, Marks

-----------------------------------------------------------------------------
(* A step that keeps the marks and what is saved above them stutters.      *)
LEMMA Stutters ==
  ASSUME IInv, Marks' = Marks, popping' = popping,
         ~popping => fnState' = fnState,
         \A k \in Marks, g \in Fn : StateAt(k, g)' = StateAt(k, g)
  PROVE  SpecCurrent' = SpecCurrent /\ SpecSnapshot' = SpecSnapshot
<1>1. TypeOK /\ Marks \subseteq Nat /\ (popping => Marks # {})
  BY MarksAreNat DEF IInv, PopHasMark
<1>2. ASSUME popping PROVE TopMark' = TopMark /\ TopMark \in Marks
  <2>1. PICK k \in Nat : k = TopMark /\ k \in Marks /\ \A j \in Marks : j <= k
    BY <1>1, <1>2, TopMarkIsTop
  <2> QED
    BY <1>1, <2>1, TopMarkIsNext
<1>3. OpenLevels' = OpenLevels /\ OpenLevels \subseteq Marks
  BY <1>2 DEF OpenLevels
<1>4. SpecSnapshot' = SpecSnapshot
  BY <1>3 DEF SpecSnapshot
<1>5. SpecCurrent' = SpecCurrent
  <2>1. CASE ~popping
    BY <2>1 DEF SpecCurrent
  <2>2. CASE popping
    <3>1. PICK k \in Marks : k = TopMark /\ k = TopMark'
      BY <1>2, <2>2
    <3>2. \A g \in Fn : StateAt(TopMark, g)' = StateAt(k, g)'
      BY <3>1 DEF StateAt, SavedAbove, FirstSave, IsFirstSave
    <3> QED
      BY <2>2, <3>1, <3>2 DEF SpecCurrent
  <2> QED
    BY <2>1, <2>2
<1> QED
  BY <1>4, <1>5

(* Nothing is disturbed by a step that leaves stack and states alone. *)
LEMMA SameStateAt ==
  ASSUME UNCHANGED <<fnState, arrFnStack>>
  PROVE  Marks' = Marks /\ \A k, g : StateAt(k, g)' = StateAt(k, g)
BY DEF Marks, StateAt, SavedAbove, FirstSave, IsFirstSave

(* Saving f does not change what the levels remember. *)
LEMMA PushStateAt ==
  ASSUME IInv, NEW f \in Fn, FnStackPush(f), UNCHANGED fnState
  PROVE  /\ Marks' = Marks
         /\ \A k \in Marks, g \in Fn : StateAt(k, g)' = StateAt(k, g)
<1>1. CASE arrFnFlags[f] = nCurFnVersion
  BY <1>1, SameStateAt DEF FnStackPush
<1>2. CASE arrFnFlags[f] # nCurFnVersion
  <2>0. PICK n \in Nat : n = Len(arrFnStack) + 1
    BY DEF IInv, TypeOK
  <2>v. PICK v \in Nat : v = arrFnFlags[f]
    BY DEF IInv, TypeOK
  <2>s. PICK s \in State : s = fnState[f]
    BY DEF IInv, TypeOK
  <2>1. Push(Entry(f, v, s)) /\ TypeOK
    BY <1>2, <2>v, <2>s DEF FnStackPush, IInv
  <2>2. Entry(f, v, s) \in StackEntry /\ Entry(f, v, s).saved = s
    BY DEF Entry, StackEntry
  <2>3. /\ Marks' = Marks
        /\ \A k \in Marks, g \in Fn :
             SavedAbove(k, g)' = IF g = f THEN SavedAbove(k, g) \cup {n}
                                          ELSE SavedAbove(k, g)
    BY <2>0, <2>1, PushFunctionSaved
  <2>4. /\ arrFnStack' \in Seq(StackEntry)
        /\ \A i \in 1..n-1 : arrFnStack'[i] = arrFnStack[i]
        /\ arrFnStack'[n].saved = s
    <3>1. PICK e \in StackEntry : e = Entry(f, v, s) /\ e.saved = s
      BY <2>2
    <3>2. arrFnStack \in Seq(StackEntry) /\ Push(e)
      BY <2>1, <3>1 DEF TypeOK
    <3>3. /\ arrFnStack' \in Seq(StackEntry)
          /\ \A i \in 1..Len(arrFnStack) : arrFnStack'[i] = arrFnStack[i]
          /\ arrFnStack'[Len(arrFnStack) + 1] = e
      BY <3>2, PushStack
    <3>4. Len(arrFnStack) = n - 1 /\ Len(arrFnStack) + 1 = n
      BY <2>0, <3>2, LenProperties
    <3> QED
      BY <3>1, <3>3, <3>4
  <2>5. Marks \subseteq Nat /\ \A k \in Marks : k < n
    BY <2>0, <2>1, MarksAreNat
  <2>6. \A k \in Marks, g \in Fn : \A i \in SavedAbove(k, g) : i \in 1..n-1 /\ i <= n
    BY <2>0, <2>5 DEF SavedAbove
  <2>7. ASSUME NEW k \in Marks, NEW g \in Fn
        PROVE  StateAt(k, g)' = StateAt(k, g)
    <3>1. CASE SavedAbove(k, g) # {}
      <4>1. PICK i \in SavedAbove(k, g) : IsFirstSave(i, k, g)
        BY <3>1 DEF IInv, FirstSaveExists
      <4>2. FirstSave(k, g) = i
        BY <2>1, <2>5, <4>1, FirstSaveIs DEF TypeOK
      <4>3. i \in SavedAbove(k, g)' /\ \A j \in SavedAbove(k, g)' : i <= j
        BY <2>3, <2>6, <4>1 DEF IsFirstSave
      <4>4. FirstSave(k, g)' = i
        BY <2>4, <2>5, <4>3, FirstSaveIsNext DEF IsFirstSave
      <4>5. arrFnStack'[i] = arrFnStack[i]
        BY <2>4, <2>6
      <4> QED
        BY <3>1, <4>2, <4>3, <4>4, <4>5 DEF StateAt
    <3>2. CASE SavedAbove(k, g) = {} /\ g = f
      <4>1. SavedAbove(k, g)' = {n}
        BY <2>3, <3>2
      <4>2. IsFirstSave(n, k, g)'
        BY <4>1 DEF IsFirstSave
      <4>3. FirstSave(k, g)' = n
        BY <2>4, <2>5, <4>2, FirstSaveIsNext
      <4> QED
        BY <2>s, <2>4, <3>2, <4>1, <4>3 DEF StateAt
    <3>3. CASE SavedAbove(k, g) = {} /\ g # f
      BY <2>3, <3>3 DEF StateAt
    <3> QED
      BY <3>1, <3>2, <3>3
  <2> QED
    BY <2>3, <2>7
<1> QED
  BY <1>1, <1>2

(* Removing the top entry does not change what a mark below it remembers,  *)
(* when an entry of f below it remains or f returns to what it held.       *)
LEMMA PopStateAt ==
  ASSUME IInv, Len(arrFnStack) > 0, RemoveTop, arrFnStack' \in Seq(StackEntry),
         NEW k \in Marks', NEW g \in Fn,
         NEW n \in Nat, n = Len(arrFnStack),
         n \in SavedAbove(k, g) => fnState'[g] = arrFnStack[n].saved,
         n \notin SavedAbove(k, g) => fnState'[g] = fnState[g]
  PROVE  StateAt(k, g)' = StateAt(k, g)
<1>1. /\ SavedAbove(k, g)' = SavedAbove(k, g) \ {n}
      /\ k \in Marks
  BY PopSaved DEF IInv
<1>2. /\ \A i \in SavedAbove(k, g)' : i \in 1..n-1
      /\ \A i \in 1..n-1 : arrFnStack'[i] = arrFnStack[i]
  BY PopKeeps DEF IInv
<1>3. k \in Nat /\ arrFnStack \in Seq(StackEntry)
  BY <1>1, MarksAreNat DEF IInv, TypeOK
<1>4. CASE SavedAbove(k, g) = {}
  BY <1>1, <1>4 DEF StateAt
<1>5. CASE SavedAbove(k, g) # {}
  <2>1. PICK i \in SavedAbove(k, g) : IsFirstSave(i, k, g)
    BY <1>1, <1>5 DEF IInv, FirstSaveExists
  <2>2. FirstSave(k, g) = i /\ StateAt(k, g) = arrFnStack[i].saved
    BY <1>3, <1>5, <2>1, FirstSaveIs DEF StateAt
  <2>3. CASE i = n
    <3>1. SavedAbove(k, g)' = {}
      <4>1. ASSUME NEW j \in SavedAbove(k, g)' PROVE FALSE
        <5>1. n <= j
          BY <1>1, <2>1, <2>3 DEF IsFirstSave
        <5> QED
          BY <1>2, <5>1
      <4> QED
        BY <4>1
    <3> QED
      BY <2>2, <2>3, <3>1 DEF StateAt
  <2>4. CASE i # n
    <3>1. i \in SavedAbove(k, g)'
      BY <1>1, <2>4
    <3>2. IsFirstSave(i, k, g)'
      BY <1>1, <2>1, <3>1 DEF IsFirstSave
    <3>3. FirstSave(k, g)' = i
      BY <1>3, <3>2, FirstSaveIsNext
    <3> QED
      BY <1>2, <2>2, <3>1, <3>3 DEF StateAt
  <2> QED
    BY <2>3, <2>4
<1> QED
  BY <1>4, <1>5

-----------------------------------------------------------------------------
LEMMA InitRefines == Init => H!Init
<1> SUFFICES ASSUME Init PROVE H!Init
  OBVIOUS
<1>1. Marks = {} /\ popping = FALSE /\ fnState \in [Fn -> State]
  BY DEF Init, Marks
<1>2. SpecCurrent \in [Fn -> State]
  BY <1>1 DEF SpecCurrent
<1>3. OpenLevels = {}
  BY <1>1 DEF OpenLevels
<1>4. DOMAIN SpecSnapshot = {}
  BY <1>3 DEF SpecSnapshot
<1> QED
  BY <1>2, <1>4 DEF H!Init, H!Levels

(* Touching a function saves it, which no level notices. *)
LEMMA MarkAffectedRefines ==
  ASSUME IInv, NEW f \in Fn, MarkAffected(f)
  PROVE  SpecCurrent' = SpecCurrent /\ SpecSnapshot' = SpecSnapshot
<1>1. UNCHANGED <<fnState, popping>>
  BY DEF MarkAffected
<1>2. /\ Marks' = Marks
      /\ \A k \in Marks, g \in Fn : StateAt(k, g)' = StateAt(k, g)
  <2>1. CASE FnStackPush(f)
    BY <1>1, <2>1, PushStateAt
  <2>2. CASE UNCHANGED <<arrFnStack, arrFnFlags>>
    BY <1>1, <2>2, SameStateAt
  <2> QED
    BY <2>1, <2>2 DEF MarkAffected
<1> QED
  BY <1>1, <1>2, Stutters

(* A big update changes the current state only: the function was saved. *)
LEMMA ChangeStateModifies ==
  ASSUME IInv, NEW f \in Fn, NEW s \in State, ChangeState(f, s)
  PROVE  /\ SpecCurrent' = [SpecCurrent EXCEPT ![f] = s]
         /\ SpecSnapshot' = SpecSnapshot
<1>1. /\ ~popping /\ ~popping' /\ arrChangedFn[f] = 3
      /\ fnState' = [fnState EXCEPT ![f] = s]
      /\ arrFnStack' = arrFnStack
      /\ fnState \in [Fn -> State]
  BY DEF ChangeState, IInv, TypeOK
<1>2. Marks' = Marks /\ OpenLevels' = OpenLevels /\ OpenLevels = Marks
  BY <1>1 DEF Marks, OpenLevels
<1>3. ASSUME NEW k \in Marks, NEW g \in Fn
      PROVE  StateAt(k, g)' = StateAt(k, g)
  <2>1. SavedAbove(k, g)' = SavedAbove(k, g) /\ FirstSave(k, g)' = FirstSave(k, g)
    BY <1>1 DEF SavedAbove, FirstSave, IsFirstSave
  <2>2. CASE g = f
    <3>1. SavedAbove(k, g) # {}
      BY <1>1, <2>2 DEF IInv, SavedIfChanged
    <3> QED
      BY <1>1, <2>1, <3>1 DEF StateAt
  <2>3. CASE g # f
    BY <1>1, <2>1, <2>3 DEF StateAt
  <2> QED
    BY <2>2, <2>3
<1>4. SpecSnapshot' = SpecSnapshot
  BY <1>2, <1>3 DEF SpecSnapshot
<1>5. SpecCurrent = fnState /\ SpecCurrent' = fnState'
  BY <1>1 DEF SpecCurrent
<1> QED
  BY <1>1, <1>4, <1>5

(* Starting a level records the current states: nothing is saved above the *)
(* new mark. *)
LEMMA PushLevelOpens ==
  ASSUME IInv, FnStackPushFunctionLevel,
         NEW n \in Nat, n = Len(arrFnStack) + 1
  PROVE  /\ OpenLevels \subseteq Nat
         /\ \A k \in OpenLevels : k < n
         /\ OpenLevels' = OpenLevels \cup {n}
         /\ SpecCurrent' = SpecCurrent
         /\ SpecSnapshot' = [k \in OpenLevels \cup {n} |->
                               IF k = n THEN SpecCurrent ELSE SpecSnapshot[k]]
<1>v. PICK v \in Nat : v = nCurFnVersion + 1
  BY DEF IInv, TypeOK
<1>1. /\ Push(Mark(v)) /\ TypeOK /\ ~popping /\ ~popping' /\ fnState' = fnState
      /\ fnState \in [Fn -> State]
  BY <1>v DEF FnStackPushFunctionLevel, IInv, TypeOK
<1>2. /\ Marks' = Marks \cup {n}
      /\ \A k \in Marks, g \in Fn : SavedAbove(k, g)' = SavedAbove(k, g)
      /\ \A g \in Fn : SavedAbove(n, g)' = {}
      /\ \A i \in 1..Len(arrFnStack) : arrFnStack'[i] = arrFnStack[i]
      /\ arrFnStack' \in Seq(StackEntry)
  BY <1>1, PushMarkSaved
<1>3. Marks \subseteq Nat /\ \A k \in Marks : k < n /\ k # n
  BY <1>1, MarksAreNat
<1>4. ASSUME NEW k \in Marks, NEW g \in Fn
      PROVE  StateAt(k, g)' = StateAt(k, g)
  <2>1. CASE SavedAbove(k, g) = {}
    BY <1>1, <1>2, <2>1 DEF StateAt
  <2>2. CASE SavedAbove(k, g) # {}
    <3>1. PICK i \in SavedAbove(k, g) : IsFirstSave(i, k, g)
      BY <2>2 DEF IInv, FirstSaveExists
    <3>2. FirstSave(k, g) = i
      BY <1>1, <1>3, <3>1, FirstSaveIs DEF TypeOK
    <3>3. IsFirstSave(i, k, g)'
      BY <1>2, <3>1 DEF IsFirstSave
    <3>4. FirstSave(k, g)' = i
      BY <1>2, <1>3, <3>3, FirstSaveIsNext
    <3>5. i \in 1..Len(arrFnStack)
      BY <1>1, <1>3, MarksAreNat DEF SavedAbove
    <3> QED
      BY <1>2, <2>2, <3>2, <3>4, <3>5 DEF StateAt
  <2> QED
    BY <2>1, <2>2
<1>5. \A g \in Fn : StateAt(n, g)' = fnState[g]
  BY <1>1, <1>2 DEF StateAt
<1>6. OpenLevels' = Marks \cup {n} /\ OpenLevels = Marks
  BY <1>1, <1>2 DEF OpenLevels
<1>7. SpecCurrent = fnState /\ SpecCurrent' = fnState
  BY <1>1 DEF SpecCurrent
<1>8. SpecSnapshot' = [k \in Marks \cup {n} |-> IF k = n THEN SpecCurrent
                                                ELSE SpecSnapshot[k]]
  <2>1. SpecSnapshot' = [k \in Marks \cup {n} |-> [g \in Fn |-> StateAt(k, g)']]
    BY <1>6 DEF SpecSnapshot
  <2>2. [g \in Fn |-> StateAt(n, g)'] = SpecCurrent
    BY <1>1, <1>5, <1>7
  <2>3. \A k \in Marks : SpecSnapshot[k] = [g \in Fn |-> StateAt(k, g)']
    BY <1>4, <1>6 DEF SpecSnapshot
  <2> QED
    BY <2>1, <2>2, <2>3
<1> QED
  BY <1>3, <1>6, <1>7, <1>8

(* Starting to pop closes the newest level. *)
LEMMA StartPopCloses ==
  ASSUME IInv, StartPop
  PROVE  /\ TopMark \in OpenLevels /\ \A k \in OpenLevels : k <= TopMark
         /\ TopMark' = TopMark
         /\ OpenLevels \subseteq Nat /\ OpenLevels' = OpenLevels \ {TopMark}
         /\ SpecCurrent' = SpecSnapshot[TopMark]
         /\ SpecSnapshot' = [k \in OpenLevels \ {TopMark} |-> SpecSnapshot[k]]
<1>1. /\ ~popping /\ popping' /\ Marks # {} /\ TypeOK
      /\ UNCHANGED <<fnState, arrFnStack>>
  BY DEF StartPop, IInv
<1>2. Marks' = Marks /\ \A k, g : StateAt(k, g)' = StateAt(k, g)
  BY <1>1, SameStateAt
<1>3. Marks \subseteq Nat
  BY <1>1, MarksAreNat
<1>4. PICK t \in Nat : t = TopMark /\ t \in Marks /\ \A j \in Marks : j <= t
  BY <1>1, <1>3, TopMarkIsTop
<1>5. TopMark' = t
  BY <1>2, <1>3, <1>4, TopMarkIsNext
<1>6. OpenLevels' = Marks \ {t} /\ OpenLevels = Marks
  BY <1>1, <1>2, <1>5 DEF OpenLevels
<1>7. SpecSnapshot' = [k \in Marks \ {t} |-> SpecSnapshot[k]]
  <2>1. SpecSnapshot' = [k \in Marks \ {t} |-> [g \in Fn |-> StateAt(k, g)']]
    BY <1>6 DEF SpecSnapshot
  <2> QED
    BY <1>2, <1>6, <2>1 DEF SpecSnapshot
<1>8. SpecCurrent' = SpecSnapshot[t]
  <2>1. \A g : StateAt(TopMark, g)' = StateAt(t, g)'
    BY <1>5 DEF StateAt, SavedAbove, FirstSave, IsFirstSave
  <2>2. SpecCurrent' = [g \in Fn |-> StateAt(t, g)']
    BY <1>1, <2>1 DEF SpecCurrent
  <2> QED
    BY <1>2, <1>4, <1>6, <2>2 DEF SpecSnapshot
<1> QED
  BY <1>3, <1>4, <1>5, <1>6, <1>7, <1>8

(* Restoring one function leaves what the marks remember as it is. *)
LEMMA PopFunctionRefines ==
  ASSUME IInv, PopFunction
  PROVE  SpecCurrent' = SpecCurrent /\ SpecSnapshot' = SpecSnapshot
<1>0. PICK n \in Nat \ {0} : n = Len(arrFnStack)
  BY PopHasTop DEF IInv, PopFunction
<1>1. /\ TypeOK /\ n > 0 /\ Top = arrFnStack[n] /\ Top \in StackEntry
      /\ popping /\ popping' = popping /\ RemoveTop
  BY <1>0, PopHasTop DEF IInv, PopFunction
<1>2. PICK f \in Fn : f = Top.nFnId
  BY <1>1 DEF PopFunction, StackEntry
<1>3. f # LEVEL_START /\ fnState' = [fnState EXCEPT ![f] = Top.saved]
      /\ fnState \in [Fn -> State]
  BY <1>1, <1>2 DEF PopFunction, TypeOK
<1>4. arrFnStack' \in Seq(StackEntry)
  BY <1>0, <1>1, PopStack DEF TypeOK
<1>5. n \notin Marks /\ Marks' = Marks
  <2>1. Marks' = Marks \ {n}
    BY <1>0, <1>1, PopSaved
  <2> QED
    BY <1>1, <1>2, <1>3, <2>1 DEF Marks
<1>6. ASSUME NEW k \in Marks, NEW g \in Fn
      PROVE  StateAt(k, g)' = StateAt(k, g)
  <2>1. k \in 1..n /\ k # n
    BY <1>0, <1>1, <1>5, MarksAreNat
  <2>2. n \in SavedAbove(k, g) <=> g = f
    BY <1>0, <1>1, <1>2, <2>1 DEF SavedAbove
  <2>3. n \in SavedAbove(k, g) => fnState'[g] = arrFnStack[n].saved
    BY <1>1, <1>3, <2>2
  <2>4. n \notin SavedAbove(k, g) => fnState'[g] = fnState[g]
    BY <1>3, <2>2
  <2> QED
    BY <1>0, <1>1, <1>4, <1>5, <2>3, <2>4, PopStateAt
<1> QED
  BY <1>1, <1>5, <1>6, Stutters

(* Removing the mark is the end of a level that is closed already: what it *)
(* remembers has become the current states. *)
LEMMA PopLevelStartRefines ==
  ASSUME IInv, PopLevelStart
  PROVE  SpecCurrent' = SpecCurrent /\ SpecSnapshot' = SpecSnapshot
<1>0. PICK n \in Nat \ {0} : n = Len(arrFnStack)
  BY PopHasTop DEF IInv, PopLevelStart
<1>1. /\ TypeOK /\ n > 0 /\ Top = arrFnStack[n] /\ popping /\ ~popping'
      /\ RemoveTop /\ Top.nFnId = LEVEL_START /\ fnState' = fnState
      /\ fnState \in [Fn -> State]
  BY <1>0, PopHasTop DEF IInv, PopLevelStart, TypeOK
<1>2. arrFnStack' \in Seq(StackEntry)
  BY <1>0, <1>1, PopStack DEF TypeOK
<1>3. Marks' = Marks \ {n} /\ n \in Marks /\ Marks \subseteq Nat
      /\ \A j \in Marks : j <= n
  <2>1. Marks' = Marks \ {n}
    BY <1>0, <1>1, PopSaved
  <2> QED
    BY <1>0, <1>1, <2>1, MarksAreNat DEF Marks
<1>4. TopMark = n
  <2>1. TopMark \in Marks /\ \A j \in Marks : j <= TopMark
    BY <1>1, <1>3, TopMarkIsTop
  <2> QED
    BY <1>3, <2>1
<1>5. OpenLevels' = Marks' /\ OpenLevels = Marks'
  BY <1>1, <1>3, <1>4 DEF OpenLevels
<1>6. ASSUME NEW k \in Marks', NEW g \in Fn
      PROVE  StateAt(k, g)' = StateAt(k, g)
  <2>1. n \notin SavedAbove(k, g)
    BY <1>0, <1>1, FnAssumption DEF SavedAbove, LEVEL_START
  <2> QED
    BY <1>0, <1>1, <1>2, <2>1, PopStateAt
<1>7. SpecSnapshot' = SpecSnapshot
  BY <1>5, <1>6 DEF SpecSnapshot
<1>8. \A g \in Fn : StateAt(TopMark, g) = fnState[g]
  <2>1. \A g \in Fn : SavedAbove(n, g) = {}
    BY <1>0, <1>1 DEF SavedAbove
  <2> QED
    BY <1>4, <2>1 DEF StateAt
<1>9. SpecCurrent' = SpecCurrent
  BY <1>1, <1>8 DEF SpecCurrent
<1> QED
  BY <1>7, <1>9

(* The marks that a pop leaves keep their places and their versions.       *)
LEMMA PopFunctionKeeps ==
  ASSUME IInv, PopFunction
  PROVE  /\ Marks' = Marks /\ TopMark \in Marks /\ TopMark' = TopMark
         /\ \A k \in Marks : arrFnStack'[k] = arrFnStack[k]
<1>0. PICK n \in Nat \ {0} : n = Len(arrFnStack)
  BY PopHasTop DEF IInv, PopFunction
<1>1. TypeOK /\ Marks # {} /\ RemoveTop /\ Top = arrFnStack[n] /\ Top.nFnId # LEVEL_START
  BY <1>0, PopHasTop DEF IInv, PopHasMark, PopFunction
<1>2. Marks' = Marks
  <2>1. Marks' = Marks \ {n}
    BY <1>0, <1>1, PopSaved
  <2> QED
    BY <1>1, <2>1 DEF Marks
<1>3. PICK t \in Nat : t = TopMark /\ t \in Marks /\ \A j \in Marks : j <= t
  BY <1>1, TopMarkIsTop, MarksAreNat
<1>4. TopMark' = t
  BY <1>1, <1>2, <1>3, MarksAreNat, TopMarkIsNext
<1>5. \A k \in Marks : arrFnStack'[k] = arrFnStack[k]
  BY <1>0, <1>1, <1>2, PopKeeps
<1> QED
  BY <1>2, <1>3, <1>4, <1>5

LEMMA PopLevelStartKeeps ==
  ASSUME IInv, PopLevelStart
  PROVE  /\ nCurFnVersion' = arrFnStack[TopMark].prev_version
         /\ \A k \in Marks' : arrFnStack'[k] = arrFnStack[k]
         /\ \A f \in Fn : arrChangedFn'[f] = 0
<1>0. PICK n \in Nat \ {0} : n = Len(arrFnStack)
  BY PopHasTop DEF IInv, PopLevelStart
<1>1. TypeOK /\ n \in Marks /\ RemoveTop /\ Top = arrFnStack[n]
  BY <1>0, PopHasTop DEF IInv, PopLevelStart, Marks
<1>2. TopMark = n
  <2>1. TopMark \in Marks /\ \A j \in Marks : j <= TopMark
    BY <1>1, TopMarkIsTop
  <2>2. TopMark \in 1..n
    BY <1>0, <1>1, <2>1, MarksAreNat
  <2> QED
    BY <1>1, <2>1, <2>2
<1>3. \A k \in Marks' : arrFnStack'[k] = arrFnStack[k]
  BY <1>0, <1>1, PopKeeps
<1> QED
  BY <1>1, <1>2, <1>3, PopLevelStartInv DEF PopLevelStart

(* In the words of StateHistory, these steps are Modify, Open and Close. *)
LEMMA ChangeStateRefines ==
  ASSUME IInv, NEW f \in Fn, NEW s \in State, ChangeState(f, s)
  PROVE  H!Modify
BY ChangeStateModifies DEF H!Modify

LEMMA PushLevelRefines ==
  ASSUME IInv, FnStackPushFunctionLevel
  PROVE  H!Open
<1>1. PICK n \in Nat : n = Len(arrFnStack) + 1
  BY DEF IInv, TypeOK
<1>2. DOMAIN SpecSnapshot = OpenLevels /\ DOMAIN SpecSnapshot' = OpenLevels'
  BY DEF SpecSnapshot
<1> QED
  BY <1>1, <1>2, PushLevelOpens DEF H!Open, H!Levels

LEMMA StartPopRefines ==
  ASSUME IInv, StartPop
  PROVE  H!Close
<1>1. DOMAIN SpecSnapshot = OpenLevels
  BY DEF SpecSnapshot
<1> QED
  BY <1>1, StartPopCloses DEF H!Close, H!Levels

LEMMA StepRefines == IInv /\ [Next]_vars => [H!Next]_(H!vars)
<1> SUFFICES ASSUME IInv, [Next]_vars
             PROVE  H!Next \/ (SpecCurrent' = SpecCurrent
                               /\ SpecSnapshot' = SpecSnapshot)
  BY DEF H!vars
<1>1. ASSUME NEW f \in Fn, MarkAffected(f)
      PROVE  SpecCurrent' = SpecCurrent /\ SpecSnapshot' = SpecSnapshot
  BY <1>1, MarkAffectedRefines
<1>2. ASSUME NEW f \in Fn, NEW s \in State, ChangeState(f, s) PROVE H!Next
  BY <1>2, ChangeStateRefines DEF H!Next
<1>3. ASSUME UNCHANGED <<fnState, arrFnStack, popping>>
      PROVE  SpecCurrent' = SpecCurrent /\ SpecSnapshot' = SpecSnapshot
  BY <1>3, SameStateAt, Stutters
<1>4. ASSUME NEW f \in Fn, EndUpdate(f)
      PROVE  SpecCurrent' = SpecCurrent /\ SpecSnapshot' = SpecSnapshot
  BY <1>3, <1>4 DEF EndUpdate
<1>5. CASE FnStackPushFunctionLevel
  BY <1>5, PushLevelRefines DEF H!Next
<1>6. CASE StartPop
  BY <1>6, StartPopRefines DEF H!Next
<1>7. CASE PopFunction
  BY <1>7, PopFunctionRefines
<1>8. CASE PopLevelStart
  BY <1>8, PopLevelStartRefines
<1>9. CASE UNCHANGED vars
  BY <1>3, <1>9 DEF vars
<1> QED
  BY <1>1, <1>2, <1>4, <1>5, <1>6, <1>7, <1>8, <1>9 DEF Next, PopStep

(* ImplementsHistory: whatever functions are touched, changed and restored *)
(* in whatever order, closing a level brings back exactly the states of    *)
(* the moment it was opened (pop_state_information, FN_STACK_PUSH).        *)
THEOREM Refinement == Spec => ImplementsHistory
BY InitRefines, StepRefines, InvCorrect, PTL DEF Spec, H!Spec, ImplementsHistory
=============================================================================
