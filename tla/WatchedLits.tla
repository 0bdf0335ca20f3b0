---------------------------- MODULE WatchedLits ----------------------------
(***************************************************************************)
(* The watched literals of the lemmas in the cache.  Each lemma watches    *)
(* two of its literals and is in two doubly linked lists, those of its     *)
(* watch 0 and of its watch 1.  When a literal becomes false,              *)
(* UpdateEachAffectedLemma goes through its two lists and has each lemma   *)
(* watch another literal, infer, or report a conflict.                     *)
(*                                                                         *)
(* Literals are integers as in the code, v or -v, and so are the nodes of  *)
(* the lists: the head of a literal's list is the literal, lemmas are      *)
(* numbered from above the variables, NULL is 0.  One action is one turn   *)
(* of a loop over a list; the rest of the solver infers, chooses and       *)
(* backtracks in any way.                                                  *)
(***************************************************************************)
EXTENDS Integers, FiniteSetsExt, SequencesExt

CONSTANTS NumVars,
          Lemma,       \* numbers of lemmas
          Contents     \* what their literals may be: functions from Lemma

Var     == 1..NumVars
Literal == {l \in -NumVars..NumVars : l # 0}
Watch   == {0, 1}
NULL    == 0
Node    == Literal \cup Lemma

AtomOf(l) == IF l < 0 THEN -l ELSE l

ASSUME WatchedLitsAssumption ==
  /\ NumVars \in Nat
  /\ \A p \in Lemma : p \in Nat /\ p > NumVars
  /\ \A c \in Contents : c \in [Lemma -> Seq(Literal)]
  /\ \A c \in Contents : \A p \in Lemma :
       /\ Len(c[p]) >= 2
       /\ \A i, j \in DOMAIN c[p] : i # j => AtomOf(c[p][i]) # AtomOf(c[p][j])

VARIABLES
  arrLits,                \* the literals of each lemma
  trail,                  \* the literals that are true, in order
  levels,                 \* where choice points are on it
  pInferenceQueueNextElt, \* how many of them have been dequeued
  cached,                 \* the lemmas in the cache
  nWatched,               \* nWatchedVble, nWatchedVblePolarity of a lemma
  lists,                  \* pNextLemma[idx], pPrevLemma[idx], Tail[idx]
  idx, previous,          \* of UpdateEachAffectedLemma
  nFlipped,               \* index on the trail of the choice reversed last
  pc

trailVars == <<trail, levels, pInferenceQueueNextElt>>
listVars  == <<cached, nWatched, lists>>
loopVars  == <<idx, previous>>
vars == <<arrLits, trailVars, listVars, loopVars, nFlipped, pc>>

Init ==
  /\ arrLits \in Contents
  /\ trail = <<>> /\ levels = <<>> /\ pInferenceQueueNextElt = 0
  /\ cached = {}
  /\ nWatched = [p \in Lemma |-> [w \in Watch |-> 0]]
  /\ lists = [w \in Watch |-> [next |-> [n \in Node |-> NULL],
                               prev |-> [p \in Lemma |-> NULL],
                               tail |-> [l \in Literal |-> l]]]
  /\ idx = 0 /\ previous = NULL
  /\ nFlipped = 0
  /\ pc = "dequeue"

True(l)    == \E i \in DOMAIN trail : trail[i] = l
False(l)   == True(-l)
Unknown(l) == ~True(l) /\ ~False(l)

(* arrBacktrackStackIndex of an assigned literal's atom *)
BSI(l) == CHOOSE i \in DOMAIN trail : trail[i] \in {l, -l}

-----------------------------------------------------------------------------
(* Lists *)

(* Mutant: the tail stays when its last lemma leaves. *)
UnlinkKeepsTail(list, before, p, l) ==
  LET after == list.next[p]
  IN  [list EXCEPT !.next[before] = after,
                   !.prev = IF after = NULL THEN @ ELSE [@ EXCEPT ![after] = before]]

(* Take p, which follows before, off the list of literal l. *)
Unlink(list, before, p, l) ==
  LET after == list.next[p]
  IN  [list EXCEPT !.next[before] = after,
                   !.prev = IF after = NULL THEN @ ELSE [@ EXCEPT ![after] = before],
                   !.tail = IF after = NULL THEN [@ EXCEPT ![l] = list.prev[p]] ELSE @]

LinkFront(list, p, l) ==
  LET after == list.next[l]
  IN  [list EXCEPT !.next = [@ EXCEPT ![p] = after, ![l] = p],
                   !.prev = IF after = NULL THEN [@ EXCEPT ![p] = l]
                                            ELSE [@ EXCEPT ![p] = l, ![after] = p],
                   !.tail = IF after = NULL THEN [@ EXCEPT ![l] = p] ELSE @]

LinkBack(list, p, l) ==
  [list EXCEPT !.next = [@ EXCEPT ![list.tail[l]] = p, ![p] = NULL],
               !.prev[p] = list.tail[l],
               !.tail[l] = p]

AFSMoveLemma(list, before, p, from, to) ==
  LinkFront(Unlink(list, before, p, from), p, to)

AFSMoveLemmaToBack(list, before, p, from, to) ==
  LinkBack(Unlink(list, before, p, from), p, to)

AddLemmaIntoWatchedLits(p, w) ==
  [i \in Watch |-> LinkFront(lists[i], p, w[i])]

(* RemoveLemmaFromWatchedLits; FreeLemmaInfoStruct resets its links. *)
RemoveLemmaFromWatchedLits(p) ==
  [i \in Watch |->
     LET list == Unlink(lists[i], lists[i].prev[p], p, nWatched[p][i])
     IN  [list EXCEPT !.next[p] = NULL, !.prev[p] = NULL]]

-----------------------------------------------------------------------------
(* UpdateEachAffectedLemma *)

Falsified == -trail[pInferenceQueueNextElt]

Dequeue ==
  /\ pc = "dequeue"
  /\ pInferenceQueueNextElt < Len(trail)
  /\ pInferenceQueueNextElt' = pInferenceQueueNextElt + 1
  /\ idx' = 0
  /\ previous' = -trail[pInferenceQueueNextElt + 1]
  /\ pc' = "visit"
  /\ UNCHANGED <<arrLits, trail, levels, listVars, nFlipped>>

pLemmaListDisagreed == lists[idx].next[previous]

Other(p) == nWatched[p][1 - idx]

(* Positions of literals that end the scan of a lemma: not false, and not  *)
(* the other watch while that is unknown.                                  *)
Candidates(p) == {i \in DOMAIN arrLits[p] :
                    ~False(arrLits[p][i]) /\ arrLits[p][i] # Other(p)}

First(p) == arrLits[p][Min(Candidates(p))]

Visiting(p) == pc = "visit" /\ p = pLemmaListDisagreed /\ p # NULL

VisitSatisfied(p) ==
  /\ Visiting(p)
  /\ True(Other(p))
  /\ previous' = p
  /\ UNCHANGED <<arrLits, trailVars, listVars, idx, nFlipped, pc>>

VisitUnknown(p) ==
  /\ Visiting(p)
  /\ ~True(Other(p)) /\ Candidates(p) # {} /\ Unknown(First(p))
  /\ lists' = [lists EXCEPT ![idx] = AFSMoveLemma(@, previous, p, Falsified, First(p))]
  /\ nWatched' = [nWatched EXCEPT ![p][idx] = First(p)]
  /\ UNCHANGED <<arrLits, trailVars, cached, loopVars, nFlipped, pc>>

(* The search for the two true literals of lowest index starts from the    *)
(* first one found, and one of a higher index is never taken.              *)
Earlier(p) == {l \in Range(arrLits[p]) : True(l) /\ BSI(l) <= BSI(First(p))}

Earliest(S) == CHOOSE l \in S : \A m \in S : BSI(l) <= BSI(m)

Lowest(p) == Earliest(Earlier(p))

SecondLowest(p) == IF Earlier(p) = {Lowest(p)} THEN NULL
                   ELSE Earliest(Earlier(p) \ {Lowest(p)})

VisitTrue(p) ==
  LET second == SecondLowest(p)
  IN  /\ Visiting(p)
      /\ ~True(Other(p)) /\ Candidates(p) # {} /\ True(First(p))
      /\ lists' = [w \in Watch |->
           IF w = idx THEN AFSMoveLemmaToBack(lists[w], previous, p, Falsified, Lowest(p))
           ELSE IF second = NULL THEN lists[w]
           ELSE AFSMoveLemmaToBack(lists[w], lists[w].prev[p], p, Other(p), second)]
      /\ nWatched' = [nWatched EXCEPT ![p] =
           [w \in Watch |-> IF w = idx THEN Lowest(p)
                            ELSE IF second = NULL THEN @[w] ELSE second]]
      /\ UNCHANGED <<arrLits, trailVars, cached, loopVars, nFlipped, pc>>

Infer(p) ==
  /\ Visiting(p)
  /\ Candidates(p) = {} /\ Unknown(Other(p))
  /\ trail' = Append(trail, Other(p))
  /\ previous' = p
  /\ UNCHANGED <<arrLits, levels, pInferenceQueueNextElt, listVars, idx, nFlipped, pc>>

Conflict(p) ==
  /\ Visiting(p)
  /\ Candidates(p) = {} /\ False(Other(p))
  /\ pc' = "conflict"
  /\ UNCHANGED <<arrLits, trailVars, listVars, loopVars, nFlipped>>

(* Mutant: the second list is left out. *)
OneListOnly == idx = 0

LastList == idx = 1

EndOfList ==
  /\ pc = "visit" /\ pLemmaListDisagreed = NULL
  /\ IF LastList
     THEN /\ idx' = 0 /\ previous' = NULL
          /\ pc' = "functions"
     ELSE /\ idx' = 1 /\ previous' = Falsified
          /\ UNCHANGED pc
  /\ UNCHANGED <<arrLits, trailVars, listVars, nFlipped>>

-----------------------------------------------------------------------------
(* The rest of the solver *)

(* Functions infer; they do so between two lemma updates. *)
FunctionInfers(l) ==
  /\ pc = "functions"
  /\ Unknown(l)
  /\ trail' = Append(trail, l)
  /\ UNCHANGED <<arrLits, levels, pInferenceQueueNextElt, listVars, loopVars, nFlipped, pc>>

FunctionsUpdated ==
  /\ pc = "functions"
  /\ pc' \in {"dequeue", "conflict"}
  /\ UNCHANGED <<arrLits, trailVars, listVars, loopVars, nFlipped>>

Deduced == pc = "dequeue" /\ pInferenceQueueNextElt = Len(trail)

SelectNewBranchPoint(l) ==
  /\ Deduced
  /\ Unknown(l)
  /\ trail' = Append(trail, l)
  /\ levels' = Append(levels, Len(trail) + 1)
  /\ UNCHANGED <<arrLits, pInferenceQueueNextElt, listVars, loopVars, nFlipped, pc>>

RecordSolution ==
  /\ Deduced
  /\ \A v \in Var : ~Unknown(v)
  /\ pc' = "conflict"
  /\ UNCHANGED <<arrLits, trailVars, listVars, loopVars, nFlipped>>

(* BackTrack to any choice point, which it reverses. *)
BackTrack(k) ==
  /\ pc = "conflict"
  /\ trail' = Append(SubSeq(trail, 1, levels[k] - 1), -trail[levels[k]])
  /\ levels' = SubSeq(levels, 1, k - 1)
  /\ pInferenceQueueNextElt' = levels[k] - 1
  /\ nFlipped' = levels[k]
  /\ idx' = 0 /\ previous' = NULL
  /\ pc' = "unit"
  /\ UNCHANGED <<arrLits, listVars>>

(* A unit lemma infers, all of it before deduction goes on. *)
UnitInfers(l) ==
  /\ pc = "unit"
  /\ Unknown(l)
  /\ trail' = Append(trail, l)
  /\ UNCHANGED <<arrLits, levels, pInferenceQueueNextElt, listVars, loopVars, nFlipped, pc>>

(* Mutant: a lemma still unit is put in the cache. *)
AnyTime(l) == TRUE

NotSetBeforeFlip(l) == \A i \in DOMAIN trail : trail[i] \in {l, -l} => i >= nFlipped

(* A lemma no longer unit: its watches were unassigned by the backtrack. *)
AddLemmaIntoCache(p, w) ==
  /\ pc = "unit"
  /\ p \notin cached
  /\ w[0] # w[1] /\ \A i \in Watch : w[i] \in Range(arrLits[p]) /\ NotSetBeforeFlip(w[i])
  /\ cached' = cached \cup {p}
  /\ lists' = AddLemmaIntoWatchedLits(p, w)
  /\ nWatched' = [nWatched EXCEPT ![p] = w]
  /\ UNCHANGED <<arrLits, trailVars, loopVars, nFlipped, pc>>

(* The cache is trimmed while BackTrack runs. *)
FreeLemma(p) ==
  /\ pc = "unit"
  /\ p \in cached
  /\ cached' = cached \ {p}
  /\ lists' = RemoveLemmaFromWatchedLits(p)
  /\ nWatched' = [nWatched EXCEPT ![p] = [w \in Watch |-> 0]]
  /\ UNCHANGED <<arrLits, trailVars, loopVars, nFlipped, pc>>

EndBackTrack ==
  /\ pc = "unit"
  /\ pc' = "dequeue"
  /\ nFlipped' = 0
  /\ UNCHANGED <<arrLits, trailVars, listVars, loopVars>>

Done ==
  /\ pc = "conflict" /\ levels = <<>>
  /\ UNCHANGED vars

UpdateEachAffectedLemma ==
  \/ \E p \in Lemma : \/ VisitSatisfied(p) \/ VisitUnknown(p) \/ VisitTrue(p)
                      \/ Infer(p) \/ Conflict(p)
  \/ EndOfList

Next ==
  \/ Dequeue \/ UpdateEachAffectedLemma
  \/ \E l \in Literal : FunctionInfers(l) \/ SelectNewBranchPoint(l) \/ UnitInfers(l)
  \/ FunctionsUpdated \/ RecordSolution
  \/ \E k \in DOMAIN levels : BackTrack(k)
  \/ \E p \in Lemma : FreeLemma(p) \/ \E w \in [Watch -> Literal] : AddLemmaIntoCache(p, w)
  \/ EndBackTrack \/ Done

Spec == Init /\ [][Next]_vars

-----------------------------------------------------------------------------
TypeOK ==
  /\ arrLits \in Contents
  /\ \A i \in DOMAIN trail : trail[i] \in Literal
  /\ Len(trail) <= NumVars
  /\ \A k \in DOMAIN levels : levels[k] \in DOMAIN trail
  /\ pInferenceQueueNextElt \in 0..Len(trail)
  /\ cached \subseteq Lemma
  /\ nWatched \in [Lemma -> [Watch -> Literal \cup {0}]]
  /\ lists \in [Watch -> [next : [Node -> Lemma \cup {NULL}],
                          prev : [Lemma -> Node \cup {NULL}],
                          tail : [Literal -> Node]]]
  /\ idx \in Watch /\ previous \in Node \cup {NULL}
  /\ nFlipped \in 0..NumVars
  /\ pc \in {"dequeue", "visit", "functions", "conflict", "unit"}

(* Each list of watch w holds exactly the cached lemmas whose watch w is   *)
(* its literal; links agree in both directions, the tail is the last, and  *)
(* no lemmas form a ring apart from the head of their list.                *)
ListsIntact ==
  TypeOK /\ \A w \in Watch :
    LET list == lists[w]
        OnList(n, l) == n = l \/ (n \in cached /\ nWatched[n][w] = l)
    IN  /\ \A l \in Literal :
             /\ OnList(list.tail[l], l)
             /\ list.next[list.tail[l]] = NULL
        /\ \A p \in cached :
             /\ list.next[list.prev[p]] = p
             /\ OnList(list.prev[p], nWatched[p][w])
             /\ list.next[p] = NULL => list.tail[nWatched[p][w]] = p
        /\ \A n \in Literal \cup cached :
             list.next[n] # NULL => list.prev[list.next[n]] = n
        /\ \A ring \in SUBSET cached :
             ring # {} => \E p \in ring : list.prev[p] \notin ring

LevelOf(l) == Cardinality({k \in DOMAIN levels : levels[k] <= BSI(l)})

Satisfied(p) == \E l \in Range(arrLits[p]) : True(l)

(* The watches of a lemma are two of its literals.  One that is false and  *)
(* was dequeued is no loss: the lemma is satisfied by a literal that no     *)
(* backtrack unassigns before it does the watch.                           *)
Handled(l) == False(l) /\ BSI(l) <= pInferenceQueueNextElt
                       /\ (BSI(l) = pInferenceQueueNextElt => pc \notin {"visit", "conflict"})

WatchesSound ==
  \A p \in cached :
    /\ nWatched[p][0] # nWatched[p][1]
    /\ \A w \in Watch :
         /\ nWatched[p][w] \in Range(arrLits[p])
         /\ Handled(nWatched[p][w]) =>
              \E l \in Range(arrLits[p]) : True(l) /\ LevelOf(l) <= LevelOf(nWatched[p][w])

(* At the end of deduction no cached lemma is violated or unit. *)
LemmasComplete ==
  Deduced =>
    \A p \in cached :
      Satisfied(p) \/ Cardinality({l \in Range(arrLits[p]) : Unknown(l)}) >= 2
=============================================================================
