------------------------- MODULE WatchedLits_proofs -------------------------
(***************************************************************************)
(* Theorems about the watched literals, for any number of variables and    *)
(* any lemmas.                                                             *)
(*                                                                         *)
(* The lists are doubly linked, so first come lemmas about one list and    *)
(* the three operations on it; then the inductive invariant, the steps     *)
(* that keep it, and what follows from it.                                 *)
(***************************************************************************)
EXTENDS WatchedLits, SequenceTheorems, FiniteSetTheorems, WellFoundedInduction, TLAPS

NextType == [Node -> Lemma \cup {NULL}]
PrevType == [Lemma -> Node \cup {NULL}]
TailType == [Literal -> Node]
ListType == [next : NextType, prev : PrevType, tail : TailType]

(* What list each lemma is on, NULL if on none. *)
OnType == [Lemma -> Literal \cup {NULL}]

OnList(n, l, on) == n = l \/ (n \in Lemma /\ on[n] = l)

(* Every list of a watch is linked in both directions, ends at its tail,   *)
(* has all lemmas it should have and no cycle.                             *)
Linked(next, prev, tail, on) ==
  /\ \A l \in Literal : OnList(tail[l], l, on) /\ next[tail[l]] = NULL
  /\ \A l \in Literal, n \in Node : OnList(n, l, on) =>
       IF next[n] = NULL THEN tail[l] = n
                         ELSE on[next[n]] = l /\ prev[next[n]] = n
  /\ \A p \in Lemma : on[p] # NULL =>
       OnList(prev[p], on[p], on) /\ next[prev[p]] = p
  /\ \A C \in SUBSET {p \in Lemma : on[p] # NULL} :
       C # {} => \E p \in C : prev[p] \notin C

Well(list, on) == list \in ListType /\ Linked(list.next, list.prev, list.tail, on)

(* What the three operations do to a list and to what list lemma p is on.  *)
Placed(on, p, l, on2) ==
  on2 \in OnType /\ \A q \in Lemma : on2[q] = IF q = p THEN l ELSE on[q]

TakenOut(list, p, l, r) ==
  LET before == list.prev[p]
      after  == list.next[p]
  IN  /\ r \in ListType
      /\ \A n \in Node : r.next[n] = IF n = before THEN after ELSE list.next[n]
      /\ \A q \in Lemma : r.prev[q] = IF after # NULL /\ q = after THEN before ELSE list.prev[q]
      /\ \A k \in Literal : r.tail[k] = IF after = NULL /\ k = l THEN before ELSE list.tail[k]

PutFirst(list, p, l, r) ==
  LET after == list.next[l]
  IN  /\ r \in ListType
      /\ \A n \in Node : r.next[n] = IF n = l THEN p ELSE IF n = p THEN after ELSE list.next[n]
      /\ \A q \in Lemma : r.prev[q] = IF q = p THEN l
                                      ELSE IF after # NULL /\ q = after THEN p ELSE list.prev[q]
      /\ \A k \in Literal : r.tail[k] = IF after = NULL /\ k = l THEN p ELSE list.tail[k]

PutLast(list, p, l, r) ==
  LET before == list.tail[l]
  IN  /\ r \in ListType
      /\ \A n \in Node : r.next[n] = IF n = p THEN NULL ELSE IF n = before THEN p ELSE list.next[n]
      /\ \A q \in Lemma : r.prev[q] = IF q = p THEN before ELSE list.prev[q]
      /\ \A k \in Literal : r.tail[k] = IF k = l THEN p ELSE list.tail[k]

-----------------------------------------------------------------------------
(* One list *)

LEMMA Nodes ==
  /\ NULL \notin Node /\ Literal \subseteq Node /\ Lemma \subseteq Node
  /\ \A n \in Literal : n \notin Lemma
  /\ \A n \in Node : n \in Literal \/ n \in Lemma
  /\ \A l \in Literal : -l \in Literal /\ l # -l /\ l \in Int
BY WatchedLitsAssumption DEF NULL, Node, Literal

(* A lemma is not its own neighbour. *)
LEMMA Neighbours ==
  ASSUME NEW next \in NextType, NEW prev \in PrevType, NEW tail \in TailType,
         NEW on \in OnType, Linked(next, prev, tail, on),
         NEW p \in Lemma, on[p] # NULL
  PROVE  /\ prev[p] \in Node /\ prev[p] # p /\ OnList(prev[p], on[p], on)
         /\ next[prev[p]] = p
         /\ next[p] # NULL => /\ next[p] \in Lemma /\ next[p] # p
                              /\ on[next[p]] = on[p] /\ prev[next[p]] = p
                              /\ next[p] # prev[p]
         /\ next[p] = NULL => tail[on[p]] = p
<1>1. /\ OnList(prev[p], on[p], on) /\ next[prev[p]] = p
      /\ on[p] \in Literal /\ p \in Node
  BY Nodes DEF Linked, OnType
<1>2. prev[p] \in Node
  BY <1>1, Nodes DEF OnList
<1>3. \A C \in SUBSET {q \in Lemma : on[q] # NULL} : C # {} => \E q \in C : prev[q] \notin C
  BY DEF Linked
<1>4. prev[p] # p
  <2>1. {p} \in SUBSET {q \in Lemma : on[q] # NULL}
    OBVIOUS
  <2> QED
    BY <1>3, <2>1
<1>5. OnList(p, on[p], on)
  BY DEF OnList
<1>6. IF next[p] = NULL THEN tail[on[p]] = p
                        ELSE on[next[p]] = on[p] /\ prev[next[p]] = p
  BY <1>1, <1>5 DEF Linked
<1>7. next[p] \in Lemma \cup {NULL}
  BY <1>1 DEF NextType
<1>8. ASSUME next[p] # NULL, next[p] = prev[p] PROVE FALSE
  <2>1. next[p] \in Lemma /\ on[next[p]] # NULL /\ prev[next[p]] = p
    BY <1>1, <1>6, <1>7, <1>8, Nodes
  <2>2. {p, next[p]} \in SUBSET {q \in Lemma : on[q] # NULL}
    BY <2>1
  <2>3. PICK q \in {p, next[p]} : prev[q] \notin {p, next[p]}
    BY <1>3, <2>2
  <2> QED
    BY <1>8, <2>1, <2>3
<1> QED
  BY <1>1, <1>2, <1>4, <1>6, <1>7, <1>8

LEMMA TakeOutWell ==
  ASSUME NEW list, NEW on \in OnType, Well(list, on),
         NEW p \in Lemma, NEW l \in Literal, on[p] = l,
         NEW r, TakenOut(list, p, l, r), NEW on2, Placed(on, p, NULL, on2)
  PROVE  Well(r, on2)
<1> SUFFICES ASSUME NEW next, next = list.next, NEW prev, prev = list.prev,
                    NEW tail, tail = list.tail, NEW next2, next2 = r.next,
                    NEW prev2, prev2 = r.prev, NEW tail2, tail2 = r.tail,
                    NEW before, before = prev[p], NEW after, after = next[p]
             PROVE  Linked(next2, prev2, tail2, on2)
  BY DEF Well, TakenOut
<1>a. /\ next \in NextType /\ prev \in PrevType /\ tail \in TailType
      /\ Linked(next, prev, tail, on)
      /\ next2 \in NextType /\ prev2 \in PrevType /\ tail2 \in TailType /\ on2 \in OnType
  BY DEF Well, ListType, TakenOut, Placed
<1> USE <1>a
<1>1. /\ before \in Node /\ before # p /\ OnList(before, l, on) /\ next[before] = p
      /\ after # NULL => /\ after \in Lemma /\ after # p /\ on[after] = l
                         /\ prev[after] = p /\ after # before
      /\ after = NULL => tail[l] = p
      /\ l # NULL
  BY Neighbours, Nodes
<1>2. p \in Node /\ after \in Lemma \cup {NULL}
  BY Nodes DEF NextType
<1>4. /\ \A n \in Node : next2[n] = IF n = before THEN after ELSE next[n]
      /\ \A q \in Lemma : prev2[q] = IF after # NULL /\ q = after THEN before ELSE prev[q]
      /\ \A k \in Literal : tail2[k] = IF after = NULL /\ k = l THEN before ELSE tail[k]
      /\ \A q \in Lemma : on2[q] = IF q = p THEN NULL ELSE on[q]
  BY DEF TakenOut, Placed
<1>5. \A k \in Literal, n \in Node : OnList(n, k, on2) <=> OnList(n, k, on) /\ n # p
  BY <1>4, Nodes DEF OnList
<1>6. ASSUME NEW k \in Literal
      PROVE  OnList(tail2[k], k, on2) /\ next2[tail2[k]] = NULL
  <2>1. OnList(tail[k], k, on) /\ next[tail[k]] = NULL /\ tail[k] \in Node
    BY DEF Linked, TailType
  <2>2. CASE after = NULL /\ k = l
    <3>1. tail2[k] = before /\ next2[before] = NULL
      BY <1>1, <1>4, <2>2
    <3>2. OnList(before, k, on2)
      BY <1>1, <1>5, <2>2
    <3> QED
      BY <3>1, <3>2
  <2>3. CASE ~(after = NULL /\ k = l)
    <3>1. tail2[k] = tail[k]
      BY <1>4, <2>3
    <3>2. tail[k] # p
      <4>1. CASE k = l
        BY <2>1, <2>3, <4>1
      <4>2. CASE k # l
        BY <2>1, <4>2, Nodes DEF OnList
      <4> QED
        BY <4>1, <4>2
    <3>3. tail[k] # before
      BY <1>1, <2>1, Nodes
    <3> QED
      BY <1>4, <1>5, <2>1, <3>1, <3>2, <3>3
  <2> QED
    BY <2>2, <2>3
<1>7. ASSUME NEW k \in Literal, NEW n \in Node, OnList(n, k, on2)
      PROVE  IF next2[n] = NULL THEN tail2[k] = n
                                ELSE on2[next2[n]] = k /\ prev2[next2[n]] = n
  <2>1. OnList(n, k, on) /\ n # p
    BY <1>5, <1>7
  <2>2. IF next[n] = NULL THEN tail[k] = n ELSE on[next[n]] = k /\ prev[next[n]] = n
    BY <2>1 DEF Linked
  <2>3. CASE n = before
    <3>1. k = l
      BY <1>1, <2>1, <2>2, <2>3, Nodes
    <3> QED
      BY <1>1, <1>4, <2>3, <3>1
  <2>4. CASE n # before
    <3>1. next2[n] = next[n] /\ next[n] \in Lemma \cup {NULL}
      BY <1>4, <2>4 DEF NextType
    <3>2. CASE next[n] = NULL
      <4>1. tail[k] = n
        BY <2>2, <3>2
      <4>2. ~(after = NULL /\ k = l)
        BY <1>1, <2>1, <4>1
      <4> QED
        BY <1>4, <3>1, <3>2, <4>1, <4>2
    <3>3. CASE next[n] # NULL
      <4>1. on[next[n]] = k /\ prev[next[n]] = n /\ next[n] \in Lemma
        BY <2>2, <3>1, <3>3
      <4>2. next[n] # p /\ next[n] # after
        BY <1>1, <2>1, <2>4, <4>1, Nodes
      <4> QED
        BY <1>4, <3>1, <3>3, <4>1, <4>2
    <3> QED
      BY <3>2, <3>3
  <2> QED
    BY <2>3, <2>4
<1>8. ASSUME NEW q \in Lemma, on2[q] # NULL
      PROVE  OnList(prev2[q], on2[q], on2) /\ next2[prev2[q]] = q
  <2>1. q # p /\ on2[q] = on[q] /\ on[q] # NULL
    BY <1>4, <1>8
  <2>2. OnList(prev[q], on[q], on) /\ next[prev[q]] = q /\ prev[q] \in Node /\ on[q] \in Literal
    BY <2>1, Neighbours DEF OnType
  <2>3. CASE after # NULL /\ q = after
    <3>1. prev2[q] = before /\ next2[before] = q /\ on2[q] = l
      BY <1>1, <1>4, <2>1, <2>3
    <3>2. OnList(before, l, on2)
      BY <1>1, <1>5
    <3> QED
      BY <3>1, <3>2
  <2>4. CASE ~(after # NULL /\ q = after)
    <3>1. prev2[q] = prev[q]
      BY <1>4, <2>4
    <3>2. prev[q] # before
      BY <1>1, <2>1, <2>2
    <3>3. prev[q] # p
      BY <2>2, <2>4, Nodes
    <3> QED
      BY <1>4, <1>5, <2>1, <2>2, <3>1, <3>2, <3>3
  <2> QED
    BY <2>3, <2>4
<1>9. ASSUME NEW C \in SUBSET {q \in Lemma : on2[q] # NULL}, C # {}
      PROVE  \E q \in C : prev2[q] \notin C
  <2>1. \A q \in C : q \in Lemma /\ q # p /\ on[q] # NULL
    BY <1>4
  <2>2. CASE after \in C
    <3>1. C \cup {p} \in SUBSET {q \in Lemma : on[q] # NULL}
      BY <1>1, <2>1
    <3>2. PICK q \in C \cup {p} : prev[q] \notin C \cup {p}
      BY <3>1 DEF Linked
    <3>3. CASE q = p
      BY <1>1, <1>4, <2>1, <2>2, <3>2, <3>3, Nodes
    <3>4. CASE q # p
      <4>1. q \in C /\ q # after
        BY <1>1, <2>1, <2>2, <3>2, <3>4, Nodes
      <4> QED
        BY <1>4, <2>1, <3>2, <4>1
    <3> QED
      BY <3>3, <3>4
  <2>3. CASE after \notin C
    <3>1. C \in SUBSET {q \in Lemma : on[q] # NULL}
      BY <2>1
    <3>2. PICK q \in C : prev[q] \notin C
      BY <1>9, <3>1 DEF Linked
    <3> QED
      BY <1>4, <2>1, <2>3, <3>2
  <2> QED
    BY <2>2, <2>3
<1>10. Linked(next2, prev2, tail2, on2)
  BY <1>6, <1>7, <1>8, <1>9 DEF Linked
<1> QED
  BY <1>10

(* Lemmas that are on no list can be put first or last on any. *)
LEMMA PutFirstWell ==
  ASSUME NEW list, NEW on \in OnType, Well(list, on),
         NEW p \in Lemma, NEW l \in Literal, on[p] = NULL,
         NEW r, PutFirst(list, p, l, r), NEW on2, Placed(on, p, l, on2)
  PROVE  Well(r, on2)
<1> SUFFICES ASSUME NEW next, next = list.next, NEW prev, prev = list.prev,
                    NEW tail, tail = list.tail, NEW next2, next2 = r.next,
                    NEW prev2, prev2 = r.prev, NEW tail2, tail2 = r.tail,
                    NEW after, after = next[l]
             PROVE  Linked(next2, prev2, tail2, on2)
  BY DEF Well, PutFirst
<1>a. /\ next \in NextType /\ prev \in PrevType /\ tail \in TailType
      /\ Linked(next, prev, tail, on)
      /\ next2 \in NextType /\ prev2 \in PrevType /\ tail2 \in TailType /\ on2 \in OnType
  BY DEF Well, ListType, PutFirst, Placed
<1> USE <1>a
<1>1. /\ p \in Node /\ l \in Node /\ p # l /\ l \notin Lemma /\ l # NULL /\ NULL \notin Lemma
      /\ after \in Lemma \cup {NULL} /\ \A k \in Literal : k \in Node /\ k # p /\ k # NULL
  BY Nodes DEF NextType
<1>2. OnList(l, l, on)
  BY DEF OnList
<1>3. /\ after = NULL => tail[l] = l
      /\ after # NULL => /\ after \in Lemma /\ on[after] = l /\ prev[after] = l
                         /\ after # p
  BY <1>1, <1>2 DEF Linked
<1>4. /\ next2 \in NextType /\ prev2 \in PrevType /\ tail2 \in TailType /\ on2 \in OnType
      /\ \A n \in Node : next2[n] = IF n = l THEN p ELSE IF n = p THEN after ELSE next[n]
      /\ \A q \in Lemma : prev2[q] = IF q = p THEN l
                                     ELSE IF after # NULL /\ q = after THEN p ELSE prev[q]
      /\ \A k \in Literal : tail2[k] = IF after = NULL /\ k = l THEN p ELSE tail[k]
      /\ \A q \in Lemma : on2[q] = IF q = p THEN l ELSE on[q]
  BY DEF PutFirst, Placed
<1>5. \A k \in Literal, n \in Node :
        OnList(n, k, on2) <=> OnList(n, k, on) \/ (n = p /\ k = l)
  BY <1>1, <1>4 DEF OnList
<1>6. \A k \in Literal : ~OnList(p, k, on)
  BY <1>1 DEF OnList
<1>7. ASSUME NEW k \in Literal
      PROVE  OnList(tail2[k], k, on2) /\ next2[tail2[k]] = NULL
  <2>1. OnList(tail[k], k, on) /\ next[tail[k]] = NULL /\ tail[k] \in Node
    BY DEF Linked, TailType
  <2>2. CASE after = NULL /\ k = l
    BY <1>1, <1>4, <1>5, <2>2
  <2>3. CASE ~(after = NULL /\ k = l)
    <3>1. tail2[k] = tail[k] /\ tail[k] # p
      BY <1>4, <1>6, <2>1, <2>3
    <3>2. tail[k] # l
      <4>1. CASE k = l
        BY <1>1, <2>1, <2>3, <4>1
      <4>2. CASE k # l
        BY <1>1, <2>1, <4>2 DEF OnList
      <4> QED
        BY <4>1, <4>2
    <3> QED
      BY <1>4, <1>5, <2>1, <3>1, <3>2
  <2> QED
    BY <2>2, <2>3
<1>8. ASSUME NEW k \in Literal, NEW n \in Node, OnList(n, k, on2)
      PROVE  IF next2[n] = NULL THEN tail2[k] = n
                                ELSE on2[next2[n]] = k /\ prev2[next2[n]] = n
  <2>1. CASE n = p
    <3>1. k = l
      BY <1>5, <1>6, <1>8, <2>1
    <3>2. next2[p] = after /\ (after = NULL => tail2[l] = p)
      <4>1. next2[p] = after
        BY <1>1, <1>4
      <4> QED
        BY <1>4, <4>1
    <3>3. after # NULL => on2[after] = k /\ prev2[after] = n
      BY <1>3, <1>4, <2>1, <3>1
    <3> QED
      BY <2>1, <3>1, <3>2, <3>3
  <2>2. CASE n = l
    <3>1. k = l
      BY <1>1, <1>8, <2>2 DEF OnList
    <3> QED
      BY <1>1, <1>4, <2>2, <3>1
  <2>3. CASE n # p /\ n # l
    <3>1. /\ next2[n] = next[n] /\ next[n] \in Lemma \cup {NULL}
          /\ IF next[n] = NULL THEN tail[k] = n ELSE on[next[n]] = k /\ prev[next[n]] = n
      <4>1. OnList(n, k, on)
        BY <1>5, <1>8, <2>3
      <4>2. next2[n] = next[n] /\ next[n] \in Lemma \cup {NULL}
        BY <1>4, <2>3 DEF NextType
      <4> QED
        BY <4>1, <4>2 DEF Linked
    <3>2. CASE next[n] = NULL
      <4>1. tail[k] = n /\ ~(after = NULL /\ k = l)
        BY <1>3, <2>3, <3>1, <3>2
      <4> QED
        BY <1>4, <3>1, <3>2, <4>1
    <3>3. CASE next[n] # NULL
      <4>1. on[next[n]] = k /\ prev[next[n]] = n /\ next[n] \in Lemma
        BY <3>1, <3>3
      <4>2. next[n] # p
        BY <1>1, <4>1
      <4>3. next[n] = after => after # NULL
        BY <1>1, <4>1
      <4>4. next[n] # after
        BY <1>3, <2>3, <4>1, <4>3
      <4>5. on2[next[n]] = on[next[n]] /\ prev2[next[n]] = prev[next[n]]
        BY <1>4, <4>1, <4>2, <4>4
      <4> QED
        BY <3>1, <3>3, <4>1, <4>5
    <3> QED
      BY <3>2, <3>3
  <2> QED
    BY <2>1, <2>2, <2>3
<1>9. ASSUME NEW q \in Lemma, on2[q] # NULL
      PROVE  OnList(prev2[q], on2[q], on2) /\ next2[prev2[q]] = q
  <2>1. CASE q = p
    BY <1>1, <1>4, <2>1 DEF OnList
  <2>2. CASE q # p /\ after # NULL /\ q = after
    <3>1. prev2[q] = p /\ next2[p] = q /\ on2[q] = l
      BY <1>1, <1>3, <1>4, <2>2
    <3>2. OnList(p, l, on2)
      BY <1>1, <1>5
    <3> QED
      BY <3>1, <3>2
  <2>3. CASE q # p /\ ~(after # NULL /\ q = after)
    <3>1. prev2[q] = prev[q] /\ on2[q] = on[q] /\ on[q] # NULL
      BY <1>4, <1>9, <2>3
    <3>2. OnList(prev[q], on[q], on) /\ next[prev[q]] = q /\ prev[q] \in Node /\ on[q] \in Literal
      BY <3>1, Neighbours DEF OnType
    <3>3. prev[q] # p /\ prev[q] # l
      BY <1>1, <1>6, <2>3, <3>2
    <3> QED
      BY <1>4, <1>5, <3>1, <3>2, <3>3
  <2> QED
    BY <2>1, <2>2, <2>3
<1>10. ASSUME NEW C \in SUBSET {q \in Lemma : on2[q] # NULL}, C # {}
       PROVE  \E q \in C : prev2[q] \notin C
  <2>1. CASE p \in C
    <3>1. prev2[p] = l /\ \A q \in C : q \in Lemma
      BY <1>4
    <3> QED
      BY <1>1, <2>1, <3>1
  <2>2. CASE p \notin C
    <3>1. \A q \in C : q \in Lemma /\ q # p /\ on[q] # NULL
      BY <1>4, <2>2
    <3>2. PICK q \in C : prev[q] \notin C
      BY <1>10, <3>1 DEF Linked
    <3>3. prev2[q] = p \/ prev2[q] = prev[q]
      BY <1>4, <3>1
    <3> QED
      BY <2>2, <3>2, <3>3
  <2> QED
    BY <2>1, <2>2
<1>11. Linked(next2, prev2, tail2, on2)
  BY <1>7, <1>8, <1>9, <1>10 DEF Linked
<1> QED
  BY <1>11

LEMMA PutLastWell ==
  ASSUME NEW list, NEW on \in OnType, Well(list, on),
         NEW p \in Lemma, NEW l \in Literal, on[p] = NULL,
         NEW r, PutLast(list, p, l, r), NEW on2, Placed(on, p, l, on2)
  PROVE  Well(r, on2)
<1> SUFFICES ASSUME NEW next, next = list.next, NEW prev, prev = list.prev,
                    NEW tail, tail = list.tail, NEW next2, next2 = r.next,
                    NEW prev2, prev2 = r.prev, NEW tail2, tail2 = r.tail,
                    NEW before, before = tail[l]
             PROVE  Linked(next2, prev2, tail2, on2)
  BY DEF Well, PutLast
<1>a. /\ next \in NextType /\ prev \in PrevType /\ tail \in TailType
      /\ Linked(next, prev, tail, on)
      /\ next2 \in NextType /\ prev2 \in PrevType /\ tail2 \in TailType /\ on2 \in OnType
  BY DEF Well, ListType, PutLast, Placed
<1> USE <1>a
<1>1. /\ p \in Node /\ p # l /\ l \notin Lemma /\ l # NULL /\ p # NULL
      /\ before \in Node /\ OnList(before, l, on) /\ next[before] = NULL
  BY Nodes DEF TailType, Linked
<1>2. \A k \in Literal : ~OnList(p, k, on)
  BY Nodes DEF OnList
<1>3. before # p
  BY <1>1, <1>2
<1>4. /\ next2 \in NextType /\ prev2 \in PrevType /\ tail2 \in TailType /\ on2 \in OnType
      /\ \A n \in Node : next2[n] = IF n = p THEN NULL ELSE IF n = before THEN p ELSE next[n]
      /\ \A q \in Lemma : prev2[q] = IF q = p THEN before ELSE prev[q]
      /\ \A k \in Literal : tail2[k] = IF k = l THEN p ELSE tail[k]
      /\ \A q \in Lemma : on2[q] = IF q = p THEN l ELSE on[q]
  BY DEF PutLast, Placed
<1>5. \A k \in Literal, n \in Node :
        OnList(n, k, on2) <=> OnList(n, k, on) \/ (n = p /\ k = l)
  BY <1>1, <1>4, Nodes DEF OnList
(* A node is on one list only. *)
<1>6. \A k \in Literal, n \in Node : OnList(n, k, on) /\ OnList(n, l, on) => k = l
  BY Nodes DEF OnList
<1>7. ASSUME NEW k \in Literal
      PROVE  OnList(tail2[k], k, on2) /\ next2[tail2[k]] = NULL
  <2>1. OnList(tail[k], k, on) /\ next[tail[k]] = NULL /\ tail[k] \in Node
    BY DEF Linked, TailType
  <2>2. CASE k = l
    BY <1>1, <1>4, <1>5, <2>2
  <2>3. CASE k # l
    <3>1. tail2[k] = tail[k] /\ tail[k] # p /\ tail[k] # before
      BY <1>1, <1>2, <1>4, <1>6, <2>1, <2>3
    <3> QED
      BY <1>4, <1>5, <2>1, <3>1
  <2> QED
    BY <2>2, <2>3
<1>8. ASSUME NEW k \in Literal, NEW n \in Node, OnList(n, k, on2)
      PROVE  IF next2[n] = NULL THEN tail2[k] = n
                                ELSE on2[next2[n]] = k /\ prev2[next2[n]] = n
  <2>1. CASE n = p
    <3>1. k = l
      BY <1>2, <1>5, <1>8, <2>1
    <3> QED
      BY <1>1, <1>4, <2>1, <3>1
  <2>2. CASE n = before
    <3>1. k = l
      BY <1>1, <1>3, <1>5, <1>6, <1>8, <2>2
    <3> QED
      BY <1>1, <1>3, <1>4, <2>2, <3>1
  <2>3. CASE n # p /\ n # before
    <3>1. /\ next2[n] = next[n] /\ next[n] \in Lemma \cup {NULL}
          /\ IF next[n] = NULL THEN tail[k] = n ELSE on[next[n]] = k /\ prev[next[n]] = n
      <4>1. OnList(n, k, on)
        BY <1>5, <1>8, <2>3
      <4>2. next2[n] = next[n] /\ next[n] \in Lemma \cup {NULL}
        BY <1>4, <2>3 DEF NextType
      <4> QED
        BY <4>1, <4>2 DEF Linked
    <3>2. CASE next[n] = NULL
      BY <1>4, <2>3, <3>1, <3>2
    <3>3. CASE next[n] # NULL
      <4>1. on[next[n]] = k /\ prev[next[n]] = n /\ next[n] \in Lemma /\ next[n] # p
        BY <3>1, <3>3, Nodes
      <4> QED
        BY <1>4, <3>1, <3>3, <4>1
    <3> QED
      BY <3>2, <3>3
  <2> QED
    BY <2>1, <2>2, <2>3
<1>9. ASSUME NEW q \in Lemma, on2[q] # NULL
      PROVE  OnList(prev2[q], on2[q], on2) /\ next2[prev2[q]] = q
  <2>1. CASE q = p
    <3>1. prev2[q] = before /\ on2[q] = l /\ next2[before] = q
      BY <1>1, <1>3, <1>4, <2>1
    <3>2. OnList(before, l, on2)
      BY <1>1, <1>5
    <3> QED
      BY <3>1, <3>2
  <2>2. CASE q # p
    <3>1. prev2[q] = prev[q] /\ on2[q] = on[q] /\ on[q] # NULL
      BY <1>4, <1>9, <2>2
    <3>2. OnList(prev[q], on[q], on) /\ next[prev[q]] = q /\ prev[q] \in Node /\ on[q] \in Literal
      BY <3>1, Neighbours DEF OnType
    <3>3. prev[q] # p /\ prev[q] # before
      BY <1>1, <1>2, <3>2, Nodes
    <3> QED
      BY <1>4, <1>5, <3>1, <3>2, <3>3
  <2> QED
    BY <2>1, <2>2
<1>10. ASSUME NEW C \in SUBSET {q \in Lemma : on2[q] # NULL}, C # {}
       PROVE  \E q \in C : prev2[q] \notin C
  <2>1. CASE C = {p}
    BY <1>3, <1>4, <2>1
  <2>2. CASE C # {p}
    <3>1. \A q \in C \ {p} : q \in Lemma /\ q # p /\ on[q] # NULL
      BY <1>4
    <3>2. C \ {p} # {}
      BY <1>10, <2>2
    <3>3. PICK q \in C \ {p} : prev[q] \notin C \ {p}
      BY <3>1, <3>2 DEF Linked
    <3>4. prev[q] # p
      <4>1. OnList(prev[q], on[q], on) /\ on[q] \in Literal
        BY <3>1, Neighbours DEF OnType
      <4> QED
        BY <1>2, <4>1
    <3> QED
      BY <1>4, <3>1, <3>3, <3>4
  <2> QED
    BY <2>1, <2>2
<1>11. Linked(next2, prev2, tail2, on2)
  BY <1>7, <1>8, <1>9, <1>10 DEF Linked
<1> QED
  BY <1>11

(* The operations of the code do these things. *)
LEMMA UnlinkTakesOut ==
  ASSUME NEW list \in ListType, NEW p \in Lemma, NEW l \in Literal, list.prev[p] \in Node
  PROVE  TakenOut(list, p, l, Unlink(list, list.prev[p], p, l))
<1>1. PICK next \in NextType, prev \in PrevType, tail \in TailType :
        list = [next |-> next, prev |-> prev, tail |-> tail]
  BY DEF ListType
<1>2. list.next = next /\ list.prev = prev /\ list.tail = tail
  BY <1>1
<1>3. PICK before \in Node, after \in Lemma \cup {NULL} : before = prev[p] /\ after = next[p]
  BY <1>2, Nodes DEF NextType
<1>4. PICK next2, prev2, tail2 :
        /\ next2 = [next EXCEPT ![before] = next[p]]
        /\ prev2 = IF next[p] = NULL THEN prev ELSE [prev EXCEPT ![next[p]] = before]
        /\ tail2 = IF next[p] = NULL THEN [tail EXCEPT ![l] = before] ELSE tail
  OBVIOUS
<1>5. PICK r : r = Unlink(list, before, p, l)
  OBVIOUS
<1>6. r = [next |-> next2, prev |-> prev2, tail |-> tail2]
  <2>1. r = [[[list EXCEPT !.next = [@ EXCEPT ![before] = list.next[p]]]
               EXCEPT !.prev = IF list.next[p] = NULL THEN @ ELSE [@ EXCEPT ![list.next[p]] = before]]
               EXCEPT !.tail = IF list.next[p] = NULL THEN [@ EXCEPT ![l] = list.prev[p]] ELSE @]
    BY <1>1, <1>5 DEF Unlink
  <2>2. list.prev[p] = before /\ list.next[p] = next[p]
    BY <1>2, <1>3
  <2> QED
    BY <1>1, <1>2, <1>4, <2>1, <2>2
<1>7. next2 \in NextType /\ prev2 \in PrevType /\ tail2 \in TailType
  BY <1>3, <1>4 DEF NextType, PrevType, TailType
<1>8. /\ \A n \in Node : next2[n] = IF n = before THEN after ELSE next[n]
      /\ \A q \in Lemma : prev2[q] = IF after # NULL /\ q = after THEN before ELSE prev[q]
      /\ \A k \in Literal : tail2[k] = IF after = NULL /\ k = l THEN before ELSE tail[k]
  BY <1>3, <1>4 DEF NextType, PrevType, TailType
<1>9. r \in ListType /\ r.next = next2 /\ r.prev = prev2 /\ r.tail = tail2
  BY <1>6, <1>7 DEF ListType
<1>10. TakenOut(list, p, l, r)
  BY <1>2, <1>3, <1>8, <1>9 DEF TakenOut
<1>11. list.prev[p] = before
  BY <1>2, <1>3
<1> QED
  BY <1>5, <1>10, <1>11

LEMMA LinkFrontPutsFirst ==
  ASSUME NEW list \in ListType, NEW p \in Lemma, NEW l \in Literal, list.next[l] # p
  PROVE  PutFirst(list, p, l, LinkFront(list, p, l))
<1>1. PICK next \in NextType, prev \in PrevType, tail \in TailType :
        list = [next |-> next, prev |-> prev, tail |-> tail]
  BY DEF ListType
<1>2. list.next = next /\ list.prev = prev /\ list.tail = tail
  BY <1>1
<1>3. PICK after \in Lemma \cup {NULL} : after = next[l] /\ after # p
  BY <1>2, Nodes DEF NextType
<1>4. PICK next2, prev2, tail2 :
        /\ next2 = [[next EXCEPT ![p] = next[l]] EXCEPT ![l] = p]
        /\ prev2 = IF next[l] = NULL THEN [prev EXCEPT ![p] = l]
                   ELSE [[prev EXCEPT ![p] = l] EXCEPT ![next[l]] = p]
        /\ tail2 = IF next[l] = NULL THEN [tail EXCEPT ![l] = p] ELSE tail
  OBVIOUS
<1>5. PICK r : r = LinkFront(list, p, l)
  OBVIOUS
<1>6. r = [next |-> next2, prev |-> prev2, tail |-> tail2]
  BY <1>1, <1>2, <1>4, <1>5 DEF LinkFront
<1>7. next2 \in NextType /\ prev2 \in PrevType /\ tail2 \in TailType
  BY <1>3, <1>4, Nodes DEF NextType, PrevType, TailType
<1>8. /\ \A n \in Node : next2[n] = IF n = l THEN p ELSE IF n = p THEN after ELSE next[n]
      /\ \A q \in Lemma : prev2[q] = IF q = p THEN l
                                     ELSE IF after # NULL /\ q = after THEN p ELSE prev[q]
      /\ \A k \in Literal : tail2[k] = IF after = NULL /\ k = l THEN p ELSE tail[k]
  BY <1>3, <1>4, Nodes DEF NextType, PrevType, TailType
<1>9. r \in ListType /\ r.next = next2 /\ r.prev = prev2 /\ r.tail = tail2
  BY <1>6, <1>7 DEF ListType
<1>10. PutFirst(list, p, l, r)
  BY <1>2, <1>3, <1>8, <1>9 DEF PutFirst
<1> QED
  BY <1>5, <1>10

LEMMA LinkBackPutsLast ==
  ASSUME NEW list \in ListType, NEW p \in Lemma, NEW l \in Literal
  PROVE  PutLast(list, p, l, LinkBack(list, p, l))
<1>1. PICK next \in NextType, prev \in PrevType, tail \in TailType :
        list = [next |-> next, prev |-> prev, tail |-> tail]
  BY DEF ListType
<1>2. list.next = next /\ list.prev = prev /\ list.tail = tail
  BY <1>1
<1>3. PICK before \in Node : before = tail[l]
  BY DEF TailType
<1>4. PICK next2, prev2, tail2 :
        /\ next2 = [[next EXCEPT ![tail[l]] = p] EXCEPT ![p] = NULL]
        /\ prev2 = [prev EXCEPT ![p] = tail[l]]
        /\ tail2 = [tail EXCEPT ![l] = p]
  OBVIOUS
<1>5. PICK r : r = LinkBack(list, p, l)
  OBVIOUS
<1>6. r = [next |-> next2, prev |-> prev2, tail |-> tail2]
  BY <1>1, <1>2, <1>4, <1>5 DEF LinkBack
<1>7. next2 \in NextType /\ prev2 \in PrevType /\ tail2 \in TailType
  BY <1>3, <1>4, Nodes DEF NextType, PrevType, TailType
<1>8. /\ \A n \in Node : next2[n] = IF n = p THEN NULL ELSE IF n = before THEN p ELSE next[n]
      /\ \A q \in Lemma : prev2[q] = IF q = p THEN before ELSE prev[q]
      /\ \A k \in Literal : tail2[k] = IF k = l THEN p ELSE tail[k]
  BY <1>3, <1>4, Nodes DEF NextType, PrevType, TailType
<1>9. r \in ListType /\ r.next = next2 /\ r.prev = prev2 /\ r.tail = tail2
  BY <1>6, <1>7 DEF ListType
<1>10. PutLast(list, p, l, r)
  BY <1>2, <1>3, <1>8, <1>9 DEF PutLast
<1> QED
  BY <1>5, <1>10

(* Moving p to another list leaves the rest of its list as it was.         *)
KeepsRest(list, r, on, p, from) ==
  /\ \A n \in Node : OnList(n, from, on) /\ n # p =>
       r.next[n] = IF n = list.prev[p] THEN list.next[p] ELSE list.next[n]
  /\ \A n \in Lemma : on[n] = from /\ n # p /\ n # list.next[p] =>
       r.prev[n] = list.prev[n]

LEMMA MoveWell ==
  ASSUME NEW list, NEW on \in OnType, Well(list, on),
         NEW p \in Lemma, NEW from \in Literal, NEW to \in Literal, on[p] = from, from # to,
         NEW r, \/ r = AFSMoveLemma(list, list.prev[p], p, from, to)
                \/ r = AFSMoveLemmaToBack(list, list.prev[p], p, from, to),
         NEW on2, Placed(on, p, to, on2)
  PROVE  Well(r, on2) /\ KeepsRest(list, r, on, p, from)
<1>1. PICK u : u = Unlink(list, list.prev[p], p, from)
  OBVIOUS
<1>2. PICK on1 : on1 = [on EXCEPT ![p] = NULL]
  OBVIOUS
<1>3. Placed(on, p, NULL, on1) /\ Placed(on1, p, to, on2) /\ on1[p] = NULL /\ on1 \in OnType
  BY <1>2 DEF Placed, OnType
<1>4. list \in ListType /\ Linked(list.next, list.prev, list.tail, on)
  BY DEF Well
<1>5. list.prev[p] \in Node
  <2>1. list.next \in NextType /\ list.prev \in PrevType /\ list.tail \in TailType
    BY <1>4 DEF ListType
  <2>2. on[p] # NULL
    BY Nodes
  <2> QED
    BY <1>4, <2>1, <2>2, Neighbours
<1>6. TakenOut(list, p, from, u)
  BY <1>1, <1>4, <1>5, UnlinkTakesOut
<1>7. Well(u, on1)
  BY <1>3, <1>6, TakeOutWell
<1>8. u \in ListType /\ Linked(u.next, u.prev, u.tail, on1)
  BY <1>7 DEF Well
<1>9. u.next[to] # p
  <2>1. u.next[to] # NULL => on1[u.next[to]] = to
    BY <1>8, Nodes DEF Linked, OnList
  <2> QED
    BY <1>3, <2>1, Nodes
<1>10. PutFirst(u, p, to, r) \/ PutLast(u, p, to, r)
  BY <1>1, <1>8, <1>9, LinkFrontPutsFirst, LinkBackPutsLast DEF AFSMoveLemma, AFSMoveLemmaToBack
<1>11. Well(r, on2)
  BY <1>3, <1>7, <1>10, PutFirstWell, PutLastWell
<1>12. ASSUME NEW n \in Node, OnList(n, from, on), n # p
       PROVE  r.next[n] = IF n = list.prev[p] THEN list.next[p] ELSE list.next[n]
  <2>1. OnList(n, from, on1)
    BY <1>3, <1>12, Nodes DEF OnList, Placed
  <2>2. OnList(u.tail[to], to, on1)
    BY <1>8 DEF Linked
  <2>3. n # to /\ n # u.tail[to]
    BY <1>12, <2>1, <2>2, Nodes DEF OnList
  <2>4. r.next[n] = u.next[n]
    BY <1>10, <1>12, <2>3 DEF PutFirst, PutLast
  <2> QED
    BY <1>6, <2>4 DEF TakenOut
<1>13. ASSUME NEW n \in Lemma, on[n] = from, n # p, n # list.next[p]
       PROVE  r.prev[n] = list.prev[n]
  <2>1. u.next[to] # NULL => on1[u.next[to]] = to
    BY <1>8, Nodes DEF Linked, OnList
  <2>2. on1[n] = from
    BY <1>3, <1>13 DEF Placed
  <2>3. n # u.next[to]
    BY <2>1, <2>2, Nodes
  <2>4. r.prev[n] = u.prev[n]
    BY <1>10, <1>13, <2>3 DEF PutFirst, PutLast
  <2> QED
    BY <1>6, <1>13, <2>4 DEF TakenOut
<1> QED
  BY <1>11, <1>12, <1>13 DEF KeepsRest

(* A lemma that left its list loses its links. *)
LEMMA ResetWell ==
  ASSUME NEW list, NEW on \in OnType, Well(list, on), NEW p \in Lemma, on[p] = NULL,
         NEW r, r = [list EXCEPT !.next[p] = NULL, !.prev[p] = NULL]
  PROVE  Well(r, on)
<1>1. PICK next \in NextType, prev \in PrevType, tail \in TailType :
        list = [next |-> next, prev |-> prev, tail |-> tail]
  BY DEF Well, ListType
<1>2. list.next = next /\ list.prev = prev /\ list.tail = tail
  BY <1>1
<1>3. PICK next2, prev2 : next2 = [next EXCEPT ![p] = NULL] /\ prev2 = [prev EXCEPT ![p] = NULL]
  OBVIOUS
<1>4. r = [next |-> next2, prev |-> prev2, tail |-> tail]
  BY <1>1, <1>3
<1>5. /\ next2 \in NextType /\ prev2 \in PrevType
      /\ \A n \in Node : n # p => next2[n] = next[n]
      /\ \A q \in Lemma : q # p => prev2[q] = prev[q]
  BY <1>3, Nodes DEF NextType, PrevType
<1>6. Linked(next, prev, tail, on)
  BY <1>2 DEF Well
<1>7. \A l \in Literal : ~OnList(p, l, on)
  BY Nodes DEF OnList
<1>8. ASSUME NEW l \in Literal
      PROVE  OnList(tail[l], l, on) /\ next2[tail[l]] = NULL
  BY <1>5, <1>6, <1>7 DEF Linked, TailType
<1>9. ASSUME NEW l \in Literal, NEW n \in Node, OnList(n, l, on)
      PROVE  IF next2[n] = NULL THEN tail[l] = n ELSE on[next2[n]] = l /\ prev2[next2[n]] = n
  <2>1. n # p /\ next2[n] = next[n] /\ next[n] \in Lemma \cup {NULL}
    BY <1>5, <1>7, <1>9 DEF NextType
  <2>2. IF next[n] = NULL THEN tail[l] = n ELSE on[next[n]] = l /\ prev[next[n]] = n
    BY <1>6, <1>9 DEF Linked
  <2> QED
    BY <1>5, <2>1, <2>2, Nodes
<1>10. ASSUME NEW q \in Lemma, on[q] # NULL
       PROVE  OnList(prev2[q], on[q], on) /\ next2[prev2[q]] = q
  <2>1. OnList(prev[q], on[q], on) /\ next[prev[q]] = q /\ prev[q] \in Node /\ on[q] \in Literal
    BY <1>6, <1>10, Neighbours DEF OnType
  <2> QED
    BY <1>5, <1>7, <1>10, <2>1
<1>11. ASSUME NEW C \in SUBSET {q \in Lemma : on[q] # NULL}, C # {}
       PROVE  \E q \in C : prev2[q] \notin C
  <2>1. PICK q \in C : prev[q] \notin C
    BY <1>6, <1>11 DEF Linked
  <2> QED
    BY <1>5, <2>1
<1>12. Linked(next2, prev2, tail, on)
  BY <1>8, <1>9, <1>10, <1>11 DEF Linked
<1>13. r \in ListType /\ r.next = next2 /\ r.prev = prev2 /\ r.tail = tail
  <2>1. tail \in TailType
    BY <1>1
  <2> QED
    BY ONLY <1>4, <1>5, <2>1 DEF ListType
<1> QED
  BY <1>12, <1>13 DEF Well

-----------------------------------------------------------------------------
(* The trail *)

(* Each atom has at most one literal on it. *)
Consistent(t) == \A i, j \in DOMAIN t : t[j] \in {t[i], -t[i]} => i = j

LEMMA AppendLiteral ==
  ASSUME NEW t \in Seq(Literal), Consistent(t), NEW l \in Literal,
         \A i \in DOMAIN t : t[i] # l /\ t[i] # -l
  PROVE  /\ Append(t, l) \in Seq(Literal) /\ Consistent(Append(t, l))
         /\ Len(Append(t, l)) = Len(t) + 1
         /\ DOMAIN Append(t, l) = 1..(Len(t) + 1)
         /\ Append(t, l)[Len(t) + 1] = l
         /\ \A i \in 1..Len(t) : Append(t, l)[i] = t[i]
<1>1. /\ Append(t, l) \in Seq(Literal) /\ Len(Append(t, l)) = Len(t) + 1
      /\ DOMAIN Append(t, l) = 1..(Len(t) + 1)
      /\ Append(t, l)[Len(t) + 1] = l
      /\ \A i \in 1..Len(t) : Append(t, l)[i] = t[i]
  OBVIOUS
<1>2. PICK u : u = Append(t, l)
  OBVIOUS
<1>3. ASSUME NEW i \in DOMAIN u, NEW j \in DOMAIN u, u[j] \in {u[i], -u[i]}
      PROVE  i = j
  <2>1. /\ i \in 1..(Len(t) + 1) /\ j \in 1..(Len(t) + 1) /\ Len(t) \in Nat
        /\ \A k \in 1..Len(t) : u[k] = t[k] /\ t[k] \in Literal /\ k \in DOMAIN t
        /\ u[Len(t) + 1] = l
    BY <1>1, <1>2
  <2>2. CASE i <= Len(t) /\ j <= Len(t)
    BY <1>3, <2>1, <2>2 DEF Consistent
  <2>3. CASE i = Len(t) + 1 /\ j <= Len(t)
    BY <1>3, <2>1, <2>3
  <2>4. CASE i <= Len(t) /\ j = Len(t) + 1
    <3>1. u[i] = t[i] /\ t[i] \in Int /\ l \in Int /\ l \in {t[i], -t[i]} /\ i \in DOMAIN t
      BY <1>3, <2>1, <2>4 DEF Literal
    <3> QED
      BY <3>1
  <2> QED
    BY <2>1, <2>2, <2>3, <2>4
<1> QED
  BY <1>1, <1>2, <1>3 DEF Consistent

LEMMA CutTrail ==
  ASSUME NEW t \in Seq(Literal), Consistent(t), NEW n \in 0..Len(t)
  PROVE  /\ SubSeq(t, 1, n) \in Seq(Literal) /\ Consistent(SubSeq(t, 1, n))
         /\ Len(SubSeq(t, 1, n)) = n /\ DOMAIN SubSeq(t, 1, n) = 1..n
         /\ \A i \in 1..n : SubSeq(t, 1, n)[i] = t[i]
<1>1. /\ SubSeq(t, 1, n) \in Seq(Literal)
      /\ Len(SubSeq(t, 1, n)) = n /\ DOMAIN SubSeq(t, 1, n) = 1..n
      /\ \A i \in 1..n : SubSeq(t, 1, n)[i] = t[i] /\ i \in DOMAIN t
  OBVIOUS
<1> QED
  BY <1>1 DEF Consistent

(* So it is never longer than there are variables. *)
LEMMA TrailFits ==
  ASSUME NEW t \in Seq(Literal), Consistent(t)
  PROVE  Len(t) <= NumVars
<1>1. PICK f : f = [i \in 1..Len(t) |-> AtomOf(t[i])]
  OBVIOUS
<1>2. \A i \in 1..Len(t) : t[i] \in Literal /\ AtomOf(t[i]) \in 1..NumVars /\ AtomOf(t[i]) \in {t[i], -t[i]}
  BY WatchedLitsAssumption DEF Literal, AtomOf
<1>3. f \in Injection(1..Len(t), 1..NumVars)
  <2>1. f \in [1..Len(t) -> 1..NumVars]
    BY <1>1, <1>2
  <2>2. ASSUME NEW i \in 1..Len(t), NEW j \in 1..Len(t), f[i] = f[j]
        PROVE  i = j
    <3>1. t[i] \in Int /\ t[j] \in Int /\ AtomOf(t[i]) = AtomOf(t[j])
      BY <1>1, <1>2, <2>2 DEF Literal
    <3>2. t[j] \in {t[i], -t[i]}
      BY <3>1 DEF AtomOf
    <3> QED
      BY <3>2 DEF Consistent
  <2> QED
    BY <2>1, <2>2 DEF Injection, IsInjective
<1>4. IsFiniteSet(1..NumVars) /\ Cardinality(1..NumVars) = NumVars
  BY WatchedLitsAssumption, FS_Interval
<1>5. IsFiniteSet(1..Len(t)) /\ Cardinality(1..Len(t)) = Len(t)
  <2>1. PICK n \in Nat : n = Len(t)
    OBVIOUS
  <2>2. IsFiniteSet(1..n) /\ Cardinality(1..n) = n
    BY FS_Interval
  <2> QED
    BY <2>1, <2>2
<1>6. Cardinality(1..Len(t)) <= Cardinality(1..NumVars)
  BY <1>3, <1>4, FS_Injection
<1> QED
  BY <1>4, <1>5, <1>6

-----------------------------------------------------------------------------
(* The inductive invariant *)

qn == pInferenceQueueNextElt

On(w) == [p \in Lemma |-> nWatched[p][w]]

StateOk ==
  /\ arrLits \in Contents /\ cached \subseteq Lemma
  /\ nWatched \in [Lemma -> [Watch -> Literal \cup {NULL}]]
  /\ idx \in Watch /\ previous \in Node \cup {NULL}
  /\ pc \in {"dequeue", "visit", "functions", "conflict", "unit"}

ListsOk == lists \in [Watch -> ListType] /\ \A w \in Watch : Well(lists[w], On(w))

TrailOk == trail \in Seq(Literal) /\ Consistent(trail) /\ qn \in 0..Len(trail)

(* Choice points are on the trail in order, all but the newest dequeued.   *)
LevelsOk ==
  /\ levels \in Seq(Nat) /\ \A k \in DOMAIN levels : levels[k] \in DOMAIN trail
  /\ \A j, k \in DOMAIN levels : j < k => levels[j] < levels[k]
  /\ \A k \in DOMAIN levels : levels[k] <= qn + (IF pc = "dequeue" THEN 1 ELSE 0)
  /\ nFlipped \in 0..Len(trail)
  /\ pc = "unit" => nFlipped = qn + 1

(* Whatever unassigns the literal at i unassigns the one at j.             *)
Covers(p, i, j) ==
  trail[i] \in Range(arrLits[p]) /\ \A k \in DOMAIN levels : levels[k] <= i => levels[k] <= j

Covered(p, j) == \E i \in DOMAIN trail : Covers(p, i, j)

HandledAt(j) == j <= qn /\ (j = qn => pc \notin {"visit", "conflict"})

WatchesOk ==
  /\ \A p \in cached : /\ nWatched[p][0] # nWatched[p][1]
                       /\ \A w \in Watch : nWatched[p][w] \in Range(arrLits[p])
  /\ \A p \in Lemma \ cached, w \in Watch : nWatched[p][w] = NULL

(* A cached lemma with a false watch is satisfied, or is yet to be visited.*)
CoverOk ==
  \A p \in cached, w \in Watch, j \in DOMAIN trail :
    nWatched[p][w] = -trail[j] /\ HandledAt(j) => Covered(p, j)

(* D is what the loop has passed of the list: its head and satisfied       *)
(* lemmas, up to the previous one.                                         *)
Passed(D) ==
  /\ Falsified \in D /\ previous \in D
  /\ \A n \in D : n = Falsified \/ (/\ n \in Lemma /\ nWatched[n][idx] = Falsified
                                    /\ lists[idx].prev[n] \in D /\ Covered(n, qn))
  /\ \A n \in D : lists[idx].next[n] \in D <=> n # previous

VisitOk ==
  pc = "visit" =>
    /\ qn > 0
    /\ \E D \in SUBSET Node : Passed(D)
    /\ idx = 1 => \A p \in cached : nWatched[p][0] = Falsified => Covered(p, qn)

IInv == StateOk /\ ListsOk /\ TrailOk /\ LevelsOk /\ WatchesOk /\ CoverOk /\ VisitOk

LEMMA Initially == Init => IInv
<1> SUFFICES ASSUME Init PROVE IInv
  OBVIOUS
<1>1. StateOk
  BY DEF Init, StateOk, Watch, NULL
<1>2. TrailOk /\ LevelsOk
  BY DEF Init, TrailOk, LevelsOk, Consistent, qn
<1>3. WatchesOk /\ CoverOk /\ VisitOk
  BY DEF Init, WatchesOk, CoverOk, VisitOk, NULL, Watch
<1>4. ASSUME NEW w \in Watch
      PROVE  lists[w] \in ListType /\ Linked(lists[w].next, lists[w].prev, lists[w].tail, On(w))
  <2>1. /\ lists[w].next = [n \in Node |-> NULL]
        /\ lists[w].prev = [p \in Lemma |-> NULL]
        /\ lists[w].tail = [l \in Literal |-> l]
    BY DEF Init
  <2>2. lists[w] \in ListType
    BY Nodes DEF Init, ListType, NextType, PrevType, TailType
  <2>3. \A p \in Lemma : On(w)[p] = NULL
    BY DEF Init, On, NULL
  <2> QED
    BY <2>1, <2>2, <2>3, Nodes DEF Linked, OnList
<1>5. ListsOk
  BY <1>4 DEF ListsOk, Well, Init
<1> QED
  BY <1>1, <1>2, <1>3, <1>5 DEF IInv

(* What the properties' type invariant asks.                               *)
LEMMA TypesFollow == IInv => TypeOK
<1> SUFFICES ASSUME IInv PROVE TypeOK
  OBVIOUS
<1> USE DEF IInv
<1>1. Len(trail) <= NumVars /\ Len(trail) \in Nat /\ \A i \in DOMAIN trail : trail[i] \in Literal
  BY TrailFits DEF TrailOk
<1>2. \A k \in DOMAIN levels : levels[k] \in DOMAIN trail
  BY DEF LevelsOk, TrailOk
<1>3. lists \in [Watch -> [next : [Node -> Lemma \cup {NULL}],
                          prev : [Lemma -> Node \cup {NULL}],
                          tail : [Literal -> Node]]]
  BY DEF ListsOk, ListType, NextType, PrevType, TailType
<1>4. nFlipped \in 0..NumVars
  BY <1>1, WatchedLitsAssumption DEF LevelsOk
<1> QED
  BY <1>1, <1>2, <1>3, <1>4 DEF TypeOK, StateOk, TrailOk, NULL, qn

-----------------------------------------------------------------------------
(* Steps that put a literal on the trail *)

LEMMA Grow ==
  ASSUME StateOk, TrailOk, LevelsOk, CoverOk,
         NEW l \in Literal, Unknown(l), trail' = Append(trail, l),
         \/ levels' = levels
         \/ levels' = Append(levels, Len(trail) + 1),
         UNCHANGED <<arrLits, cached, nWatched, pInferenceQueueNextElt, pc>>
  PROVE  /\ TrailOk' /\ CoverOk'
         /\ Len(trail') = Len(trail) + 1 /\ trail'[Len(trail) + 1] = l
         /\ DOMAIN trail' = 1..(Len(trail) + 1)
         /\ DOMAIN trail = 1..Len(trail) /\ Len(trail) \in Nat /\ qn \in 0..Len(trail)
         /\ \A i \in DOMAIN trail : trail'[i] = trail[i]
         /\ \A p \in Lemma, j \in DOMAIN trail : Covered(p, j) => Covered(p, j)'
<1>1. \A i \in DOMAIN trail : trail[i] # l /\ trail[i] # -l
  BY DEF Unknown, False, True
<1>2. /\ trail' \in Seq(Literal) /\ Consistent(trail')
      /\ Len(trail') = Len(trail) + 1
      /\ DOMAIN trail' = 1..(Len(trail) + 1) /\ trail'[Len(trail) + 1] = l
      /\ DOMAIN trail = 1..Len(trail) /\ Len(trail) \in Nat
      /\ \A i \in DOMAIN trail : trail'[i] = trail[i]
  BY <1>1, AppendLiteral DEF TrailOk
<1>3. TrailOk'
  BY <1>2 DEF TrailOk, qn
<1>4. ASSUME NEW p \in Lemma, NEW j \in DOMAIN trail, Covered(p, j)
      PROVE  Covered(p, j)'
  <2>1. PICK i \in DOMAIN trail : Covers(p, i, j)
    BY <1>4 DEF Covered
  <2>2. i \in DOMAIN trail' /\ trail'[i] \in Range(arrLits'[p])
    BY <1>2, <2>1 DEF Covers
  <2>3. ASSUME NEW k \in DOMAIN levels', levels'[k] <= i PROVE levels'[k] <= j
    <3>1. CASE levels' = levels
      BY <2>1, <2>3, <3>1 DEF Covers
    <3>2. CASE levels' = Append(levels, Len(trail) + 1)
      <4>1. /\ k \in 1..(Len(levels) + 1) /\ Len(levels) \in Nat /\ DOMAIN levels = 1..Len(levels)
            /\ levels'[Len(levels) + 1] = Len(trail) + 1
            /\ \A m \in 1..Len(levels) : levels'[m] = levels[m]
        BY <3>2 DEF LevelsOk
      <4>2. k # Len(levels) + 1
        BY <1>2, <2>3, <4>1
      <4>3. k \in DOMAIN levels /\ levels'[k] = levels[k]
        BY <4>1, <4>2
      <4> QED
        BY <2>1, <2>3, <4>3 DEF Covers
    <3> QED
      BY <3>1, <3>2
  <2> QED
    BY <2>2, <2>3 DEF Covered, Covers
<1>5. CoverOk'
  <2> SUFFICES ASSUME NEW p \in cached, NEW w \in Watch, NEW j \in DOMAIN trail',
                      nWatched[p][w] = -trail'[j], HandledAt(j), p \in Lemma
               PROVE  Covered(p, j)'
    BY DEF CoverOk, HandledAt, qn, StateOk
  <2>1. j \in DOMAIN trail
    BY <1>2 DEF HandledAt, TrailOk
  <2> QED
    BY <1>2, <1>4, <2>1 DEF CoverOk
<1> QED
  BY <1>2, <1>3, <1>4, <1>5 DEF TrailOk

LEMMA LevelsKept ==
  ASSUME TrailOk, LevelsOk, Len(trail') >= Len(trail), Len(trail') \in Nat,
         DOMAIN trail' = 1..Len(trail'), levels' = levels,
         UNCHANGED <<pInferenceQueueNextElt, nFlipped, pc>>
  PROVE  LevelsOk'
<1>1. DOMAIN trail = 1..Len(trail) /\ Len(trail) \in Nat
  BY DEF TrailOk
<1> QED
  BY <1>1 DEF LevelsOk, qn

LEMMA ListsKept ==
  ASSUME ListsOk, UNCHANGED <<lists, nWatched>>
  PROVE  ListsOk'
BY DEF ListsOk, On

LEMMA WatchesKept ==
  ASSUME WatchesOk, UNCHANGED <<arrLits, cached, nWatched>>
  PROVE  WatchesOk'
BY DEF WatchesOk

(* A function or a unit lemma infers.                                      *)
LEMMA StepInfers ==
  ASSUME IInv, NEW l \in Literal, FunctionInfers(l) \/ UnitInfers(l)
  PROVE  IInv'
<1>1. /\ pc # "visit" /\ Unknown(l) /\ trail' = Append(trail, l)
      /\ UNCHANGED <<arrLits, levels, pInferenceQueueNextElt, cached, nWatched, lists,
                     idx, previous, nFlipped, pc>>
  BY DEF FunctionInfers, UnitInfers, listVars, loopVars
<1>2. TrailOk' /\ CoverOk' /\ Len(trail') = Len(trail) + 1 /\ DOMAIN trail' = 1..(Len(trail) + 1)
      /\ Len(trail) \in Nat
  BY <1>1, Grow DEF IInv
<1>3. LevelsOk'
  BY <1>1, <1>2, LevelsKept DEF IInv
<1>4. StateOk' /\ VisitOk'
  BY <1>1 DEF IInv, StateOk, VisitOk
<1> QED
  BY <1>1, <1>2, <1>3, <1>4, ListsKept, WatchesKept DEF IInv

LEMMA StepSelect ==
  ASSUME IInv, NEW l \in Literal, SelectNewBranchPoint(l)
  PROVE  IInv'
<1>1. /\ pc = "dequeue" /\ qn = Len(trail) /\ Unknown(l) /\ trail' = Append(trail, l)
      /\ levels' = Append(levels, Len(trail) + 1)
      /\ UNCHANGED <<arrLits, pInferenceQueueNextElt, cached, nWatched, lists,
                     idx, previous, nFlipped, pc>>
  BY DEF SelectNewBranchPoint, Deduced, listVars, loopVars, qn
<1>2. TrailOk' /\ CoverOk' /\ Len(trail') = Len(trail) + 1 /\ DOMAIN trail' = 1..(Len(trail) + 1)
      /\ Len(trail) \in Nat /\ DOMAIN trail = 1..Len(trail)
  BY <1>1, Grow DEF IInv
<1>3. /\ levels' \in Seq(Nat) /\ DOMAIN levels' = 1..(Len(levels) + 1)
      /\ levels'[Len(levels) + 1] = Len(trail) + 1
      /\ \A k \in DOMAIN levels : levels'[k] = levels[k]
      /\ DOMAIN levels = 1..Len(levels) /\ Len(levels) \in Nat
  BY <1>1, <1>2 DEF IInv, LevelsOk
<1>4. \A k \in DOMAIN levels : levels[k] \in 1..Len(trail)
  BY <1>2 DEF IInv, LevelsOk
<1>5. \A k \in DOMAIN levels' :
        levels'[k] \in 1..(Len(trail) + 1) /\ (k # Len(levels) + 1 => k \in DOMAIN levels)
  BY <1>2, <1>3, <1>4
<1>6. \A j, k \in DOMAIN levels' : j < k => levels'[j] < levels'[k]
  <2> SUFFICES ASSUME NEW j \in DOMAIN levels', NEW k \in DOMAIN levels', j < k
               PROVE  levels'[j] < levels'[k]
    OBVIOUS
  <2>1. j \in DOMAIN levels
    BY <1>3, <1>5
  <2>2. CASE k = Len(levels) + 1
    BY <1>2, <1>3, <1>4, <2>1, <2>2
  <2>3. CASE k # Len(levels) + 1
    BY <1>3, <1>5, <2>1, <2>3 DEF IInv, LevelsOk
  <2> QED
    BY <2>2, <2>3
<1>7. LevelsOk'
  BY <1>1, <1>2, <1>3, <1>5, <1>6 DEF IInv, LevelsOk, qn
<1>8. StateOk' /\ VisitOk'
  BY <1>1 DEF IInv, StateOk, VisitOk
<1> QED
  BY <1>1, <1>2, <1>7, <1>8, ListsKept, WatchesKept DEF IInv

-----------------------------------------------------------------------------
(* BackTrack and the cache *)

LEMMA StepBackTrack ==
  ASSUME IInv, NEW k \in DOMAIN levels, BackTrack(k)
  PROVE  IInv'
<1>1. /\ pc = "conflict" /\ pc' = "unit" /\ idx' = 0 /\ previous' = NULL
      /\ trail' = Append(SubSeq(trail, 1, levels[k] - 1), -trail[levels[k]])
      /\ levels' = SubSeq(levels, 1, k - 1)
      /\ qn' = levels[k] - 1 /\ nFlipped' = levels[k]
      /\ UNCHANGED <<arrLits, cached, nWatched, lists>>
  BY DEF BackTrack, listVars, qn
<1>2. PICK n \in Nat, l \in Literal : n = levels[k] - 1 /\ l = -trail[levels[k]]
                                     /\ n < qn /\ n < Len(trail) /\ l = -trail[n + 1]
  <2>1. levels[k] \in 1..Len(trail) /\ levels[k] <= qn
    BY <1>1 DEF IInv, LevelsOk, TrailOk
  <2>2. -trail[levels[k]] \in Literal
    BY <2>1, Nodes DEF IInv, TrailOk
  <2> QED
    BY <2>1, <2>2 DEF IInv, TrailOk
<1>3. PICK cut : cut = SubSeq(trail, 1, n)
  OBVIOUS
<1>4. /\ cut \in Seq(Literal) /\ Consistent(cut) /\ Len(cut) = n /\ DOMAIN cut = 1..n
      /\ \A i \in 1..n : cut[i] = trail[i] /\ i \in DOMAIN trail
      /\ n + 1 \in DOMAIN trail
  BY <1>2, <1>3, CutTrail DEF IInv, TrailOk
<1>5. \A i \in DOMAIN cut : cut[i] # l /\ cut[i] # -l
  <2> SUFFICES ASSUME NEW i \in 1..n, trail[i] = l \/ trail[i] = -l PROVE FALSE
    BY <1>4
  <2>1. trail[n + 1] \in Int /\ l = -trail[n + 1]
    BY <1>2, <1>4 DEF IInv, TrailOk, Literal
  <2>2. trail[i] \in {trail[n + 1], -trail[n + 1]}
    BY <2>1
  <2>3. i = n + 1
    BY <1>4, <2>2 DEF IInv, TrailOk, Consistent
  <2> QED
    BY <2>3
<1>6. /\ trail' \in Seq(Literal) /\ Consistent(trail') /\ Len(trail') = n + 1
      /\ DOMAIN trail' = 1..(n + 1)
      /\ \A i \in 1..n : trail'[i] = trail[i]
  <2>1. trail' = Append(cut, l)
    BY <1>1, <1>2, <1>3
  <2> QED
    BY <1>4, <1>5, <2>1, AppendLiteral
<1>7. TrailOk'
  BY <1>1, <1>2, <1>6 DEF TrailOk
<1>8. /\ levels' \in Seq(Nat) /\ DOMAIN levels' = 1..(k - 1)
      /\ \A m \in 1..(k - 1) : levels'[m] = levels[m] /\ m \in DOMAIN levels
      /\ \A m \in 1..(k - 1) : m < k /\ levels[m] \in 1..n
  <2>1. levels \in Seq(Nat) /\ k \in 1..Len(levels) /\ Len(levels) \in Nat
    BY DEF IInv, LevelsOk
  <2>2. /\ levels' \in Seq(Nat) /\ DOMAIN levels' = 1..(k - 1)
        /\ \A m \in 1..(k - 1) : levels'[m] = levels[m] /\ m \in DOMAIN levels /\ m < k
    <3>1. PICK h \in 0..Len(levels) : h = k - 1
      BY <2>1
    <3>2. levels' = SubSeq(levels, 1, h)
      BY <1>1, <3>1
    <3>3. /\ levels' \in Seq(Nat) /\ DOMAIN levels' = 1..h
          /\ \A m \in 1..h : levels'[m] = levels[m] /\ m \in DOMAIN levels
      BY <2>1, <3>2
    <3>4. \A m \in 1..h : m < k
      BY <2>1, <3>1
    <3> QED
      BY <3>1, <3>3, <3>4
  <2>3. ASSUME NEW m \in 1..(k - 1) PROVE levels[m] \in 1..n
    <3>1. levels[m] < levels[k] /\ levels[m] \in DOMAIN trail /\ levels[k] \in DOMAIN trail
      BY <2>2 DEF IInv, LevelsOk
    <3> QED
      BY <1>2, <3>1 DEF IInv, TrailOk
  <2> QED
    BY <2>2, <2>3
<1>9. LevelsOk'
  <2>1. \A i, j \in DOMAIN levels' : i < j => levels'[i] < levels'[j]
    BY <1>8 DEF IInv, LevelsOk
  <2>2. \A i \in DOMAIN levels' : levels'[i] \in DOMAIN trail' /\ levels'[i] <= qn'
    BY <1>1, <1>2, <1>6, <1>8
  <2>3. nFlipped' = n + 1 /\ qn' = n
    BY <1>1, <1>2 DEF IInv, LevelsOk, TrailOk
  <2> QED
    BY <1>1, <1>2, <1>6, <1>8, <2>1, <2>2, <2>3 DEF LevelsOk
<1>10. CoverOk'
  <2> SUFFICES ASSUME NEW p \in cached, NEW w \in Watch, NEW j \in DOMAIN trail',
                      nWatched[p][w] = -trail'[j], HandledAt(j)'
               PROVE  Covered(p, j)'
    BY <1>1 DEF CoverOk
  <2>1. j \in 1..n
    BY <1>1, <1>2, <1>6 DEF HandledAt
  <2>2. Covered(p, j)
    <3>1. HandledAt(j)
      BY <1>2, <2>1 DEF HandledAt, IInv, TrailOk
    <3> QED
      BY <1>4, <1>6, <2>1, <3>1 DEF IInv, CoverOk
  <2>3. PICK i \in DOMAIN trail : Covers(p, i, j)
    BY <2>2 DEF Covered
  <2>4. i \in 1..n
    <3>1. levels[k] <= i => levels[k] <= j
      BY <2>3 DEF Covers
    <3>2. i \in Nat /\ i > 0 /\ levels[k] = n + 1
      BY <1>2 DEF IInv, TrailOk, LevelsOk
    <3> QED
      BY <2>1, <3>1, <3>2
  <2>5. Covers(p, i, j)'
    BY <1>1, <1>6, <1>8, <2>3, <2>4 DEF Covers
  <2> QED
    BY <1>6, <2>4, <2>5 DEF Covered
<1>11. StateOk' /\ VisitOk'
  BY <1>1 DEF IInv, StateOk, VisitOk, Watch
<1> QED
  BY <1>1, <1>7, <1>9, <1>10, <1>11, ListsKept, WatchesKept DEF IInv

(* Steps of the cache leave the trail alone.                               *)
LEMMA TrailKept ==
  ASSUME TrailOk, LevelsOk, UNCHANGED <<trail, levels, pInferenceQueueNextElt, nFlipped, pc>>
  PROVE  TrailOk' /\ LevelsOk'
BY DEF TrailOk, LevelsOk, qn

LEMMA StepFree ==
  ASSUME IInv, NEW p \in Lemma, FreeLemma(p)
  PROVE  IInv'
<1>1. /\ pc = "unit" /\ p \in cached /\ cached' = cached \ {p}
      /\ lists' = RemoveLemmaFromWatchedLits(p)
      /\ nWatched' = [nWatched EXCEPT ![p] = [w \in Watch |-> NULL]]
      /\ UNCHANGED <<arrLits, trail, levels, pInferenceQueueNextElt, idx, previous, nFlipped, pc>>
  BY DEF FreeLemma, trailVars, loopVars, NULL
<1>2. /\ nWatched' \in [Lemma -> [Watch -> Literal \cup {NULL}]]
      /\ \A q \in Lemma : q # p => nWatched'[q] = nWatched[q]
      /\ \A w \in Watch : nWatched'[p][w] = NULL
  BY <1>1 DEF IInv, StateOk
<1>3. StateOk' /\ VisitOk'
  BY <1>1, <1>2 DEF IInv, StateOk, VisitOk
<1>4. ASSUME NEW w \in Watch
      PROVE  Well(lists'[w], On(w)')
  <2>1. Well(lists[w], On(w)) /\ On(w) \in OnType
    BY DEF IInv, ListsOk, On, OnType, StateOk
  <2>2. PICK l \in Literal : l = nWatched[p][w] /\ On(w)[p] = l
    <3>1. arrLits[p] \in Seq(Literal)
      BY WatchedLitsAssumption DEF IInv, StateOk
    <3>2. nWatched[p][w] \in Range(arrLits[p])
      BY <1>1 DEF IInv, WatchesOk
    <3> QED
      BY <3>1, <3>2 DEF On, Range
  <2>3. Placed(On(w), p, NULL, On(w)')
    BY <1>2, <2>1 DEF Placed, On, OnType
  <2>4. lists[w] \in ListType /\ lists[w].prev[p] \in Node
    <3>1. lists[w] \in ListType /\ Linked(lists[w].next, lists[w].prev, lists[w].tail, On(w))
      BY <2>1 DEF Well
    <3>2. lists[w].next \in NextType /\ lists[w].prev \in PrevType /\ lists[w].tail \in TailType
      BY <3>1 DEF ListType
    <3>3. On(w)[p] # NULL
      BY <2>2, Nodes
    <3> QED
      BY <2>1, <3>1, <3>2, <3>3, Neighbours
  <2>5. PICK u : u = Unlink(lists[w], lists[w].prev[p], p, l)
    OBVIOUS
  <2>6. Well(u, On(w)')
    <3>1. TakenOut(lists[w], p, l, u)
      BY <2>4, <2>5, UnlinkTakesOut
    <3> QED
      BY <2>1, <2>2, <2>3, <3>1, TakeOutWell
  <2>7. PICK r : r = [u EXCEPT !.next[p] = NULL, !.prev[p] = NULL]
    OBVIOUS
  <2>8. lists'[w] = r
    BY <1>1, <2>2, <2>5, <2>7 DEF RemoveLemmaFromWatchedLits
  <2>9. On(w)' \in OnType /\ On(w)'[p] = NULL
    BY <2>3 DEF Placed
  <2>10. Well(r, On(w)')
    BY <2>6, <2>7, <2>9, ResetWell
  <2> QED
    BY <2>8, <2>10
<1>5. ListsOk'
  <2>1. lists' = [w \in Watch |-> lists'[w]]
    BY <1>1 DEF RemoveLemmaFromWatchedLits
  <2> QED
    BY <1>4, <2>1 DEF ListsOk, Well
<1>6. WatchesOk'
  BY <1>1, <1>2 DEF IInv, WatchesOk, StateOk
<1>7. CoverOk'
  <2> SUFFICES ASSUME NEW q \in cached', NEW w \in Watch, NEW j \in DOMAIN trail',
                      nWatched'[q][w] = -trail'[j], HandledAt(j)'
               PROVE  Covered(q, j)'
    BY DEF CoverOk
  <2>1. q \in cached /\ nWatched'[q] = nWatched[q] /\ HandledAt(j)
    BY <1>1, <1>2 DEF IInv, StateOk, HandledAt, qn
  <2>2. Covered(q, j)
    BY <1>1, <2>1 DEF IInv, CoverOk
  <2> QED
    BY <1>1, <2>2 DEF Covered, Covers
<1> QED
  BY <1>1, <1>3, <1>5, <1>6, <1>7, TrailKept DEF IInv

(* The new watches are not false yet among what deduction has handled.     *)
LEMMA StepAdd ==
  ASSUME IInv, NEW p \in Lemma, NEW ws \in [Watch -> Literal], AddLemmaIntoCache(p, ws)
  PROVE  IInv'
<1>1. /\ pc = "unit" /\ p \notin cached /\ cached' = cached \cup {p}
      /\ ws[0] # ws[1] /\ \A w \in Watch : ws[w] \in Range(arrLits[p]) /\ NotSetBeforeFlip(ws[w])
      /\ lists' = AddLemmaIntoWatchedLits(p, ws)
      /\ nWatched' = [nWatched EXCEPT ![p] = ws]
      /\ UNCHANGED <<arrLits, trail, levels, pInferenceQueueNextElt, idx, previous, nFlipped, pc>>
  BY DEF AddLemmaIntoCache, trailVars, loopVars
<1>2. /\ nWatched' \in [Lemma -> [Watch -> Literal \cup {NULL}]]
      /\ \A q \in Lemma : q # p => nWatched'[q] = nWatched[q]
      /\ nWatched'[p] = ws
  BY <1>1 DEF IInv, StateOk
<1>3. StateOk' /\ VisitOk'
  BY <1>1, <1>2 DEF IInv, StateOk, VisitOk
<1>4. ASSUME NEW w \in Watch
      PROVE  Well(lists'[w], On(w)')
  <2>1. Well(lists[w], On(w)) /\ On(w) \in OnType
    BY DEF IInv, ListsOk, On, OnType, StateOk
  <2>2. PICK l \in Literal : l = ws[w]
    OBVIOUS
  <2>3. On(w)[p] = NULL
    BY <1>1 DEF On, IInv, WatchesOk
  <2>4. Placed(On(w), p, l, On(w)')
    BY <1>2, <2>1, <2>2 DEF Placed, On, OnType
  <2>5. lists[w] \in ListType /\ lists[w].next[l] # p
    <3>1. lists[w] \in ListType /\ Linked(lists[w].next, lists[w].prev, lists[w].tail, On(w))
      BY <2>1 DEF Well
    <3>2. lists[w].next[l] # NULL => On(w)[lists[w].next[l]] = l
      BY <3>1, Nodes DEF Linked, OnList
    <3> QED
      BY <2>3, <3>1, <3>2, Nodes
  <2>6. PICK r : r = LinkFront(lists[w], p, l)
    OBVIOUS
  <2>7. PutFirst(lists[w], p, l, r)
    BY <2>5, <2>6, LinkFrontPutsFirst
  <2>8. Well(r, On(w)')
    BY <2>1, <2>3, <2>4, <2>7, PutFirstWell
  <2>9. lists'[w] = r
    BY <1>1, <2>2, <2>6 DEF AddLemmaIntoWatchedLits
  <2> QED
    BY <2>8, <2>9
<1>5. ListsOk'
  <2>1. lists' = [w \in Watch |-> lists'[w]]
    BY <1>1 DEF AddLemmaIntoWatchedLits
  <2> QED
    BY <1>4, <2>1 DEF ListsOk, Well
<1>6. WatchesOk'
  BY <1>1, <1>2 DEF IInv, WatchesOk, StateOk
<1>7. CoverOk'
  <2> SUFFICES ASSUME NEW q \in cached', NEW w \in Watch, NEW j \in DOMAIN trail',
                      nWatched'[q][w] = -trail'[j], HandledAt(j)'
               PROVE  Covered(q, j)'
    BY DEF CoverOk
  <2>1. j \in DOMAIN trail /\ trail[j] \in Literal /\ HandledAt(j) /\ nWatched'[q][w] = -trail[j]
    BY <1>1 DEF IInv, TrailOk, HandledAt, qn
  <2>2. q # p
    <3> SUFFICES ASSUME q = p PROVE FALSE
      OBVIOUS
    <3>1. ws[w] = -trail[j] /\ NotSetBeforeFlip(ws[w])
      BY <1>1, <1>2, <2>1
    <3>2. -ws[w] = trail[j]
      BY <2>1, <3>1 DEF Literal
    <3>3. j >= nFlipped
      BY <2>1, <3>1, <3>2 DEF NotSetBeforeFlip
    <3> QED
      BY <1>1, <2>1, <3>3 DEF HandledAt, IInv, LevelsOk, TrailOk
  <2>3. q \in cached /\ nWatched'[q] = nWatched[q]
    BY <1>1, <1>2, <2>2 DEF IInv, StateOk
  <2>4. Covered(q, j)
    BY <1>1, <2>1, <2>3 DEF IInv, CoverOk
  <2> QED
    BY <1>1, <2>4 DEF Covered, Covers
<1> QED
  BY <1>1, <1>3, <1>5, <1>6, <1>7, TrailKept DEF IInv

-----------------------------------------------------------------------------
(* UpdateEachAffectedLemma *)

(* The head of a list is a literal, on no list.                            *)
LEMMA Heads ==
  ASSUME IInv, NEW w \in Watch, NEW l \in Literal
  PROVE  lists[w].next[l] \in Lemma \cup {NULL} /\ lists[w].next[l] # l /\ l # NULL
<1>1. lists[w].next \in NextType
  BY DEF IInv, ListsOk, ListType
<1> QED
  BY <1>1, Nodes DEF NextType

LEMMA StepDequeue ==
  ASSUME IInv, Dequeue
  PROVE  IInv'
<1>1. /\ pc = "dequeue" /\ qn < Len(trail) /\ qn' = qn + 1 /\ idx' = 0
      /\ previous' = -trail[qn + 1] /\ pc' = "visit"
      /\ UNCHANGED <<arrLits, trail, levels, cached, nWatched, lists, nFlipped>>
  BY DEF Dequeue, listVars, qn
<1>2. qn \in Nat /\ Len(trail) \in Nat /\ trail[qn + 1] \in Literal /\ qn + 1 \in DOMAIN trail
  BY <1>1 DEF IInv, TrailOk
<1>3. TrailOk' /\ LevelsOk'
  BY <1>1, <1>2 DEF IInv, TrailOk, LevelsOk
<1>4. PICK l \in Literal : l = -trail[qn + 1] /\ l = Falsified' /\ l = previous'
  BY <1>1, <1>2, Nodes DEF Falsified, qn
<1>5. StateOk'
  BY <1>1, <1>4, Nodes DEF IInv, StateOk, Watch
<1>6. CoverOk'
  <2> SUFFICES ASSUME NEW p \in cached, NEW w \in Watch, NEW j \in DOMAIN trail,
                      nWatched[p][w] = -trail[j], HandledAt(j)'
               PROVE  Covered(p, j)'
    BY <1>1 DEF CoverOk
  <2>1. HandledAt(j)
    BY <1>1, <1>2 DEF HandledAt, IInv, TrailOk
  <2> QED
    BY <1>1, <2>1 DEF IInv, CoverOk, Covered, Covers
<1>7. VisitOk'
  <2>1. Passed({l})'
    <3>1. lists'[idx'].next[l] \notin {l}
      BY <1>1, <1>4, Heads, Nodes DEF Watch
    <3> QED
      BY <1>4, <3>1 DEF Passed
  <2> QED
    BY <1>1, <1>2, <1>4, <2>1, Nodes DEF VisitOk
<1> QED
  BY <1>1, <1>3, <1>5, <1>6, <1>7, ListsKept, WatchesKept DEF IInv

(* The lists that were gone through hold only satisfied lemmas.            *)
LEMMA ListPassed ==
  ASSUME IInv, pc = "visit", pLemmaListDisagreed = NULL,
         NEW p \in Lemma, nWatched[p][idx] = Falsified
  PROVE  Covered(p, qn)
<1>1. PICK D \in SUBSET Node : Passed(D)
  BY DEF IInv, VisitOk
<1>2. PICK l \in Literal : l = Falsified
  BY Nodes DEF IInv, VisitOk, TrailOk, Falsified, qn
<1>3. idx \in Watch /\ Well(lists[idx], On(idx))
  BY DEF IInv, StateOk, ListsOk
<1>4. Linked(lists[idx].next, lists[idx].prev, lists[idx].tail, On(idx))
  BY <1>3 DEF Well
<1>5. PICK C : C = {q \in Lemma : On(idx)[q] = l /\ q \notin D}
  OBVIOUS
<1>6. ASSUME NEW q \in C PROVE lists[idx].prev[q] \in C
  <2>1. q \in Lemma /\ On(idx)[q] = l /\ q \notin D /\ l # NULL
    BY <1>5, Nodes
  <2>2. PICK b : b = lists[idx].prev[q]
    OBVIOUS
  <2>3. OnList(b, l, On(idx)) /\ lists[idx].next[b] = q
    BY <1>4, <2>1, <2>2 DEF Linked
  <2>4. b \notin D
    <3> SUFFICES ASSUME b \in D PROVE FALSE
      OBVIOUS
    <3>1. b = previous
      BY <1>1, <2>1, <2>3 DEF Passed
    <3> QED
      BY <2>1, <2>3, <3>1, Nodes DEF pLemmaListDisagreed
  <2>5. l \in D
    BY <1>1, <1>2 DEF Passed
  <2> QED
    BY <1>5, <2>2, <2>3, <2>4, <2>5 DEF OnList
<1>7. C = {}
  <2>1. C \in SUBSET {q \in Lemma : On(idx)[q] # NULL}
    BY <1>5, Nodes
  <2> QED
    BY <1>4, <1>6, <2>1 DEF Linked
<1>8. p \in D
  BY <1>2, <1>5, <1>7 DEF On
<1> QED
  BY <1>1, <1>2, <1>8, Nodes DEF Passed

LEMMA StepEndOfList ==
  ASSUME IInv, EndOfList
  PROVE  IInv'
<1>1. /\ pc = "visit" /\ pLemmaListDisagreed = NULL
      /\ UNCHANGED <<arrLits, trail, levels, pInferenceQueueNextElt, cached, nWatched, lists, nFlipped>>
  BY DEF EndOfList, trailVars, listVars
<1>2. PICK l \in Literal : l = Falsified /\ l = -trail[qn] /\ qn \in DOMAIN trail
  BY <1>1, Nodes DEF IInv, VisitOk, TrailOk, Falsified, qn
<1>3. \A p \in cached : nWatched[p][idx] = Falsified => Covered(p, qn)
  BY <1>1, ListPassed DEF IInv, StateOk
<1>4. TrailOk'
  BY <1>1 DEF IInv, TrailOk, qn
<1>5. CASE idx = 1
  <2>1. idx' = 0 /\ previous' = NULL /\ pc' = "functions"
    BY <1>5 DEF EndOfList, LastList
  <2>2. StateOk' /\ VisitOk' /\ LevelsOk'
    BY <1>1, <2>1 DEF IInv, StateOk, VisitOk, LevelsOk, Watch, qn
  <2>3. \A p \in cached, w \in Watch : nWatched[p][w] = Falsified => Covered(p, qn)
    BY <1>1, <1>3, <1>5 DEF IInv, VisitOk, Watch
  <2>4. CoverOk'
    <3> SUFFICES ASSUME NEW p \in cached, NEW w \in Watch, NEW j \in DOMAIN trail,
                        nWatched[p][w] = -trail[j], HandledAt(j)'
                 PROVE  Covered(p, j)'
      BY <1>1 DEF CoverOk
    <3>1. Covered(p, j)
      <4>1. CASE j = qn
        BY <1>2, <2>3, <4>1
      <4>2. CASE j # qn
        <5>1. HandledAt(j)
          BY <1>1, <4>2 DEF HandledAt, qn
        <5> QED
          BY <5>1 DEF IInv, CoverOk
      <4> QED
        BY <4>1, <4>2
    <3> QED
      BY <1>1, <3>1 DEF Covered, Covers
  <2> QED
    BY <1>1, <1>4, <2>2, <2>4, ListsKept, WatchesKept DEF IInv
<1>6. CASE idx = 0
  <2>1. idx' = 1 /\ previous' = l /\ pc' = pc
    BY <1>2, <1>6 DEF EndOfList, LastList
  <2>2. StateOk' /\ LevelsOk'
    BY <1>1, <2>1, Nodes DEF IInv, StateOk, LevelsOk, Watch, qn
  <2>3. VisitOk'
    <3>1. Falsified' = l
      BY <1>1, <1>2 DEF Falsified
    <3>2. lists'[idx'].next[l] \notin {l}
      BY <1>1, <2>1, Heads, Nodes DEF Watch
    <3>3. Passed({l})'
      BY <2>1, <3>1, <3>2 DEF Passed
    <3>4. \A p \in cached' : nWatched'[p][0] = Falsified' => Covered(p, qn)'
      BY <1>1, <1>2, <1>3, <1>6, <3>1 DEF Covered, Covers, qn
    <3> QED
      BY <1>1, <3>3, <3>4, Nodes DEF VisitOk, IInv, qn
  <2>4. CoverOk'
    BY <1>1, <2>1 DEF IInv, CoverOk, HandledAt, Covered, Covers, qn
  <2> QED
    BY <1>1, <1>4, <2>2, <2>3, <2>4, ListsKept, WatchesKept DEF IInv
<1> QED
  BY <1>5, <1>6 DEF IInv, StateOk, Watch

(* The other steps only go to another place in the code.                   *)
LEMMA StepElsewhere ==
  ASSUME IInv,
         UNCHANGED <<arrLits, trail, levels, pInferenceQueueNextElt, cached, nWatched, lists,
                     idx, previous>>,
         \/ pc' = "conflict" /\ nFlipped' = nFlipped /\ (pc = "dequeue" => Deduced)
         \/ pc = "functions" /\ pc' = "dequeue" /\ nFlipped' = nFlipped
         \/ pc = "unit" /\ pc' = "dequeue" /\ nFlipped' = 0
  PROVE  IInv'
<1>1. StateOk' /\ VisitOk' /\ TrailOk'
  BY DEF IInv, StateOk, VisitOk, TrailOk, qn
<1>2. LevelsOk'
  <2>1. /\ levels \in Seq(Nat) /\ \A k \in DOMAIN levels : levels[k] \in DOMAIN trail
        /\ \A j, k \in DOMAIN levels : j < k => levels[j] < levels[k]
        /\ nFlipped' \in 0..Len(trail)
    BY DEF IInv, LevelsOk, TrailOk
  <2>2. ASSUME NEW k \in DOMAIN levels
        PROVE  levels[k] <= qn + (IF pc' = "dequeue" THEN 1 ELSE 0)
    <3>1. levels[k] \in 1..Len(trail) /\ levels[k] <= qn + (IF pc = "dequeue" THEN 1 ELSE 0)
      BY DEF IInv, LevelsOk, TrailOk
    <3> QED
      BY <3>1 DEF Deduced, IInv, TrailOk, qn
  <2> QED
    BY <2>1, <2>2 DEF LevelsOk, qn
<1>3. CoverOk'
  <2> SUFFICES ASSUME NEW p \in cached, NEW w \in Watch, NEW j \in DOMAIN trail,
                      nWatched[p][w] = -trail[j], HandledAt(j)'
               PROVE  Covered(p, j)'
    BY DEF CoverOk
  <2>1. HandledAt(j)
    BY DEF HandledAt, qn
  <2> QED
    BY <2>1 DEF IInv, CoverOk, Covered, Covers
<1> QED
  BY <1>1, <1>2, <1>3, ListsKept, WatchesKept DEF IInv

(* The lemma visited comes after what was passed.                          *)
LEMMA Visited ==
  ASSUME IInv, NEW p \in Lemma, Visiting(p), NEW D \in SUBSET Node, Passed(D)
  PROVE  /\ p \in cached /\ p \notin D
         /\ nWatched[p][idx] = Falsified /\ Falsified \in Literal
         /\ lists[idx].prev[p] = previous /\ lists[idx].next[previous] = p
         /\ lists[idx].next[p] \notin D /\ lists[idx].next[p] # p
         /\ qn \in DOMAIN trail /\ Falsified = -trail[qn] /\ pc = "visit" /\ idx \in Watch
<1>1. /\ pc = "visit" /\ p # NULL /\ lists[idx].next[previous] = p /\ idx \in Watch
      /\ qn \in DOMAIN trail /\ Falsified = -trail[qn]
  BY DEF Visiting, pLemmaListDisagreed, IInv, StateOk, VisitOk, TrailOk, Falsified, qn
<1>2. PICK l \in Literal : l = Falsified
  BY <1>1, Nodes DEF IInv, TrailOk
<1>3. Well(lists[idx], On(idx)) /\ On(idx) \in OnType
  BY <1>1 DEF IInv, ListsOk, On, OnType, StateOk
<1>4. lists[idx] \in ListType /\ Linked(lists[idx].next, lists[idx].prev, lists[idx].tail, On(idx))
  BY <1>3 DEF Well
<1>5. lists[idx].next \in NextType /\ lists[idx].prev \in PrevType /\ lists[idx].tail \in TailType
  BY <1>4 DEF ListType
<1>6. OnList(previous, l, On(idx)) /\ previous \in D /\ previous \in Node
  BY <1>2, Nodes DEF Passed, OnList, On
<1>7. On(idx)[p] = l /\ lists[idx].prev[p] = previous
  BY <1>1, <1>4, <1>6 DEF Linked
<1>8. p \notin D
  BY <1>1, <1>6 DEF Passed
<1>9. nWatched[p][idx] = Falsified /\ p \in cached
  BY <1>1, <1>2, <1>7, Nodes DEF On, IInv, WatchesOk
<1>10. PICK q \in Lemma \cup {NULL} : q = lists[idx].next[p]
  BY <1>5, Nodes DEF NextType
<1>11. q # p /\ (q # NULL => lists[idx].prev[q] = p)
  BY <1>3, <1>4, <1>5, <1>7, <1>10, Neighbours, Nodes
<1>12. q \notin D
  BY <1>1, <1>2, <1>8, <1>10, <1>11, Nodes DEF Passed
<1> QED
  BY <1>1, <1>2, <1>7, <1>8, <1>9, <1>10, <1>11, <1>12

(* A lemma that stays where it is must be satisfied.                       *)
LEMMA StepPasses ==
  ASSUME IInv, NEW p \in Lemma, Visiting(p), previous' = p,
         StateOk', TrailOk', LevelsOk', CoverOk',
         DOMAIN trail \subseteq DOMAIN trail', \A i \in DOMAIN trail : trail'[i] = trail[i],
         \A q \in Lemma : Covered(q, qn) => Covered(q, qn)',
         Covered(p, qn)',
         UNCHANGED <<arrLits, pInferenceQueueNextElt, cached, nWatched, lists, idx, pc>>
  PROVE  IInv'
<1>1. PICK D \in SUBSET Node : Passed(D)
  BY DEF IInv, VisitOk, Visiting
<1>2. /\ p \in cached /\ p \notin D
      /\ nWatched[p][idx] = Falsified /\ Falsified \in Literal
      /\ lists[idx].prev[p] = previous /\ lists[idx].next[previous] = p
      /\ lists[idx].next[p] \notin D /\ lists[idx].next[p] # p
      /\ qn \in DOMAIN trail /\ Falsified = -trail[qn] /\ pc = "visit" /\ idx \in Watch
  BY <1>1, Visited
<1>3. Falsified' = Falsified
  BY <1>2 DEF Falsified, qn
<1>4. PICK E \in SUBSET Node : E = D \cup {p}
  BY Nodes
<1>5. Falsified' \in E /\ previous' \in E
  BY <1>1, <1>3, <1>4 DEF Passed
<1>6. ASSUME NEW n \in E, n # Falsified
      PROVE  n \in Lemma /\ nWatched[n][idx] = Falsified /\ lists[idx].prev[n] \in E /\ Covered(n, qn)'
  <2>1. CASE n = p
    BY <1>1, <1>2, <1>4, <2>1 DEF Passed
  <2>2. CASE n # p
    <3>1. n \in D
      BY <1>4, <2>2
    <3> QED
      BY <1>1, <1>4, <1>6, <3>1 DEF Passed
  <2> QED
    BY <2>1, <2>2
<1>7. ASSUME NEW n \in E
      PROVE  lists[idx].next[n] \in E <=> n # p
  <2>1. CASE n = p
    BY <1>2, <1>4, <2>1
  <2>2. CASE n = previous
    BY <1>1, <1>2, <1>4, <2>2 DEF Passed
  <2>3. CASE n # p /\ n # previous
    <3>1. n \in D
      BY <1>4, <2>3
    <3> QED
      BY <1>1, <1>4, <2>3, <3>1 DEF Passed
  <2> QED
    BY <2>1, <2>2, <2>3
<1>8. Passed(E)'
  BY <1>3, <1>5, <1>6, <1>7 DEF Passed, qn
<1>9. VisitOk'
  <2>1. qn' > 0 /\ \E F \in SUBSET Node : Passed(F)'
    BY <1>2, <1>4, <1>8 DEF qn, IInv, VisitOk
  <2>2. idx' = 1 => \A q \in cached' : nWatched'[q][0] = Falsified' => Covered(q, qn)'
    BY <1>2, <1>3 DEF IInv, VisitOk, StateOk
  <2> QED
    BY <2>1, <2>2 DEF VisitOk, qn
<1> QED
  BY <1>9, ListsKept, WatchesKept DEF IInv

LEMMA StepVisitSatisfied ==
  ASSUME IInv, NEW p \in Lemma, VisitSatisfied(p)
  PROVE  IInv'
<1>1. /\ Visiting(p) /\ True(Other(p)) /\ previous' = p
      /\ UNCHANGED <<arrLits, trail, levels, pInferenceQueueNextElt, cached, nWatched, lists,
                     idx, nFlipped, pc>>
  BY DEF VisitSatisfied, trailVars, listVars
<1>2. PICK D \in SUBSET Node : Passed(D)
  BY <1>1 DEF IInv, VisitOk, Visiting
<1>3. p \in cached /\ qn \in DOMAIN trail /\ pc = "visit" /\ idx \in Watch
  BY <1>1, <1>2, Visited
<1>4. StateOk' /\ TrailOk' /\ LevelsOk' /\ CoverOk'
  <2>1. StateOk'
    BY <1>1, Nodes DEF IInv, StateOk
  <2>2. CoverOk'
    BY <1>1 DEF IInv, CoverOk, HandledAt, Covered, Covers, qn
  <2> QED
    BY <1>1, <2>1, <2>2, TrailKept DEF IInv
<1>5. Covered(p, qn)'
  <2>1. PICK i \in DOMAIN trail : trail[i] = Other(p)
    BY <1>1 DEF True
  <2>2. trail[i] \in Range(arrLits[p])
    BY <1>3, <2>1 DEF Other, Watch, IInv, WatchesOk
  <2>3. \A k \in DOMAIN levels : levels[k] <= qn
    BY <1>3 DEF IInv, LevelsOk, TrailOk
  <2> QED
    BY <1>1, <2>1, <2>2, <2>3 DEF Covered, Covers, qn
<1>6. \A q \in Lemma : Covered(q, qn) => Covered(q, qn)'
  BY <1>1 DEF Covered, Covers, qn
<1> QED
  BY <1>1, <1>4, <1>5, <1>6, StepPasses

LEMMA StepInfer ==
  ASSUME IInv, NEW p \in Lemma, Infer(p)
  PROVE  IInv'
<1>1. /\ Visiting(p) /\ Unknown(Other(p)) /\ trail' = Append(trail, Other(p)) /\ previous' = p
      /\ UNCHANGED <<arrLits, levels, pInferenceQueueNextElt, cached, nWatched, lists,
                     idx, nFlipped, pc>>
  BY DEF Infer, listVars
<1>2. PICK D \in SUBSET Node : Passed(D)
  BY <1>1 DEF IInv, VisitOk, Visiting
<1>3. p \in cached /\ qn \in DOMAIN trail /\ pc = "visit" /\ idx \in Watch
  BY <1>1, <1>2, Visited
<1>4. PICK l \in Literal : l = Other(p) /\ l \in Range(arrLits[p])
  <2>1. arrLits[p] \in Seq(Literal)
    BY WatchedLitsAssumption DEF IInv, StateOk
  <2>2. Other(p) \in Range(arrLits[p])
    BY <1>3 DEF Other, Watch, IInv, WatchesOk
  <2> QED
    BY <2>1, <2>2 DEF Range
<1>5. /\ TrailOk' /\ CoverOk'
      /\ Len(trail') = Len(trail) + 1 /\ trail'[Len(trail) + 1] = l
      /\ DOMAIN trail' = 1..(Len(trail) + 1)
      /\ DOMAIN trail = 1..Len(trail) /\ Len(trail) \in Nat
      /\ \A i \in DOMAIN trail : trail'[i] = trail[i]
      /\ \A q \in Lemma, j \in DOMAIN trail : Covered(q, j) => Covered(q, j)'
  BY <1>1, <1>4, Grow DEF IInv
<1>6. LevelsOk'
  BY <1>1, <1>5, LevelsKept DEF IInv
<1>7. StateOk'
  BY <1>1, Nodes DEF IInv, StateOk
<1>8. Covered(p, qn)'
  <2>1. \A k \in DOMAIN levels : levels[k] <= qn
    BY <1>3 DEF IInv, LevelsOk, TrailOk
  <2>2. PICK i \in DOMAIN trail' : i = Len(trail) + 1
    BY <1>5
  <2>3. Covers(p, i, qn)'
    BY <1>1, <1>4, <1>5, <2>1, <2>2 DEF Covers, qn
  <2> QED
    BY <2>3 DEF Covered
<1>9. \A q \in Lemma : Covered(q, qn) => Covered(q, qn)'
  BY <1>1, <1>3, <1>5 DEF qn
<1> QED
  BY <1>1, <1>5, <1>6, <1>7, <1>8, <1>9, StepPasses

(* A list moves p when its watch is set anew.                              *)
LEMMA MovedList ==
  ASSUME IInv, NEW p \in Lemma, NEW w \in Watch, NEW from \in Literal, NEW to \in Literal,
         from = nWatched[p][w], from # to,
         \/ lists'[w] = AFSMoveLemma(lists[w], lists[w].prev[p], p, from, to)
         \/ lists'[w] = AFSMoveLemmaToBack(lists[w], lists[w].prev[p], p, from, to),
         nWatched' \in [Lemma -> [Watch -> Literal \cup {NULL}]],
         nWatched'[p][w] = to, \A q \in Lemma : q # p => nWatched'[q] = nWatched[q]
  PROVE  Well(lists'[w], On(w)') /\ KeepsRest(lists[w], lists'[w], On(w), p, from)
<1>1. Well(lists[w], On(w)) /\ On(w) \in OnType /\ On(w)[p] = from
  BY DEF IInv, ListsOk, On, OnType, StateOk
<1>2. Placed(On(w), p, to, On(w)')
  BY <1>1 DEF Placed, On, OnType
<1>3. PICK on, on2, r : on = On(w) /\ on2 = On(w)' /\ r = lists'[w]
  OBVIOUS
<1>4. Well(r, on2) /\ KeepsRest(lists[w], r, on, p, from)
  BY <1>1, <1>2, <1>3, MoveWell
<1> QED
  BY <1>3, <1>4

(* What was passed is still passed when p leaves the list.                 *)
LEMMA PassedAfterMove ==
  ASSUME IInv, NEW p \in Lemma, Visiting(p), NEW D \in SUBSET Node, Passed(D),
         KeepsRest(lists[idx], lists'[idx], On(idx), p, Falsified),
         \A q \in Lemma : q # p => nWatched'[q] = nWatched[q],
         UNCHANGED <<arrLits, trail, levels, pInferenceQueueNextElt, idx, previous>>
  PROVE  Passed(D)'
<1>1. /\ p \notin D /\ lists[idx].prev[p] = previous /\ lists[idx].next[p] \notin D
      /\ Falsified \in Literal
  BY Visited
<1>2. Falsified' = Falsified
  BY DEF Falsified
<1>3. \A n \in D : n # p /\ n # lists[idx].next[p] /\ n \in Node /\ OnList(n, Falsified, On(idx))
  BY <1>1 DEF Passed, OnList, On
<1>4. ASSUME NEW n \in D PROVE lists'[idx].next[n] \in D <=> n # previous
  <2>1. lists'[idx].next[n] = IF n = previous THEN lists[idx].next[p] ELSE lists[idx].next[n]
    BY <1>1, <1>3 DEF KeepsRest
  <2> QED
    BY <1>1, <2>1 DEF Passed
<1>5. ASSUME NEW n \in D, n # Falsified
      PROVE  n \in Lemma /\ nWatched'[n][idx] = Falsified /\ lists'[idx].prev[n] \in D /\ Covered(n, qn)'
  <2>1. /\ n \in Lemma /\ nWatched[n][idx] = Falsified /\ lists[idx].prev[n] \in D
        /\ Covered(n, qn)
    BY <1>5 DEF Passed
  <2>2. lists'[idx].prev[n] = lists[idx].prev[n]
    BY <1>3, <2>1 DEF KeepsRest, On
  <2> QED
    BY <1>3, <2>1, <2>2 DEF Covered, Covers, qn
<1> QED
  BY <1>2, <1>4, <1>5 DEF Passed, qn

(* p watches other literals, none of which is false unless it was watched. *)
LEMMA StepMoves ==
  ASSUME IInv, NEW p \in Lemma, Visiting(p), NEW ws \in [Watch -> Literal],
         nWatched' = [nWatched EXCEPT ![p] = ws], ws[0] # ws[1],
         \A w \in Watch :
           /\ ws[w] \in Range(arrLits[p])
           /\ ws[w] = nWatched[p][w] \/ ~False(ws[w]),
         ListsOk', KeepsRest(lists[idx], lists'[idx], On(idx), p, Falsified),
         UNCHANGED <<arrLits, trail, levels, pInferenceQueueNextElt, cached, idx, previous,
                     nFlipped, pc>>
  PROVE  IInv'
<1>1. PICK D \in SUBSET Node : Passed(D)
  BY DEF IInv, VisitOk, Visiting
<1>2. /\ p \in cached /\ Falsified \in Literal /\ Falsified = -trail[qn]
      /\ qn \in DOMAIN trail /\ idx \in Watch
  BY <1>1, Visited
<1>3. /\ nWatched' \in [Lemma -> [Watch -> Literal \cup {NULL}]]
      /\ nWatched'[p] = ws /\ \A q \in Lemma : q # p => nWatched'[q] = nWatched[q]
  BY DEF IInv, StateOk
<1>4. StateOk' /\ TrailOk' /\ LevelsOk'
  <2>1. StateOk'
    BY <1>3 DEF IInv, StateOk
  <2> QED
    BY <2>1, TrailKept DEF IInv
<1>5. \A q \in cached, w \in Watch, j \in DOMAIN trail :
        nWatched'[q][w] = -trail[j] => nWatched[q][w] = -trail[j]
  <2> SUFFICES ASSUME NEW q \in cached, NEW w \in Watch, NEW j \in DOMAIN trail,
                      nWatched'[q][w] = -trail[j]
               PROVE  nWatched[q][w] = -trail[j]
    OBVIOUS
  <2>1. CASE q = p
    <3>1. trail[j] \in Int /\ ws[w] = -trail[j]
      BY <1>3, <2>1 DEF IInv, TrailOk, Literal
    <3>2. trail[j] = -ws[w]
      BY <3>1
    <3>3. False(ws[w])
      BY <3>2 DEF False, True
    <3> QED
      BY <2>1, <3>1, <3>3
  <2>2. CASE q # p
    BY <1>3, <2>2 DEF IInv, StateOk
  <2> QED
    BY <2>1, <2>2
<1>6. \A q \in Lemma, j \in DOMAIN trail : Covered(q, j) => Covered(q, j)'
  BY DEF Covered, Covers
<1>7. CoverOk'
  <2> SUFFICES ASSUME NEW q \in cached, NEW w \in Watch, NEW j \in DOMAIN trail,
                      nWatched'[q][w] = -trail[j], HandledAt(j)
               PROVE  Covered(q, j)'
    BY DEF CoverOk, HandledAt, qn
  <2>1. q \in Lemma /\ Covered(q, j)
    BY <1>5 DEF IInv, CoverOk, StateOk
  <2> QED
    BY <1>6, <2>1
<1>8. WatchesOk'
  BY <1>2, <1>3 DEF IInv, WatchesOk, StateOk
<1>9. VisitOk'
  <2>1. Passed(D)'
    BY <1>1, <1>3, PassedAfterMove
  <2>2. Falsified' = Falsified /\ qn' = qn
    BY DEF Falsified, qn
  <2>3. ASSUME idx = 1, NEW q \in cached, nWatched'[q][0] = Falsified
        PROVE  Covered(q, qn)'
    <3>1. nWatched[q][0] = Falsified
      BY <1>2, <1>5, <2>3 DEF Watch
    <3>2. q \in Lemma /\ Covered(q, qn)
      BY <2>3, <3>1 DEF IInv, VisitOk, StateOk, Visiting
    <3> QED
      BY <2>2, <3>2 DEF Covered, Covers
  <2>4. qn > 0
    BY DEF IInv, VisitOk, Visiting
  <2> QED
    BY <2>1, <2>2, <2>3, <2>4 DEF VisitOk
<1> QED
  BY <1>4, <1>7, <1>8, <1>9 DEF IInv

(* What VisitUnknown and VisitTrue find.                                   *)
LEMMA LeastNumber ==
  ASSUME NEW T, T \subseteq Nat, T # {}
  PROVE  \E k \in T : \A j \in T : k <= j
<1>1. PICK k \in T : \A j \in T : ~(<<j, k>> \in OpToRel(<, Nat))
  BY NatLessThanWellFounded, WFMin
<1>2. ASSUME NEW j \in T PROVE k <= j
  <2>1. ~(j < k)
    BY <1>1 DEF OpToRel
  <2> QED
    BY <2>1
<1> QED
  BY <1>2

LEMMA FirstFound ==
  ASSUME IInv, NEW p \in Lemma, Candidates(p) # {}
  PROVE  /\ First(p) \in Literal /\ First(p) \in Range(arrLits[p])
         /\ First(p) # Other(p) /\ ~False(First(p))
<1>1. arrLits[p] \in Seq(Literal)
  BY WatchedLitsAssumption DEF IInv, StateOk
<1>2. PICK T : T = Candidates(p)
  OBVIOUS
<1>3. T \subseteq Nat /\ T # {}
  BY <1>1, <1>2 DEF Candidates
<1>4. \E k \in T : \A j \in T : k <= j
  BY <1>3, LeastNumber
<1>5. Min(T) \in T
  BY <1>4 DEF Min
<1>6. PICK i \in Candidates(p) : First(p) = arrLits[p][i]
  BY <1>2, <1>5 DEF First
<1> QED
  BY <1>1, <1>6 DEF Candidates, Range

LEMMA Index ==
  ASSUME TrailOk, NEW l \in Literal, NEW i \in DOMAIN trail, trail[i] \in {l, -l}
  PROVE  BSI(l) = i
<1>1. \A j \in DOMAIN trail : trail[j] \in {l, -l} => j = i
  <2> SUFFICES ASSUME NEW j \in DOMAIN trail, trail[j] \in {l, -l} PROVE j = i
    OBVIOUS
  <2>1. trail[j] \in {trail[i], -trail[i]}
    BY DEF Literal
  <2> QED
    BY <2>1 DEF TrailOk, Consistent
<1> QED
  BY <1>1 DEF BSI

LEMMA TrueNotFalse ==
  ASSUME TrailOk, NEW l \in Literal, True(l)
  PROVE  ~False(l) /\ BSI(l) \in DOMAIN trail /\ trail[BSI(l)] = l
<1>1. PICK i \in DOMAIN trail : trail[i] = l
  BY DEF True
<1>2. BSI(l) = i
  BY <1>1, Index
<1>3. ASSUME NEW j \in DOMAIN trail, trail[j] = -l PROVE FALSE
  <2>1. BSI(l) = j
    BY <1>3, Index
  <2> QED
    BY <1>1, <1>2, <1>3, <2>1 DEF Literal
<1> QED
  BY <1>1, <1>2, <1>3 DEF False, True

LEMMA EarliestFound ==
  ASSUME TrailOk, NEW S, S \subseteq Literal, S # {}, \A l \in S : True(l)
  PROVE  Earliest(S) \in S
<1>1. PICK T : T = {BSI(l) : l \in S}
  OBVIOUS
<1>2. T \subseteq Nat /\ T # {}
  BY <1>1, TrueNotFalse DEF TrailOk
<1>3. PICK k \in T : \A j \in T : k <= j
  BY <1>2, LeastNumber
<1>4. \E l \in S : \A m \in S : BSI(l) <= BSI(m)
  BY <1>1, <1>3
<1> QED
  BY <1>4 DEF Earliest

LEMMA LowestFound ==
  ASSUME IInv, NEW p \in Lemma, Candidates(p) # {}, True(First(p))
  PROVE  /\ Lowest(p) \in Range(arrLits[p]) /\ Lowest(p) \in Literal /\ True(Lowest(p))
         /\ SecondLowest(p) # NULL =>
              /\ SecondLowest(p) \in Range(arrLits[p]) /\ SecondLowest(p) \in Literal
              /\ True(SecondLowest(p)) /\ SecondLowest(p) # Lowest(p)
<1>1. PICK S : S = Earlier(p)
  OBVIOUS
<1>2. /\ S \subseteq Literal /\ S \subseteq Range(arrLits[p]) /\ \A l \in S : True(l)
  <2>1. arrLits[p] \in Seq(Literal)
    BY WatchedLitsAssumption DEF IInv, StateOk
  <2> QED
    BY <1>1, <2>1 DEF Earlier, Range
<1>3. First(p) \in S
  <2>1. First(p) \in Literal /\ First(p) \in Range(arrLits[p])
    BY FirstFound
  <2>2. BSI(First(p)) \in Nat
    BY <2>1, TrueNotFalse DEF IInv, TrailOk
  <2> QED
    BY <1>1, <2>1, <2>2 DEF Earlier
<1>4. Lowest(p) \in S
  BY <1>1, <1>2, <1>3, EarliestFound DEF Lowest, IInv
<1>5. ASSUME SecondLowest(p) # NULL
      PROVE  SecondLowest(p) \in S \ {Lowest(p)}
  <2>1. PICK R : R = S \ {Lowest(p)}
    OBVIOUS
  <2>2. R # {} /\ R \subseteq Literal /\ \A l \in R : True(l)
    BY <1>1, <1>2, <1>4, <1>5, <2>1 DEF SecondLowest
  <2>3. Earliest(R) \in R
    BY <2>2, EarliestFound DEF IInv
  <2> QED
    BY <1>1, <1>5, <2>1, <2>3 DEF SecondLowest
<1> QED
  BY <1>2, <1>4, <1>5

LEMMA StepVisitUnknown ==
  ASSUME IInv, NEW p \in Lemma, VisitUnknown(p)
  PROVE  IInv'
<1>1. /\ Visiting(p) /\ Candidates(p) # {}
      /\ lists' = [lists EXCEPT ![idx] = AFSMoveLemma(@, previous, p, Falsified, First(p))]
      /\ nWatched' = [nWatched EXCEPT ![p][idx] = First(p)]
      /\ UNCHANGED <<arrLits, trail, levels, pInferenceQueueNextElt, cached, idx, previous,
                     nFlipped, pc>>
  BY DEF VisitUnknown, trailVars, loopVars
<1>2. PICK D \in SUBSET Node : Passed(D)
  BY <1>1 DEF IInv, VisitOk, Visiting
<1>3. /\ p \in cached /\ Falsified \in Literal /\ Falsified = -trail[qn]
      /\ qn \in DOMAIN trail /\ idx \in Watch /\ nWatched[p][idx] = Falsified
      /\ lists[idx].prev[p] = previous
  BY <1>1, <1>2, Visited
<1>4. PICK to \in Literal : /\ to = First(p) /\ to \in Range(arrLits[p])
                            /\ to # Other(p) /\ ~False(to)
  BY <1>1, FirstFound
<1>5. Falsified # to
  <2>1. trail[qn] = -Falsified
    BY <1>3 DEF IInv, TrailOk, Literal
  <2> QED
    BY <1>3, <1>4, <2>1 DEF False, True
<1>6. PICK ws : ws = [nWatched[p] EXCEPT ![idx] = to]
  OBVIOUS
<1>7. \A w \in Watch : nWatched[p][w] \in Literal /\ nWatched[p][w] \in Range(arrLits[p])
  <2>1. arrLits[p] \in Seq(Literal)
    BY WatchedLitsAssumption DEF IInv, StateOk
  <2> QED
    BY <1>3, <2>1 DEF IInv, WatchesOk, Range
<1>8. /\ ws \in [Watch -> Literal] /\ nWatched' = [nWatched EXCEPT ![p] = ws]
      /\ ws[idx] = to /\ \A w \in Watch : w # idx => ws[w] = nWatched[p][w]
      /\ ws[0] # ws[1]
  <2>1. /\ ws \in [Watch -> Literal]
        /\ ws[idx] = to /\ \A w \in Watch : w # idx => ws[w] = nWatched[p][w]
    BY <1>3, <1>6, <1>7 DEF IInv, StateOk
  <2>2. nWatched' = [nWatched EXCEPT ![p] = ws]
    BY <1>1, <1>4, <1>6
  <2> QED
    BY <1>3, <1>4, <2>1, <2>2 DEF Watch, Other
<1>9. /\ nWatched' \in [Lemma -> [Watch -> Literal \cup {NULL}]] /\ nWatched'[p] = ws
      /\ \A q \in Lemma : q # p => nWatched'[q] = nWatched[q]
  BY <1>8 DEF IInv, StateOk
<1>10. PICK i \in Watch : i = idx
  BY <1>3
<1>11. Well(lists'[i], On(i)') /\ KeepsRest(lists[i], lists'[i], On(i), p, Falsified)
  <2>1. lists'[i] = AFSMoveLemma(lists[i], lists[i].prev[p], p, Falsified, to)
    BY <1>1, <1>3, <1>4, <1>10 DEF IInv, ListsOk
  <2>2. nWatched'[p][i] = to /\ Falsified = nWatched[p][i]
    BY <1>3, <1>8, <1>9, <1>10
  <2>3. PICK from \in Literal : from = Falsified
    BY <1>3
  <2> QED
    BY <1>5, <1>9, <2>1, <2>2, <2>3, MovedList
<1>12. ListsOk'
  <2>1. ASSUME NEW w \in Watch, w # idx PROVE Well(lists'[w], On(w)')
    <3>1. lists'[w] = lists[w] /\ On(w)' = On(w)
      BY <1>1, <1>8, <1>9, <2>1 DEF On, IInv, ListsOk
    <3> QED
      BY <3>1 DEF IInv, ListsOk
  <2>2. \A w \in Watch : Well(lists'[w], On(w)')
    BY <1>10, <1>11, <2>1
  <2>3. lists' = [w \in Watch |-> lists'[w]]
    BY <1>1 DEF IInv, ListsOk
  <2> QED
    BY <2>2, <2>3 DEF ListsOk, Well
<1>13. \A w \in Watch : /\ ws[w] \in Range(arrLits[p])
                        /\ ws[w] = nWatched[p][w] \/ ~False(ws[w])
  BY <1>4, <1>7, <1>8
<1> QED
  BY <1>1, <1>8, <1>10, <1>11, <1>12, <1>13, StepMoves

LEMMA StepVisitTrue ==
  ASSUME IInv, NEW p \in Lemma, VisitTrue(p)
  PROVE  IInv'
<1>1. PICK second, low : second = SecondLowest(p) /\ low = Lowest(p)
  OBVIOUS
<1>2. /\ Visiting(p) /\ Candidates(p) # {} /\ ~True(Other(p)) /\ True(First(p))
      /\ lists' = [w \in Watch |->
           IF w = idx THEN AFSMoveLemmaToBack(lists[w], previous, p, Falsified, low)
           ELSE IF second = NULL THEN lists[w]
           ELSE AFSMoveLemmaToBack(lists[w], lists[w].prev[p], p, Other(p), second)]
      /\ nWatched' = [nWatched EXCEPT ![p] =
           [w \in Watch |-> IF w = idx THEN low
                            ELSE IF second = NULL THEN @[w] ELSE second]]
      /\ UNCHANGED <<arrLits, trail, levels, pInferenceQueueNextElt, cached, idx, previous,
                     nFlipped, pc>>
  BY <1>1 DEF VisitTrue, trailVars, loopVars
<1>3. PICK D \in SUBSET Node : Passed(D)
  BY <1>2 DEF IInv, VisitOk, Visiting
<1>4. /\ p \in cached /\ Falsified \in Literal /\ Falsified = -trail[qn]
      /\ qn \in DOMAIN trail /\ idx \in Watch /\ nWatched[p][idx] = Falsified
      /\ lists[idx].prev[p] = previous
  BY <1>2, <1>3, Visited
<1>5. /\ low \in Range(arrLits[p]) /\ low \in Literal /\ True(low) /\ ~False(low)
      /\ second # NULL => /\ second \in Range(arrLits[p]) /\ second \in Literal
                          /\ True(second) /\ ~False(second) /\ second # low
  BY <1>1, <1>2, LowestFound, TrueNotFalse DEF IInv
<1>6. Falsified # low
  <2>1. trail[qn] = -Falsified
    BY <1>4 DEF IInv, TrailOk, Literal
  <2> QED
    BY <1>4, <1>5, <2>1 DEF False, True
<1>7. \A w \in Watch : nWatched[p][w] \in Literal /\ nWatched[p][w] \in Range(arrLits[p])
  <2>1. arrLits[p] \in Seq(Literal)
    BY WatchedLitsAssumption DEF IInv, StateOk
  <2> QED
    BY <1>4, <2>1 DEF IInv, WatchesOk, Range
<1>8. PICK ws : ws = [w \in Watch |-> IF w = idx THEN low
                                      ELSE IF second = NULL THEN nWatched[p][w] ELSE second]
  OBVIOUS
<1>9. /\ ws \in [Watch -> Literal] /\ nWatched' = [nWatched EXCEPT ![p] = ws]
      /\ ws[idx] = low
      /\ \A w \in Watch : w # idx => /\ ws[w] = IF second = NULL THEN nWatched[p][w] ELSE second
                                     /\ nWatched[p][w] = Other(p)
      /\ ws[0] # ws[1]
  <2>1. /\ ws \in [Watch -> Literal]
        /\ ws[idx] = low
        /\ \A w \in Watch : w # idx => ws[w] = IF second = NULL THEN nWatched[p][w] ELSE second
    BY <1>4, <1>5, <1>7, <1>8
  <2>2. nWatched' = [nWatched EXCEPT ![p] = ws]
    BY <1>2, <1>8
  <2>3. \A w \in Watch : w # idx => nWatched[p][w] = Other(p)
    BY <1>4 DEF Watch, Other
  <2>4. \A w \in Watch : w # idx => ws[w] # low
    BY <1>2, <1>5, <2>1, <2>3
  <2> QED
    BY <1>4, <2>1, <2>2, <2>3, <2>4 DEF Watch
<1>10. /\ nWatched' \in [Lemma -> [Watch -> Literal \cup {NULL}]] /\ nWatched'[p] = ws
       /\ \A q \in Lemma : q # p => nWatched'[q] = nWatched[q]
  BY <1>9 DEF IInv, StateOk
<1>11. PICK i \in Watch : i = idx
  BY <1>4
<1>12. Well(lists'[i], On(i)') /\ KeepsRest(lists[i], lists'[i], On(i), p, Falsified)
  <2>1. lists'[i] = AFSMoveLemmaToBack(lists[i], lists[i].prev[p], p, Falsified, low)
    BY <1>2, <1>4, <1>11
  <2>2. nWatched'[p][i] = low /\ Falsified = nWatched[p][i]
    BY <1>4, <1>9, <1>10, <1>11
  <2>3. PICK from \in Literal : from = Falsified
    BY <1>4
  <2> QED
    BY <1>5, <1>6, <1>10, <2>1, <2>2, <2>3, MovedList
<1>13. ListsOk'
  <2>1. ASSUME NEW w \in Watch, w # idx PROVE Well(lists'[w], On(w)')
    <3>1. CASE second = NULL
      <4>1. lists'[w] = lists[w] /\ On(w)' = On(w)
        BY <1>2, <1>9, <1>10, <2>1, <3>1 DEF On
      <4> QED
        BY <4>1 DEF IInv, ListsOk
    <3>2. CASE second # NULL
      <4>1. PICK from \in Literal : from = nWatched[p][w] /\ from = Other(p) /\ from # second
        BY <1>2, <1>5, <1>7, <1>9, <2>1, <3>2
      <4>2. lists'[w] = AFSMoveLemmaToBack(lists[w], lists[w].prev[p], p, from, second)
        BY <1>2, <2>1, <3>2, <4>1
      <4>3. second \in Literal /\ nWatched'[p][w] = second
        BY <1>5, <1>9, <1>10, <2>1, <3>2
      <4> QED
        BY <1>10, <4>1, <4>2, <4>3, MovedList
    <3> QED
      BY <3>1, <3>2
  <2>2. \A w \in Watch : Well(lists'[w], On(w)')
    BY <1>11, <1>12, <2>1
  <2>3. lists' = [w \in Watch |-> lists'[w]]
    BY <1>2
  <2> QED
    BY <2>2, <2>3 DEF ListsOk, Well
<1>14. \A w \in Watch : /\ ws[w] \in Range(arrLits[p])
                        /\ ws[w] = nWatched[p][w] \/ ~False(ws[w])
  BY <1>5, <1>7, <1>9
<1> QED
  BY <1>2, <1>9, <1>11, <1>12, <1>13, <1>14, StepMoves

LEMMA StepKeeps == IInv /\ [Next]_vars => IInv'
<1> SUFFICES ASSUME IInv, [Next]_vars PROVE IInv'
  OBVIOUS
<1>1. CASE Dequeue
  BY <1>1, StepDequeue
<1>2. ASSUME NEW p \in Lemma, VisitSatisfied(p) PROVE IInv'
  BY <1>2, StepVisitSatisfied
<1>3. ASSUME NEW p \in Lemma, VisitUnknown(p) PROVE IInv'
  BY <1>3, StepVisitUnknown
<1>4. ASSUME NEW p \in Lemma, VisitTrue(p) PROVE IInv'
  BY <1>4, StepVisitTrue
<1>5. ASSUME NEW p \in Lemma, Infer(p) PROVE IInv'
  BY <1>5, StepInfer
<1>6. ASSUME NEW p \in Lemma, Conflict(p) PROVE IInv'
  <2>1. /\ UNCHANGED <<arrLits, trail, levels, pInferenceQueueNextElt, cached, nWatched, lists,
                       idx, previous>>
        /\ pc = "visit" /\ pc' = "conflict" /\ nFlipped' = nFlipped
    BY <1>6 DEF Conflict, Visiting, trailVars, listVars, loopVars
  <2> QED
    BY <2>1, StepElsewhere
<1>7. CASE EndOfList
  BY <1>7, StepEndOfList
<1>8. ASSUME NEW l \in Literal, FunctionInfers(l) \/ UnitInfers(l) PROVE IInv'
  BY <1>8, StepInfers
<1>9. ASSUME NEW l \in Literal, SelectNewBranchPoint(l) PROVE IInv'
  BY <1>9, StepSelect
<1>10. CASE FunctionsUpdated \/ RecordSolution \/ EndBackTrack
  <2>1. UNCHANGED <<arrLits, trail, levels, pInferenceQueueNextElt, cached, nWatched, lists,
                    idx, previous>>
    BY <1>10 DEF FunctionsUpdated, RecordSolution, EndBackTrack, trailVars, listVars, loopVars
  <2>2. \/ pc' = "conflict" /\ nFlipped' = nFlipped /\ (pc = "dequeue" => Deduced)
        \/ pc = "functions" /\ pc' = "dequeue" /\ nFlipped' = nFlipped
        \/ pc = "unit" /\ pc' = "dequeue" /\ nFlipped' = 0
    BY <1>10 DEF FunctionsUpdated, RecordSolution, EndBackTrack
  <2> QED
    BY <2>1, <2>2, StepElsewhere
<1>11. ASSUME NEW k \in DOMAIN levels, BackTrack(k) PROVE IInv'
  BY <1>11, StepBackTrack
<1>12. ASSUME NEW p \in Lemma, FreeLemma(p) PROVE IInv'
  BY <1>12, StepFree
<1>13. ASSUME NEW p \in Lemma, NEW ws \in [Watch -> Literal], AddLemmaIntoCache(p, ws) PROVE IInv'
  BY <1>13, StepAdd
<1>14. CASE UNCHANGED vars
  <2>1. UNCHANGED <<arrLits, trail, levels, pInferenceQueueNextElt, cached, nWatched, lists,
                    idx, previous, nFlipped, pc>>
    BY <1>14 DEF vars, trailVars, listVars, loopVars
  <2>2. StateOk' /\ TrailOk' /\ LevelsOk' /\ ListsOk' /\ WatchesOk'
    BY <2>1, TrailKept, ListsKept, WatchesKept DEF IInv, StateOk
  <2>3. CoverOk'
    BY <2>1 DEF IInv, CoverOk, HandledAt, Covered, Covers, qn
  <2>4. VisitOk'
    <3>1. \A D \in SUBSET Node : Passed(D) => Passed(D)'
      BY <2>1 DEF Passed, Covered, Covers, Falsified, qn
    <3>2. \A q \in cached : Covered(q, qn) => Covered(q, qn)'
      BY <2>1 DEF Covered, Covers, qn
    <3> QED
      BY <2>1, <3>1, <3>2 DEF IInv, VisitOk, Falsified, qn
  <2> QED
    BY <2>2, <2>3, <2>4 DEF IInv
<1>15. CASE Done
  BY <1>14, <1>15 DEF Done
<1> QED
  BY <1>1, <1>2, <1>3, <1>4, <1>5, <1>6, <1>7, <1>8, <1>9, <1>10, <1>11, <1>12, <1>13, <1>14,
     <1>15 DEF Next, UpdateEachAffectedLemma

-----------------------------------------------------------------------------
(* What follows from it *)

LEMMA ListsFollow == IInv => ListsIntact
<1> SUFFICES ASSUME IInv PROVE ListsIntact
  OBVIOUS
<1>1. TypeOK
  BY TypesFollow
<1>2. ASSUME NEW w \in Watch
      PROVE  LET list == lists[w]
                 OnWatch(n, l) == n = l \/ (n \in cached /\ nWatched[n][w] = l)
             IN  /\ \A l \in Literal :
                      /\ OnWatch(list.tail[l], l)
                      /\ list.next[list.tail[l]] = NULL
                 /\ \A p \in cached :
                      /\ list.next[list.prev[p]] = p
                      /\ OnWatch(list.prev[p], nWatched[p][w])
                      /\ list.next[p] = NULL => list.tail[nWatched[p][w]] = p
                 /\ \A n \in Literal \cup cached :
                      list.next[n] # NULL => list.prev[list.next[n]] = n
                 /\ \A ring \in SUBSET cached :
                      ring # {} => \E p \in ring : list.prev[p] \notin ring
  <2>1. Linked(lists[w].next, lists[w].prev, lists[w].tail, On(w))
    BY DEF IInv, ListsOk, Well
  <2>2. \A p \in cached : p \in Lemma /\ nWatched[p][w] \in Literal /\ On(w)[p] = nWatched[p][w]
    <3> SUFFICES ASSUME NEW p \in cached
                 PROVE  p \in Lemma /\ nWatched[p][w] \in Literal /\ On(w)[p] = nWatched[p][w]
      OBVIOUS
    <3>1. p \in Lemma /\ arrLits[p] \in Seq(Literal)
      BY WatchedLitsAssumption DEF IInv, StateOk
    <3>2. nWatched[p][w] \in Range(arrLits[p])
      BY DEF IInv, WatchesOk
    <3> QED
      BY <3>1, <3>2 DEF On, Range
  <2>3. \A n \in Node, l \in Literal :
          OnList(n, l, On(w)) <=> n = l \/ (n \in cached /\ nWatched[n][w] = l)
    BY <2>2, Nodes DEF OnList, On, IInv, WatchesOk
  <2>4. ASSUME NEW l \in Literal
        PROVE  /\ lists[w].tail[l] = l \/ (lists[w].tail[l] \in cached /\ nWatched[lists[w].tail[l]][w] = l)
               /\ lists[w].next[lists[w].tail[l]] = NULL
    <3>1. lists[w].tail[l] \in Node
      BY DEF IInv, ListsOk, ListType, TailType
    <3> QED
      BY <2>1, <2>3, <3>1 DEF Linked
  <2>5. ASSUME NEW p \in cached
        PROVE  /\ lists[w].next[lists[w].prev[p]] = p
               /\ \/ lists[w].prev[p] = nWatched[p][w]
                  \/ /\ lists[w].prev[p] \in cached
                     /\ nWatched[lists[w].prev[p]][w] = nWatched[p][w]
               /\ lists[w].next[p] = NULL => lists[w].tail[nWatched[p][w]] = p
    <3>1. PICK l \in Literal : l = nWatched[p][w] /\ On(w)[p] = l /\ p \in Lemma /\ p \in Node
      BY <2>2, Nodes
    <3>2. OnList(lists[w].prev[p], l, On(w)) /\ lists[w].next[lists[w].prev[p]] = p
      BY <2>1, <3>1, Nodes DEF Linked
    <3>3. lists[w].prev[p] \in Node
      BY <3>2, Nodes DEF OnList
    <3>4. OnList(p, l, On(w))
      BY <3>1 DEF OnList
    <3>5. lists[w].next[p] = NULL => lists[w].tail[l] = p
      BY <2>1, <3>1, <3>4 DEF Linked
    <3> QED
      BY <2>3, <3>1, <3>2, <3>3, <3>5
  <2>6. ASSUME NEW n \in Literal \cup cached, lists[w].next[n] # NULL
        PROVE  lists[w].prev[lists[w].next[n]] = n
    <3>1. PICK l \in Literal : OnList(n, l, On(w)) /\ n \in Node
      BY <2>2, Nodes DEF OnList
    <3> QED
      BY <2>1, <2>6, <3>1 DEF Linked
  <2>7. ASSUME NEW ring \in SUBSET cached, ring # {}
        PROVE  \E p \in ring : lists[w].prev[p] \notin ring
    <3>1. ring \in SUBSET {p \in Lemma : On(w)[p] # NULL}
      BY <2>2, Nodes
    <3> QED
      BY <2>1, <2>7, <3>1 DEF Linked
  <2> QED
    BY <2>4, <2>5, <2>6, <2>7
<1> QED
  BY <1>1, <1>2 DEF ListsIntact

(* A literal that is false and was dequeued is handled.                    *)
LEMMA HandledIndex ==
  ASSUME IInv, NEW l \in Literal, Handled(l)
  PROVE  BSI(l) \in DOMAIN trail /\ l = -trail[BSI(l)] /\ HandledAt(BSI(l))
<1>1. PICK j \in DOMAIN trail : trail[j] = -l
  BY DEF Handled, False, True
<1>2. BSI(l) = j
  BY <1>1, Index DEF IInv
<1>3. l = -trail[j]
  BY <1>1 DEF Literal
<1> QED
  BY <1>1, <1>2, <1>3 DEF Handled, HandledAt, qn

LEMMA WatchLiteral ==
  ASSUME IInv, NEW p \in cached, NEW w \in Watch
  PROVE  nWatched[p][w] \in Literal /\ nWatched[p][w] \in Range(arrLits[p]) /\ p \in Lemma
<1>1. p \in Lemma /\ arrLits[p] \in Seq(Literal)
  BY WatchedLitsAssumption DEF IInv, StateOk
<1>2. nWatched[p][w] \in Range(arrLits[p])
  BY DEF IInv, WatchesOk
<1> QED
  BY <1>1, <1>2 DEF Range

LEMMA WatchesFollow == IInv => WatchesSound
<1> SUFFICES ASSUME IInv, NEW p \in cached
             PROVE  /\ nWatched[p][0] # nWatched[p][1]
                    /\ \A w \in Watch :
                         /\ nWatched[p][w] \in Range(arrLits[p])
                         /\ Handled(nWatched[p][w]) =>
                              \E l \in Range(arrLits[p]) :
                                True(l) /\ LevelOf(l) <= LevelOf(nWatched[p][w])
  BY DEF WatchesSound
<1>1. ASSUME NEW w \in Watch, Handled(nWatched[p][w])
      PROVE  \E l \in Range(arrLits[p]) : True(l) /\ LevelOf(l) <= LevelOf(nWatched[p][w])
  <2>1. PICK m \in Literal : m = nWatched[p][w]
    BY WatchLiteral
  <2>2. PICK j \in DOMAIN trail : j = BSI(m) /\ m = -trail[j] /\ HandledAt(j)
    BY <1>1, <2>1, HandledIndex
  <2>3. PICK i \in DOMAIN trail : Covers(p, i, j)
    BY <2>1, <2>2 DEF IInv, CoverOk, Covered
  <2>4. PICK l \in Range(arrLits[p]) : l = trail[i]
    BY <2>3 DEF Covers
  <2>5. True(l) /\ BSI(l) = i
    <3>1. l \in Literal
      BY <2>4 DEF IInv, TrailOk
    <3> QED
      BY <2>4, <3>1, Index DEF True, IInv
  <2>6. PICK S, T : /\ S = {k \in DOMAIN levels : levels[k] <= BSI(l)}
                    /\ T = {k \in DOMAIN levels : levels[k] <= BSI(m)}
    OBVIOUS
  <2>7. S \in SUBSET T
    BY <2>2, <2>3, <2>5, <2>6 DEF Covers
  <2>8. IsFiniteSet(T)
    <3>1. PICK n \in Nat : n = Len(levels) /\ DOMAIN levels = 1..n
      BY DEF IInv, LevelsOk
    <3>2. IsFiniteSet(1..n)
      BY FS_Interval
    <3> QED
      BY <2>6, <3>1, <3>2, FS_Subset
  <2>9. Cardinality(S) <= Cardinality(T)
    BY <2>7, <2>8, FS_Subset
  <2> QED
    BY <2>1, <2>4, <2>5, <2>6, <2>9 DEF LevelOf
<1> QED
  BY <1>1 DEF IInv, WatchesOk

LEMMA CompletenessFollows == IInv => LemmasComplete
<1> SUFFICES ASSUME IInv, Deduced, NEW p \in cached, ~Satisfied(p)
             PROVE  Cardinality({l \in Range(arrLits[p]) : Unknown(l)}) >= 2
  BY DEF LemmasComplete
<1>1. ASSUME NEW w \in Watch
      PROVE  nWatched[p][w] \in Range(arrLits[p]) /\ Unknown(nWatched[p][w])
  <2>1. PICK m \in Literal : m = nWatched[p][w] /\ m \in Range(arrLits[p])
    BY WatchLiteral
  <2>2. ~True(m)
    BY <2>1 DEF Satisfied
  <2>3. ~False(m)
    <3> SUFFICES ASSUME NEW j \in DOMAIN trail, trail[j] = -m PROVE FALSE
      BY DEF False, True
    <3>1. m = -trail[j] /\ HandledAt(j)
      BY DEF Literal, Deduced, HandledAt, IInv, TrailOk, qn
    <3>2. PICK i \in DOMAIN trail : Covers(p, i, j)
      BY <2>1, <3>1 DEF IInv, CoverOk, Covered
    <3> QED
      BY <3>2 DEF Covers, Satisfied, True
  <2> QED
    BY <2>1, <2>2, <2>3 DEF Unknown
<1>2. PICK S, a, b : /\ S = {l \in Range(arrLits[p]) : Unknown(l)}
                     /\ a = nWatched[p][0] /\ b = nWatched[p][1]
  OBVIOUS
<1>3. a # b /\ a \in S /\ b \in S
  BY <1>1, <1>2 DEF IInv, WatchesOk, Watch
<1>4. IsFiniteSet(S)
  <2>1. IsFiniteSet((-NumVars)..NumVars)
    BY WatchedLitsAssumption, FS_Interval
  <2>2. S \in SUBSET ((-NumVars)..NumVars)
    <3>1. arrLits[p] \in Seq(Literal)
      BY WatchedLitsAssumption DEF IInv, StateOk
    <3> QED
      BY <1>2, <3>1 DEF Range, Literal
  <2> QED
    BY <2>1, <2>2, FS_Subset
<1>5. IsFiniteSet({a} \cup {b}) /\ Cardinality({a} \cup {b}) = 2
  <2>1. PICK A : A = {a}
    OBVIOUS
  <2>2. IsFiniteSet(A) /\ Cardinality(A) = 1 /\ b \notin A
    BY <1>3, <2>1, FS_Singleton
  <2>3. IsFiniteSet(A \cup {b}) /\ Cardinality(A \cup {b}) = Cardinality(A) + 1
    BY <2>2, FS_AddElement
  <2> QED
    BY <2>1, <2>2, <2>3
<1>6. Cardinality(S) >= 2
  <2>1. ({a} \cup {b}) \in SUBSET S
    BY <1>3
  <2>2. Cardinality({a} \cup {b}) <= Cardinality(S)
    BY <1>4, <2>1, FS_Subset
  <2>3. Cardinality(S) \in Nat
    BY <1>4, FS_CardinalityType
  <2> QED
    BY <1>5, <2>2, <2>3
<1> QED
  BY <1>2, <1>6

-----------------------------------------------------------------------------
LEMMA Invariance == Spec => []IInv
BY Initially, StepKeeps, PTL DEF Spec

(* UpdateEachAffectedLemma and the steps of the cache leave each list with *)
(* exactly the cached lemmas that watch its literal, linked both ways and  *)
(* ending at its tail.                                                     *)
THEOREM ListsStayIntact == Spec => []ListsIntact
BY Invariance, ListsFollow, PTL

(* A false watch the deduction has gone through is no loss: its lemma is   *)
(* satisfied by a literal no backtrack unassigns sooner.                   *)
THEOREM WatchesStaySound == Spec => []WatchesSound
BY Invariance, WatchesFollow, PTL

(* When deduction ends, no cached lemma is violated, and none is unit.     *)
THEOREM NoInferenceMissed == Spec => []LemmasComplete
BY Invariance, CompletenessFollows, PTL
=============================================================================
