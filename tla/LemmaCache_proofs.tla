------------------------- MODULE LemmaCache_proofs -------------------------
(***************************************************************************)
(* Theorems about the lemma cache, for any number of lemmas and any bounds.*)
(*                                                                         *)
(* The proof puts beside the pointers what they stand for: q[c] is queue c *)
(* from its first to its last lemma, as a function of the positions.       *)
(***************************************************************************)
EXTENDS LemmaCache, FiniteSetTheorems, FunctionTheorems, WellFoundedInduction,
        TLAPS

(* A nonempty set of numbers has a least one. *)
LEMMA LeastNumber ==
  ASSUME NEW T, T \subseteq Nat, T # {}
  PROVE  \E k \in T : \A j \in T : k <= j
<1>1. PICK k \in T : \A j \in T : ~(<<j, k>> \in OpToRel(<, Nat))
  BY NatLessThanWellFounded, WFMin
<1>2. ASSUME NEW j \in T PROVE k <= j
  <2>1. ~(j < k)
    BY <1>1 DEF OpToRel
  <2> QED
    BY <2>1
<1> QED
  BY <1>2

(* Follow computes the chain that satisfies its equations.                 *)
Follows(g, n, start, link) ==
  /\ g = [i \in 0..n |-> g[i]] /\ g[0] = start
  /\ \A i \in 1..n : g[i] = IF g[i - 1] = NULL THEN NULL ELSE link[g[i - 1]]

LEMMA FollowIs ==
  ASSUME NEW n \in Nat, NEW start, NEW link, NEW g, Follows(g, n, start, link)
  PROVE  Follow(n, start, link) = g
<1> USE DEF Follows
<1> DEFINE Chain(h) == h = [i \in 0..n |-> IF i = 0 THEN start
                                           ELSE IF h[i - 1] = NULL THEN NULL
                                           ELSE link[h[i - 1]]]
<1>1. Chain(g)
  <2>1. \A i \in 0..n : g[i] = IF i = 0 THEN start
                               ELSE IF g[i - 1] = NULL THEN NULL ELSE link[g[i - 1]]
    <3> SUFFICES ASSUME NEW i \in 0..n, i # 0 PROVE i \in 1..n
      OBVIOUS
    <3> QED
      OBVIOUS
  <2> QED
    BY <2>1
<1>2. PICK h : h = Follow(n, start, link)
  OBVIOUS
<1>3. Chain(h)
  BY <1>1, <1>2 DEF Follow
<1>4. /\ h = [i \in 0..n |-> h[i]] /\ h[0] = start
      /\ \A i \in 1..n : h[i] = IF h[i - 1] = NULL THEN NULL ELSE link[h[i - 1]]
  <2>1. \A i \in 0..n : h[i] = IF i = 0 THEN start
                               ELSE IF h[i - 1] = NULL THEN NULL ELSE link[h[i - 1]]
    BY <1>3
  <2>2. h = [i \in 0..n |-> h[i]]
    BY <1>3
  <2>3. 0 \in 0..n /\ \A i \in 1..n : i \in 0..n /\ i # 0
    OBVIOUS
  <2> HIDE DEF Chain
  <2> QED
    BY <2>1, <2>2, <2>3
<1> HIDE DEF Chain
<1>5. PICK T : T = {i \in 0..n : h[i] # g[i]}
  OBVIOUS
<1>6. T = {}
  <2> SUFFICES ASSUME T # {} PROVE FALSE
    OBVIOUS
  <2>1. T \subseteq Nat
    BY <1>5
  <2>2. PICK k \in T : \A j \in T : k <= j
    BY <2>1, LeastNumber
  <2>3. k \in 0..n /\ h[k] # g[k]
    BY <1>5, <2>2
  <2>4. k \in 1..n
    BY <1>4, <2>3
  <2>5. k - 1 \in 0..n /\ k - 1 \notin T
    BY <2>2, <2>4
  <2>6. h[k - 1] = g[k - 1]
    BY <1>5, <2>5
  <2> QED
    BY <1>4, <2>3, <2>4, <2>6
<1>7. \A i \in 0..n : h[i] = g[i]
  BY <1>5, <1>6
<1> QED
  BY <1>2, <1>4, <1>7

LEMMA WrittenOnce ==
  ASSUME NEW f, NEW a, NEW b, NEW v, v = <<a, b>>, NEW us, us = {v}, NEW D, D = DOMAIN f
  PROVE  /\ Written(f, us) = [x \in D |-> Written(f, us)[x]]
         /\ \A x \in D : Written(f, us)[x] = IF x = a THEN b ELSE f[x]
<1>1. ASSUME NEW x \in D
      PROVE  (IF \E u \in us : u[1] = x THEN (CHOOSE u \in us : u[1] = x)[2] ELSE f[x])
               = (IF x = a THEN b ELSE f[x])
  <2>1. CASE x = a
    <3>1. (CHOOSE u \in us : u[1] = x) = <<a, b>>
      BY <2>1
    <3> QED
      BY <2>1, <3>1
  <2>2. CASE x # a
    BY <2>2
  <2> QED
    BY <2>1, <2>2
<1> QED
  BY <1>1 DEF Written

(* What LPQEnqueue writes into pLPQPrev. *)
FrontLinks(first, p) == {<<first, p>>, <<p, NULL>>}

LEMMA WrittenTwice ==
  ASSUME NEW f, NEW first, NEW p, first # p, NEW D, D = DOMAIN f
  PROVE  /\ Written(f, FrontLinks(first, p)) = [x \in D |-> Written(f, FrontLinks(first, p))[x]]
         /\ \A x \in D : Written(f, FrontLinks(first, p))[x] =
                        IF x = first THEN p ELSE IF x = p THEN NULL ELSE f[x]
<1> DEFINE us == FrontLinks(first, p)
<1>1. ASSUME NEW x \in D
      PROVE  (IF \E u \in us : u[1] = x THEN (CHOOSE u \in us : u[1] = x)[2] ELSE f[x])
               = (IF x = first THEN p ELSE IF x = p THEN NULL ELSE f[x])
  <2>1. CASE x = first
    <3>1. (CHOOSE u \in us : u[1] = x) = <<first, p>>
      BY <2>1 DEF FrontLinks
    <3> QED
      BY <2>1, <3>1 DEF FrontLinks
  <2>2. CASE x = p
    <3>1. (CHOOSE u \in us : u[1] = x) = <<p, NULL>>
      BY <2>2 DEF FrontLinks
    <3> QED
      BY <2>2, <3>1 DEF FrontLinks
  <2>3. CASE x # first /\ x # p
    BY <2>3 DEF FrontLinks
  <2> QED
    BY <2>1, <2>2, <2>3
<1> QED
  BY <1>1 DEF Written

-----------------------------------------------------------------------------
(* Chains *)

(* s is the chain of the n lemmas of the set S, from its first at 1 to its *)
(* last at n, and the pointers lead along it; NULL is at both its ends.    *)
IsChain(s, n, S, first, last, prev, next) ==
  /\ n \in Nat
  /\ s \in [0..n + 1 -> Lemma \cup {NULL}]
  /\ s[0] = NULL /\ s[n + 1] = NULL
  /\ \A i \in 1..n : s[i] \in S
  /\ \A l \in S : \E i \in 1..n : s[i] = l
  /\ \A i, j \in 1..n : s[i] = s[j] => i = j
  /\ first = s[1] /\ last = s[n]
  /\ \A i \in 1..n : prev[s[i]] = s[i - 1] /\ next[s[i]] = s[i + 1]

(* The chain without its lemma at k, and with p as its first. *)
Without(s, n, k) == [i \in 0..n |-> IF i < k THEN s[i] ELSE s[i + 1]]
With(s, n, p) == [i \in 0..n + 2 |-> IF i = 0 THEN NULL ELSE IF i = 1 THEN p ELSE s[i - 1]]

(* The pointers after p was taken off a chain, and after it became its     *)
(* first; those of p itself do not matter in the one, and do in the other. *)
LinksWithout(S, p, first, last, prev, next, first2, last2, prev2, next2) ==
  /\ \A x \in S : x # p => prev2[x] = IF x = next[p] THEN prev[p] ELSE prev[x]
  /\ \A x \in S : x # p => next2[x] = IF x = prev[p] THEN next[p] ELSE next[x]
  /\ first2 = IF p = first THEN next[p] ELSE first
  /\ last2 = IF p = last THEN prev[p] ELSE last

LinksWith(S, p, first, last, prev, next, last2, prev2, next2) ==
  /\ \A x \in S : prev2[x] = (IF x = first THEN p ELSE prev[x]) /\ next2[x] = next[x]
  /\ prev2[p] = NULL /\ next2[p] = first
  /\ last2 = IF first = NULL THEN p ELSE last

(* NULL is only at the ends of a chain, and a lemma only at its own place. *)
LEMMA ChainEnds ==
  ASSUME NEW s, NEW n, NEW S, S \subseteq Lemma, NEW first, NEW last, NEW prev, NEW next,
         IsChain(s, n, S, first, last, prev, next)
  PROVE  /\ \A i \in 0..n + 1 : s[i] = NULL <=> i = 0 \/ i = n + 1
         /\ \A i, j \in 0..n + 1 : i \in 1..n /\ s[i] = s[j] => i = j
<1>1. /\ n \in Nat /\ s[0] = NULL /\ s[n + 1] = NULL
      /\ \A i \in 1..n : s[i] \in S
      /\ \A i, j \in 1..n : s[i] = s[j] => i = j
      /\ first = s[1] /\ last = s[n]
      /\ \A l \in S : \E i \in 1..n : s[i] = l
  BY DEF IsChain
<1>2. ASSUME NEW i \in 0..n + 1 PROVE i = 0 \/ i = n + 1 \/ (i \in 1..n /\ s[i] \in S /\ s[i] # NULL)
  BY <1>1, LemmaAssumption
<1>3. ASSUME NEW i \in 0..n + 1 PROVE s[i] = NULL <=> i = 0 \/ i = n + 1
  BY <1>1, <1>2
<1>4. ASSUME NEW i \in 0..n + 1, NEW j \in 0..n + 1, i \in 1..n, s[i] = s[j] PROVE i = j
  BY <1>1, <1>2, <1>3, <1>4
<1> QED
  BY <1>3, <1>4

LEMMA ChainFirst ==
  ASSUME NEW s, NEW n, NEW S, NEW first, NEW last, NEW prev, NEW next,
         IsChain(s, n, S, first, last, prev, next)
  PROVE  first \in S \cup {NULL}
<1>1. n \in Nat /\ s[n + 1] = NULL /\ first = s[1]
  BY DEF IsChain
<1>2. \A i \in 1..n : s[i] \in S
  BY DEF IsChain
<1>3. 1 = n + 1 \/ 1 \in 1..n
  BY ONLY <1>1
<1> QED
  BY <1>1, <1>2, <1>3

(* What LPQDequeue makes of a chain. *)
LEMMA ChainWithout ==
  ASSUME NEW s, NEW n, NEW S, S \subseteq Lemma, NEW first, NEW last, NEW prev, NEW next,
         IsChain(s, n, S, first, last, prev, next),
         NEW k \in 1..n, NEW p, p = s[k], NEW prev2, NEW next2, NEW first2, NEW last2,
         LinksWithout(S, p, first, last, prev, next, first2, last2, prev2, next2),
         NEW s2, s2 = Without(s, n, k), NEW n2, n2 = n - 1, NEW S2, S2 = S \ {p}
  PROVE  IsChain(s2, n2, S2, first2, last2, prev2, next2)
<1>1. n \in Nat /\ k \in Nat /\ 1 <= k /\ k <= n /\ n >= 1
  BY DEF IsChain
<1>2. s \in [0..n + 1 -> Lemma \cup {NULL}]
  BY DEF IsChain
<1>3. s[0] = NULL /\ s[n + 1] = NULL /\ first = s[1] /\ last = s[n]
  BY DEF IsChain
<1>4. \A i \in 1..n : s[i] \in S
  BY DEF IsChain
<1>5. \A l \in S : \E i \in 1..n : s[i] = l
  BY DEF IsChain
<1>6. \A i \in 1..n : prev[s[i]] = s[i - 1] /\ next[s[i]] = s[i + 1]
  BY DEF IsChain
<1>7. \A i, j \in 0..n + 1 : i \in 1..n /\ s[i] = s[j] => i = j
  BY ChainEnds
<1>8. PICK t : t = Without(s, n, k)
  OBVIOUS
<1>9. /\ \A i \in 0..n : i < k => t[i] = s[i]
      /\ \A i \in 0..n : k <= i => t[i] = s[i + 1]
  <2>1. \A i \in 0..n : t[i] = IF i < k THEN s[i] ELSE s[i + 1]
    BY <1>8 DEF Without
  <2>2. \A i \in 0..n : k <= i => ~(i < k)
    BY ONLY <1>1
  <2> QED
    BY <2>1, <2>2
<1>10. n - 1 \in Nat /\ (n - 1) + 1 = n
  BY ONLY <1>1
<1>11. t \in [0..n -> Lemma \cup {NULL}]
  <2>1. ASSUME NEW i \in 0..n PROVE (IF i < k THEN s[i] ELSE s[i + 1]) \in Lemma \cup {NULL}
    <3>1. i \in 0..n + 1 /\ i + 1 \in 0..n + 1
      BY ONLY <1>1, i \in 0..n
    <3> QED
      BY <1>2, <3>1
  <2> QED
    BY <2>1, <1>8 DEF Without
<1>12. t[0] = NULL /\ t[n] = NULL
  <2>1. 0 \in 0..n /\ 0 < k /\ n \in 0..n /\ k <= n
    BY ONLY <1>1
  <2> QED
    BY <2>1, <1>3, <1>9
<1> DEFINE At(i, a) == /\ a # k /\ t[i] = s[a]
                       /\ i < k => a = i
                       /\ k <= i => a = i + 1
                       /\ a = k + 1 => t[i - 1] = s[k - 1]
                       /\ a # k + 1 => t[i - 1] = s[a - 1]
                       /\ a = k - 1 => t[i + 1] = s[k + 1]
                       /\ a # k - 1 => t[i + 1] = s[a + 1]
<1>13. ASSUME NEW i \in 1..n - 1 PROVE \E a \in 1..n : At(i, a)
  <2>1. /\ i \in 0..n /\ i - 1 \in 0..n /\ i + 1 \in 0..n /\ i \in 1..n /\ i + 1 \in 1..n
        /\ i \in Nat /\ (i - 1) + 1 = i /\ (i + 1) - 1 = i
    BY ONLY <1>1, i \in 1..n - 1
  <2>2. CASE i < k
    <3>1. /\ i # k /\ i # k + 1 /\ i - 1 < k /\ ~(k <= i)
          /\ i = k - 1 => k <= i + 1 /\ (i + 1) + 1 = k + 1
          /\ i # k - 1 => i + 1 < k
      BY ONLY <1>1, <2>1, <2>2
    <3>2. t[i] = s[i] /\ t[i - 1] = s[i - 1]
      BY <1>9, <2>1, <2>2, <3>1
    <3>3. /\ i = k - 1 => t[i + 1] = s[k + 1]
          /\ i # k - 1 => t[i + 1] = s[i + 1]
      <4>1. /\ i + 1 < k => t[i + 1] = s[i + 1]
            /\ k <= i + 1 => t[i + 1] = s[(i + 1) + 1]
        BY <1>9, <2>1
      <4> QED
        BY ONLY <3>1, <4>1
    <3>4. At(i, i)
      BY ONLY <2>2, <3>1, <3>2, <3>3
    <3> QED
      BY <2>1, <3>4
  <2>3. CASE ~(i < k)
    <3>1. /\ k <= i /\ k <= i + 1 /\ i + 1 # k /\ i + 1 # k - 1
          /\ i + 1 = k + 1 => i - 1 < k /\ i - 1 = k - 1
          /\ i + 1 # k + 1 => k <= i - 1
      BY ONLY <1>1, <2>1, <2>3
    <3>2. t[i] = s[i + 1] /\ t[i + 1] = s[(i + 1) + 1]
      BY <3>1, <1>9, <2>1
    <3>3. /\ i + 1 = k + 1 => t[i - 1] = s[k - 1]
          /\ i + 1 # k + 1 => t[i - 1] = s[(i + 1) - 1]
      <4>1. /\ i - 1 < k => t[i - 1] = s[i - 1]
            /\ k <= i - 1 => t[i - 1] = s[(i - 1) + 1]
        BY <1>9, <2>1
      <4> QED
        BY ONLY <2>1, <3>1, <4>1
    <3>4. At(i, i + 1)
      BY ONLY <2>3, <3>1, <3>2, <3>3
    <3> QED
      BY <2>1, <3>4
  <2> QED
    BY <2>2, <2>3
<1>14. ASSUME NEW i \in 1..n - 1 PROVE t[i] \in S \ {p}
  <2>1. PICK a \in 1..n : a # k /\ t[i] = s[a]
    BY <1>13
  <2>2. a \in 0..n + 1 /\ k \in 0..n + 1
    BY ONLY <1>1, a \in 1..n
  <2>3. s[a] # s[k]
    BY <1>7, <2>1, <2>2
  <2> QED
    BY <1>4, <2>1, <2>3
<1>15. ASSUME NEW l \in S \ {p} PROVE \E i \in 1..n - 1 : t[i] = l
  <2>1. PICK j \in 1..n : s[j] = l
    BY <1>5
  <2>2. j # k
    BY <2>1
  <2>3. CASE j < k
    <3>1. j \in 1..n - 1 /\ j \in 0..n
      BY ONLY <1>1, <2>3, j \in 1..n
    <3> QED
      BY <2>1, <2>3, <3>1, <1>9
  <2>4. CASE ~(j < k)
    <3>1. j - 1 \in 1..n - 1 /\ k <= j - 1 /\ j - 1 \in 0..n /\ (j - 1) + 1 = j
      BY ONLY <1>1, <2>2, <2>4, j \in 1..n
    <3> QED
      BY <3>1, <2>1, <1>9
  <2> QED
    BY <2>3, <2>4
<1>16. ASSUME NEW i \in 1..n - 1, NEW j \in 1..n - 1, t[i] = t[j] PROVE i = j
  <2>1. PICK a \in 1..n : t[i] = s[a] /\ (i < k => a = i) /\ (k <= i => a = i + 1)
    BY <1>13
  <2>2. PICK b \in 1..n : t[j] = s[b] /\ (j < k => b = j) /\ (k <= j => b = j + 1)
    BY <1>13
  <2>3. a \in 0..n + 1 /\ b \in 0..n + 1
    BY ONLY <1>1, a \in 1..n, b \in 1..n
  <2>4. s[a] = s[b]
    BY <1>16, <2>1, <2>2
  <2>5. a = b
    BY <1>7, <2>3, <2>4
  <2>6. i \in Nat /\ j \in Nat
    BY ONLY <1>1, i \in 1..n - 1, j \in 1..n - 1
  <2> QED
    BY ONLY <1>1, <2>1, <2>2, <2>5, <2>6
<1>17. prev[p] = s[k - 1] /\ next[p] = s[k + 1]
  BY <1>6
<1>18. 0 \in 0..n + 1 /\ 1 \in 0..n + 1 /\ n \in 0..n + 1 /\ k \in 0..n + 1
  BY ONLY <1>1
<1> USE DEF LinksWithout
<1>19. first2 = t[1]
  <2>1. p = first <=> k = 1
    BY <1>3, <1>7, <1>18
  <2>2. 1 \in 0..n
    BY ONLY <1>1
  <2>3. CASE k = 1
    <3>1. k <= 1 /\ k + 1 = 1 + 1
      BY ONLY <2>3
    <3>2. t[1] = s[k + 1]
      BY <3>1, <2>2, <1>9
    <3> QED
      BY <2>1, <2>3, <3>2, <1>17
  <2>4. CASE k # 1
    <3>1. 1 < k
      BY ONLY <1>1, <2>4
    <3> QED
      BY <2>1, <2>2, <2>4, <3>1, <1>3, <1>9
  <2> QED
    BY <2>3, <2>4
<1>20. last2 = t[n - 1]
  <2>1. p = last <=> k = n
    BY <1>3, <1>7, <1>18
  <2>2. n - 1 \in 0..n /\ (n - 1) + 1 = n
    BY ONLY <1>1
  <2>3. CASE k = n
    <3>1. n - 1 < k /\ k - 1 = n - 1
      BY ONLY <1>1, <2>3
    <3>2. t[n - 1] = s[n - 1]
      BY <3>1, <2>2, <1>9
    <3> QED
      BY <2>1, <2>3, <3>1, <3>2, <1>17
  <2>4. CASE k # n
    <3>1. k <= n - 1
      BY ONLY <1>1, <2>4
    <3>2. t[n - 1] = s[n]
      BY <2>2, <3>1, <1>9
    <3> QED
      BY <2>1, <2>4, <3>2, <1>3
  <2> QED
    BY <2>3, <2>4
<1>21. ASSUME NEW i \in 1..n - 1 PROVE prev2[t[i]] = t[i - 1] /\ next2[t[i]] = t[i + 1]
  <2>1. PICK a \in 1..n : At(i, a)
    BY <1>13
  <2>2. s[a] \in S /\ s[a] # p
    BY <1>14, <2>1
  <2>3. a \in 0..n + 1 /\ k + 1 \in 0..n + 1 /\ k - 1 \in 0..n + 1
    BY ONLY <1>1, a \in 1..n
  <2>4. s[a] = next[p] <=> a = k + 1
    BY <1>7, <1>17, <2>3
  <2>5. s[a] = prev[p] <=> a = k - 1
    BY <1>7, <1>17, <2>3
  <2>6. prev2[s[a]] = IF a = k + 1 THEN s[k - 1] ELSE s[a - 1]
    BY <2>2, <2>4, <1>6, <1>17
  <2>7. next2[s[a]] = IF a = k - 1 THEN s[k + 1] ELSE s[a + 1]
    BY <2>2, <2>5, <1>6, <1>17
  <2> QED
    BY <2>1, <2>6, <2>7
<1>22. IsChain(t, n - 1, S \ {p}, first2, last2, prev2, next2)
  BY <1>10, <1>11, <1>12, <1>14, <1>15, <1>16, <1>19, <1>20, <1>21 DEF IsChain
<1> QED
  BY <1>8, <1>22

(* What LPQEnqueue makes of a chain. *)
LEMMA ChainWith ==
  ASSUME NEW s, NEW n, NEW S, S \subseteq Lemma, NEW first, NEW last, NEW prev, NEW next,
         IsChain(s, n, S, first, last, prev, next),
         NEW p \in Lemma, p \notin S, NEW prev2, NEW next2, NEW last2,
         LinksWith(S, p, first, last, prev, next, last2, prev2, next2),
         NEW s2, s2 = With(s, n, p), NEW n2, n2 = n + 1, NEW S2, S2 = S \cup {p}
  PROVE  IsChain(s2, n2, S2, p, last2, prev2, next2)
<1>1. n \in Nat /\ n + 1 \in Nat /\ (n + 1) + 1 = n + 2
  BY DEF IsChain
<1>2. s \in [0..n + 1 -> Lemma \cup {NULL}]
  BY DEF IsChain
<1>3. s[0] = NULL /\ s[n + 1] = NULL /\ first = s[1] /\ last = s[n]
  BY DEF IsChain
<1>4. \A i \in 1..n : s[i] \in S
  BY DEF IsChain
<1>5. \A l \in S : \E i \in 1..n : s[i] = l
  BY DEF IsChain
<1>6. \A i \in 1..n : prev[s[i]] = s[i - 1] /\ next[s[i]] = s[i + 1]
  BY DEF IsChain
<1>7. /\ \A i, j \in 0..n + 1 : i \in 1..n /\ s[i] = s[j] => i = j
      /\ \A i \in 0..n + 1 : s[i] = NULL <=> i = 0 \/ i = n + 1
  BY ChainEnds
<1>8. PICK t : t = With(s, n, p)
  OBVIOUS
<1>9. /\ t[0] = NULL /\ t[1] = p
      /\ \A i \in 2..n + 2 : t[i] = s[i - 1]
  <2>1. \A i \in 0..n + 2 : t[i] = IF i = 0 THEN NULL ELSE IF i = 1 THEN p ELSE s[i - 1]
    BY <1>8 DEF With
  <2>2. 0 \in 0..n + 2 /\ 1 \in 0..n + 2 /\ \A i \in 2..n + 2 : i \in 0..n + 2 /\ i # 0 /\ i # 1
    BY ONLY <1>1
  <2> QED
    BY <2>1, <2>2
<1>10. t \in [0..n + 2 -> Lemma \cup {NULL}]
  <2>1. ASSUME NEW i \in 0..n + 2
        PROVE  (IF i = 0 THEN NULL ELSE IF i = 1 THEN p ELSE s[i - 1]) \in Lemma \cup {NULL}
    <3>1. i # 0 /\ i # 1 => i - 1 \in 0..n + 1
      BY ONLY <1>1, i \in 0..n + 2
    <3> QED
      BY <1>2, <3>1
  <2> QED
    BY <2>1, <1>8 DEF With
<1>11. t[n + 2] = NULL
  <2>1. n + 2 \in 2..n + 2 /\ (n + 2) - 1 = n + 1
    BY ONLY <1>1
  <2> QED
    BY <2>1, <1>3, <1>9
<1>12. ASSUME NEW i \in 1..n + 1, i # 1
       PROVE  i - 1 \in 1..n /\ i \in 2..n + 2 /\ i + 1 \in 2..n + 2 /\ t[i] = s[i - 1]
  <2>1. i - 1 \in 1..n /\ i \in 2..n + 2 /\ i + 1 \in 2..n + 2
    BY ONLY <1>1, i \in 1..n + 1, <1>12
  <2> QED
    BY <2>1, <1>9
<1>13. ASSUME NEW i \in 1..n + 1 PROVE t[i] \in S \cup {p}
  BY <1>4, <1>9, <1>12
<1>14. ASSUME NEW l \in S \cup {p} PROVE \E i \in 1..n + 1 : t[i] = l
  <2>1. CASE l = p
    <3>1. 1 \in 1..n + 1
      BY ONLY <1>1
    <3> QED
      BY <2>1, <3>1, <1>9
  <2>2. CASE l # p
    <3>1. PICK j \in 1..n : s[j] = l
      BY <2>2, <1>5
    <3>2. j + 1 \in 1..n + 1 /\ j + 1 \in 2..n + 2 /\ (j + 1) - 1 = j
      BY ONLY <1>1, j \in 1..n
    <3>3. t[j + 1] = l
      BY <3>1, <3>2, <1>9
    <3> QED
      BY <3>2, <3>3
  <2> QED
    BY <2>1, <2>2
<1>15. ASSUME NEW i \in 1..n + 1, NEW j \in 1..n + 1, t[i] = t[j] PROVE i = j
  <2>1. \A x \in 1..n + 1 : x # 1 => t[x] # p
    BY <1>4, <1>12
  <2>2. CASE i = 1 \/ j = 1
    BY <1>9, <1>15, <2>1, <2>2
  <2>3. CASE i # 1 /\ j # 1
    <3>1. i - 1 \in 1..n /\ j - 1 \in 1..n /\ s[i - 1] = s[j - 1]
      BY <1>12, <1>15, <2>3
    <3>2. i - 1 \in 0..n + 1 /\ j - 1 \in 0..n + 1
      BY ONLY <1>1, <3>1
    <3>3. i - 1 = j - 1
      BY <1>7, <3>1, <3>2
    <3> QED
      BY ONLY <3>3, <1>1, i \in 1..n + 1, j \in 1..n + 1
  <2> QED
    BY <2>2, <2>3
<1> USE DEF LinksWith
<1>16. ASSUME NEW i \in 1..n + 1 PROVE prev2[t[i]] = t[i - 1] /\ next2[t[i]] = t[i + 1]
  <2>1. CASE i = 1
    <3>1. 2 \in 2..n + 2 /\ i - 1 = 0 /\ i + 1 = 2 /\ 2 - 1 = 1
      BY ONLY <1>1, <2>1
    <3>2. t[2] = s[1]
      BY <1>9, <3>1
    <3> QED
      BY <1>3, <1>9, <2>1, <3>1, <3>2
  <2>2. CASE i # 1
    <3>1. i - 1 \in 1..n /\ i + 1 \in 2..n + 2 /\ t[i] = s[i - 1]
      BY <1>12, <2>2
    <3>2. /\ (i + 1) - 1 = i /\ (i - 1) + 1 = i /\ i - 1 \in 0..n + 1 /\ 1 \in 0..n + 1
          /\ i - 1 = 1 <=> i = 2
          /\ i # 2 => i - 1 \in 2..n + 2
      BY ONLY <1>1, <2>2, <3>1, i \in 1..n + 1
    <3>3. t[i + 1] = s[i]
      BY <1>9, <3>1, <3>2
    <3>4. s[i - 1] \in S /\ (s[i - 1] = first <=> i - 1 = 1)
      BY <1>3, <1>4, <1>7, <3>1, <3>2
    <3>5. /\ prev2[t[i]] = IF i = 2 THEN p ELSE s[(i - 1) - 1]
          /\ next2[t[i]] = s[i]
      BY <1>6, <3>1, <3>2, <3>4
    <3>6. t[i - 1] = IF i = 2 THEN p ELSE s[(i - 1) - 1]
      BY <1>9, <3>2
    <3> QED
      BY <3>3, <3>5, <3>6
  <2> QED
    BY <2>1, <2>2
<1>17. last2 = t[n + 1]
  <2>1. 1 \in 0..n + 1 /\ (1 = 0 \/ 1 = n + 1 <=> n = 0)
    BY ONLY <1>1
  <2>2. first = NULL <=> n = 0
    BY <1>3, <1>7, <2>1
  <2>3. CASE n = 0
    <3>1. n + 1 = 1
      BY ONLY <2>3
    <3> QED
      BY <1>9, <2>2, <2>3, <3>1
  <2>4. CASE n # 0
    <3>1. n + 1 \in 2..n + 2 /\ (n + 1) - 1 = n
      BY ONLY <1>1, <2>4
    <3> QED
      BY <1>3, <1>9, <2>2, <2>4, <3>1
  <2> QED
    BY <2>3, <2>4
<1>18. p = t[1]
  BY <1>9
<1>19. IsChain(t, n + 1, S \cup {p}, p, last2, prev2, next2)
  BY <1>1, <1>9, <1>10, <1>11, <1>13, <1>14, <1>15, <1>16, <1>17, <1>18 DEF IsChain
<1> QED
  BY <1>8, <1>19

(* The pointers of other lemmas do not matter to a chain. *)
LEMMA ChainKept ==
  ASSUME NEW s, NEW n, NEW S, NEW first, NEW last, NEW prev, NEW next,
         IsChain(s, n, S, first, last, prev, next), NEW prev2, NEW next2,
         \A x \in S : prev2[x] = prev[x] /\ next2[x] = next[x]
  PROVE  IsChain(s, n, S, first, last, prev2, next2)
<1>1. \A i \in 1..n : s[i] \in S
  BY DEF IsChain
<1>2. \A i \in 1..n : prev[s[i]] = s[i - 1] /\ next[s[i]] = s[i + 1]
  BY DEF IsChain
<1>3. \A i \in 1..n : prev2[s[i]] = s[i - 1] /\ next2[s[i]] = s[i + 1]
  BY <1>1, <1>2
<1> QED
  BY <1>3 DEF IsChain

(* The pointers of a lemma of a chain lead to lemmas of it. *)
LEMMA ChainLinks ==
  ASSUME NEW s, NEW n, NEW S, S \subseteq Lemma, NEW first, NEW last, NEW prev, NEW next,
         IsChain(s, n, S, first, last, prev, next), NEW p \in S
  PROVE  /\ prev[p] \in S \cup {NULL} /\ next[p] \in S \cup {NULL}
         /\ prev[p] # p /\ next[p] # p
<1>1. n \in Nat /\ s[0] = NULL /\ s[n + 1] = NULL
  BY DEF IsChain
<1>2. PICK i \in 1..n : s[i] = p
  BY DEF IsChain
<1>3. prev[p] = s[i - 1] /\ next[p] = s[i + 1]
  BY <1>2 DEF IsChain
<1>4. \A j \in 1..n : s[j] \in S
  BY DEF IsChain
<1>5. /\ i - 1 = 0 \/ i - 1 \in 1..n
      /\ i + 1 = n + 1 \/ i + 1 \in 1..n
      /\ i \in 0..n + 1 /\ i - 1 \in 0..n + 1 /\ i + 1 \in 0..n + 1 /\ i - 1 # i /\ i + 1 # i
  BY ONLY <1>1, i \in 1..n
<1>6. \A a, b \in 0..n + 1 : a \in 1..n /\ s[a] = s[b] => a = b
  BY ChainEnds
<1>7. s[i - 1] \in S \cup {NULL} /\ s[i + 1] \in S \cup {NULL}
  BY <1>1, <1>4, <1>5
<1>8. s[i] # s[i - 1] /\ s[i] # s[i + 1]
  BY <1>5, <1>6
<1> QED
  BY <1>2, <1>3, <1>7, <1>8

(* A chain has as many places as the set has lemmas. *)
LEMMA ChainLength ==
  ASSUME NEW s, NEW n, NEW S, S \subseteq Lemma, NEW first, NEW last, NEW prev, NEW next,
         IsChain(s, n, S, first, last, prev, next)
  PROVE  IsFiniteSet(S) /\ Cardinality(S) = n
<1>1. n \in Nat
  BY DEF IsChain
<1>2. DEFINE f == [i \in 1..n |-> s[i]]
<1>3. f \in Bijection(1..n, S)
  <2>1. \A i \in 1..n : f[i] \in S
    BY DEF IsChain
  <2>2. \A i, j \in 1..n : f[i] = f[j] => i = j
    BY DEF IsChain
  <2>3. \A l \in S : \E i \in 1..n : f[i] = l
    BY DEF IsChain
  <2>4. f \in [1..n -> S]
    BY <2>1
  <2> HIDE DEF f
  <2>5. f \in Injection(1..n, S)
    BY <2>2, <2>4, Fun_IsInj
  <2>6. f \in Surjection(1..n, S)
    BY <2>3, <2>4, Fun_IsSurj
  <2> QED
    BY <2>5, <2>6 DEF Bijection
<1>4. IsFiniteSet(S)
  BY LemmaAssumption, FS_Subset
<1>5. IsFiniteSet(1..n) /\ Cardinality(1..n) = n
  <2>1. IsFiniteSet(1..n) /\ Cardinality(1..n) = IF 1 > n THEN 0 ELSE n - 1 + 1
    BY <1>1, FS_Interval
  <2> QED
    BY <2>1, <1>1
<1>6. ExistsBijection(1..n, S)
  BY <1>3 DEF ExistsBijection
<1> QED
  BY <1>4, <1>5, <1>6, FS_Bijection

-----------------------------------------------------------------------------
(* The invariant *)

(* q[c] is the chain of queue c. *)
Chains(q) ==
  /\ q = [c \in Queue |-> q[c]]
  /\ \A c \in Queue : IsChain(q[c], nNumCachedLemmas[c], InQueue(c),
                              pLPQFirst[c], pLPQLast[c], pLPQPrev, pLPQNext)

Pinned == {l \in Lemma : nBacktrackStackReferences[l] > 0}

PinnedOk == IsFiniteSet(Pinned) /\ Cardinality(Pinned) <= MaxPinned

(* Queue c may take in one more lemma. *)
Room(c) == nNumCachedLemmas[c] <= Bound[c] \/ nNumCachedLemmas[c] <= MaxPinned

(* A call waits for one about a later queue, to which it passed the lemma  *)
(* that it has just taken off its own.                                     *)
CallersOk ==
  /\ \A i, j \in 1..Len(calls) : i < j => calls[i].c < calls[j].c
  /\ \A i \in 1..Len(calls) - 1 : calls[i].p = calls[i + 1].lemma /\ Room(calls[i].c)

(* The loop of the latest call is at a lemma of its queue.  It has removed *)
(* as many as it must, or there is none that it may among those behind.    *)
CursorAt(q, k) ==
  /\ Top.p = q[Top.c][k]
  /\ \/ Room(Top.c)
     \/ /\ Top.toRemove > 0
        /\ \A j \in 1..nNumCachedLemmas[Top.c] : j > k => q[Top.c][j] \in Pinned

CursorOk(q) == calls # <<>> => \E k \in 0..nNumCachedLemmas[Top.c] : CursorAt(q, k)

LemmasDiffer ==
  \A i, j \in 1..Len(calls) : i # j => calls[i].lemma # calls[j].lemma

(* The lemmas that are free, waiting, being passed on or cached. *)
PlacesOk ==
  /\ freeLemmas \cap unitLemmas = {}
  /\ Enqueuing \cap (freeLemmas \cup unitLemmas) = {}
  /\ LemmasDiffer
  /\ \A l \in Pinned : l \in Lemma \ (freeLemmas \cup unitLemmas \cup Enqueuing)

IInv == /\ TypeOK /\ PlacesOk /\ PinnedOk /\ CacheBounded /\ CallersOk
        /\ \E q : Chains(q) /\ CursorOk(q)

-----------------------------------------------------------------------------
(* What the steps have in common *)

LEMMA BoundType == \A c \in Queue : c \in Nat /\ Bound[c] \in Nat
<1>1. ASSUME NEW c \in Queue PROVE Bound[c] \in Nat
  <2>1. /\ MAX_NUM_CACHED_LEMMAS \div 5 \in Nat
        /\ MAX_NUM_CACHED_LEMMAS \in Nat
        /\ (MAX_NUM_CACHED_LEMMAS * 4) \div 5 \in Nat
    BY MaxAssumption
  <2>2. c = 0 \/ c = 1 \/ c = 2
    BY DEF Queue
  <2> QED
    BY <2>1, <2>2 DEF Bound
<1> QED
  BY <1>1 DEF Queue

LEMMA TopType ==
  ASSUME TypeOK, calls # <<>>
  PROVE  /\ Len(calls) \in Nat /\ Len(calls) \in 1..Len(calls) /\ Top = calls[Len(calls)]
         /\ Top \in Call /\ Top.c \in Queue /\ Top.lemma \in Lemma
         /\ Top.p \in Lemma \cup {NULL} /\ Top.toRemove \in Nat
<1>1. calls \in Seq(Call) /\ Len(calls) \in Nat /\ Len(calls) # 0
  BY DEF TypeOK
<1>2. Len(calls) \in 1..Len(calls)
  BY <1>1
<1>3. Top \in Call
  BY <1>1, <1>2 DEF Top
<1> QED
  BY <1>1, <1>2, <1>3 DEF Top, Call

LEMMA CallType ==
  ASSUME TypeOK, NEW i \in 1..Len(calls)
  PROVE  calls[i] \in Call /\ calls[i].c \in Queue /\ calls[i].lemma \in Lemma
<1>1. calls[i] \in Call
  BY DEF TypeOK
<1> QED
  BY <1>1 DEF Call

LEMMA EnqueuingIs ==
  ASSUME TypeOK
  PROVE  Enqueuing = {calls[i].lemma : i \in 1..Len(calls)}
<1>1. DOMAIN calls = 1..Len(calls)
  BY DEF TypeOK
<1> QED
  BY <1>1 DEF Enqueuing

LEMMA InQueueIs ==
  ASSUME NEW c \in Queue
  PROVE  /\ InQueue(c) \subseteq Lemma
         /\ \A l \in Lemma : l \in InQueue(c) <=>
              /\ l \notin freeLemmas /\ l \notin unitLemmas /\ l \notin Enqueuing
              /\ cache[l] = c
BY DEF InQueue

LEMMA CachedIs ==
  ASSUME TypeOK
  PROVE  Cached = Lemma \ (freeLemmas \cup unitLemmas \cup Enqueuing)
<1>1. \A l \in Lemma : cache[l] \in Queue
  BY DEF TypeOK
<1>2. \A l : l \in Cached <=> \E c \in Queue : l \in InQueue(c)
  BY DEF Cached
<1> QED
  BY <1>1, <1>2, InQueueIs

(* Each queue's chain after its lemma at k was taken off. *)
LEMMA DequeueKeepsChains ==
  ASSUME TypeOK, NEW q, Chains(q), NEW c \in Queue, NEW k \in 1..nNumCachedLemmas[c],
         NEW p, p = q[c][k], LPQDequeue(p),
         \A d \in Queue : InQueue(d)' = InQueue(d) \ {p}
  PROVE  /\ p \in InQueue(c) /\ cache[p] = c /\ pLPQPrev[p] = q[c][k - 1]
         /\ nNumCachedLemmas[c] - 1 \in Nat
         /\ nNumCachedLemmas' = [nNumCachedLemmas EXCEPT ![c] = @ - 1]
         /\ pLPQNext' \in [Lemma -> Lemma \cup {NULL}]
         /\ pLPQPrev' \in [Lemma -> Lemma \cup {NULL}]
         /\ pLPQFirst' \in [Queue -> Lemma \cup {NULL}]
         /\ pLPQLast' \in [Queue -> Lemma \cup {NULL}]
         /\ \E r : /\ Chains(r)' /\ r[c] = Without(q[c], nNumCachedLemmas[c], k)
                   /\ \A d \in Queue : d # c => r[d] = q[d]
<1>1. PICK n : n = nNumCachedLemmas[c]
  OBVIOUS
<1>2. \A d \in Queue : IsChain(q[d], nNumCachedLemmas[d], InQueue(d),
                               pLPQFirst[d], pLPQLast[d], pLPQPrev, pLPQNext)
  BY DEF Chains
<1>3. /\ n \in Nat /\ k \in 1..n
      /\ \A i \in 1..n : q[c][i] \in InQueue(c)
      /\ \A i \in 1..n : pLPQPrev[q[c][i]] = q[c][i - 1]
  BY <1>1, <1>2 DEF IsChain
<1>4. p \in InQueue(c) /\ pLPQPrev[p] = q[c][k - 1]
  BY <1>3
<1>5. p \in Lemma /\ cache[p] = c
  BY <1>4, InQueueIs
<1>6. n - 1 \in Nat
  BY ONLY <1>3
<1>7. /\ DOMAIN pLPQNext = Lemma /\ DOMAIN pLPQPrev = Lemma
      /\ pLPQNext[p] \in Lemma \cup {NULL} /\ pLPQPrev[p] \in Lemma \cup {NULL}
      /\ \A x \in Lemma : pLPQNext[x] \in Lemma \cup {NULL} /\ pLPQPrev[x] \in Lemma \cup {NULL}
  BY <1>5 DEF TypeOK
<1>8. pLPQNext' = [x \in Lemma |-> IF x = pLPQPrev[p] THEN pLPQNext[p] ELSE pLPQNext[x]]
  <2>1. PICK g, at, to, v, ws, h : /\ g = pLPQNext /\ at = pLPQPrev[p] /\ to = pLPQNext[p]
                                 /\ v = <<at, to>> /\ ws = {v} /\ h = Written(g, ws)
    OBVIOUS
  <2>2. pLPQNext' = h
    BY <2>1 DEF LPQDequeue
  <2>3. h = [x \in Lemma |-> h[x]] /\ \A x \in Lemma : h[x] = IF x = at THEN to ELSE g[x]
    BY <1>7, <2>1, WrittenOnce
  <2> QED
    BY <2>1, <2>2, <2>3
<1>9. pLPQPrev' = [x \in Lemma |-> IF x = pLPQNext[p] THEN pLPQPrev[p] ELSE pLPQPrev[x]]
  <2>1. PICK g, at, to, v, ws, h : /\ g = pLPQPrev /\ at = pLPQNext[p] /\ to = pLPQPrev[p]
                                 /\ v = <<at, to>> /\ ws = {v} /\ h = Written(g, ws)
    OBVIOUS
  <2>2. pLPQPrev' = h
    BY <2>1 DEF LPQDequeue
  <2>3. h = [x \in Lemma |-> h[x]] /\ \A x \in Lemma : h[x] = IF x = at THEN to ELSE g[x]
    BY <1>7, <2>1, WrittenOnce
  <2> QED
    BY <2>1, <2>2, <2>3
<1>10. /\ pLPQNext' \in [Lemma -> Lemma \cup {NULL}]
       /\ pLPQPrev' \in [Lemma -> Lemma \cup {NULL}]
  BY <1>7, <1>8, <1>9
<1>11. nNumCachedLemmas' = [nNumCachedLemmas EXCEPT ![c] = @ - 1]
  BY <1>5 DEF LPQDequeue
<1>12. /\ pLPQFirst \in [Queue -> Lemma \cup {NULL}]
       /\ pLPQLast \in [Queue -> Lemma \cup {NULL}]
       /\ nNumCachedLemmas \in [Queue -> Nat]
  BY DEF TypeOK
<1>13. /\ pLPQFirst' \in [Queue -> Lemma \cup {NULL}]
       /\ pLPQLast' \in [Queue -> Lemma \cup {NULL}]
  BY <1>5, <1>7, <1>12 DEF LPQDequeue
<1>14. /\ pLPQFirst'[c] = IF p = pLPQFirst[c] THEN pLPQNext[p] ELSE pLPQFirst[c]
       /\ pLPQLast'[c] = IF p = pLPQLast[c] THEN pLPQPrev[p] ELSE pLPQLast[c]
       /\ nNumCachedLemmas'[c] = n - 1
       /\ \A d \in Queue : d # c => /\ pLPQFirst'[d] = pLPQFirst[d]
                                    /\ pLPQLast'[d] = pLPQLast[d]
                                    /\ nNumCachedLemmas'[d] = nNumCachedLemmas[d]
  BY <1>1, <1>5, <1>11, <1>12 DEF LPQDequeue
<1>15. PICK r : r = [d \in Queue |-> IF d = c THEN Without(q[c], n, k) ELSE q[d]]
  OBVIOUS
<1>16. /\ r = [d \in Queue |-> r[d]] /\ r[c] = Without(q[c], n, k)
       /\ \A d \in Queue : d # c => r[d] = q[d]
  BY <1>15
<1>17. IsChain(r[c], n - 1, InQueue(c) \ {p}, pLPQFirst'[c], pLPQLast'[c], pLPQPrev', pLPQNext')
  <2>1. IsChain(q[c], n, InQueue(c), pLPQFirst[c], pLPQLast[c], pLPQPrev, pLPQNext)
    BY <1>1, <1>2
  <2>2. InQueue(c) \subseteq Lemma
    BY InQueueIs
  <2>3. /\ \A x \in InQueue(c) : x # p => pLPQPrev'[x] = IF x = pLPQNext[p] THEN pLPQPrev[p] ELSE pLPQPrev[x]
        /\ \A x \in InQueue(c) : x # p => pLPQNext'[x] = IF x = pLPQPrev[p] THEN pLPQNext[p] ELSE pLPQNext[x]
    BY <1>8, <1>9, <2>2
  <2>4. PICK s, S, f, l, f2, l2 : /\ s = q[c] /\ S = InQueue(c)
                                  /\ f = pLPQFirst[c] /\ l = pLPQLast[c]
                                  /\ f2 = pLPQFirst'[c] /\ l2 = pLPQLast'[c]
    OBVIOUS
  <2>5. PICK pv, nx, pv2, nx2 : /\ pv = pLPQPrev /\ nx = pLPQNext
                                /\ pv2 = pLPQPrev' /\ nx2 = pLPQNext'
    OBVIOUS
  <2>6. /\ S \subseteq Lemma /\ IsChain(s, n, S, f, l, pv, nx) /\ k \in 1..n /\ p = s[k]
        /\ LinksWithout(S, p, f, l, pv, nx, f2, l2, pv2, nx2)
    BY <1>3, <1>14, <2>1, <2>2, <2>3, <2>4, <2>5 DEF LinksWithout
  <2>7. PICK t, m, U : t = Without(s, n, k) /\ m = n - 1 /\ U = S \ {p}
    OBVIOUS
  <2>8. IsChain(t, m, U, f2, l2, pv2, nx2)
    BY <2>6, <2>7, ChainWithout
  <2> QED
    BY <2>4, <2>5, <2>7, <2>8, <1>16
<1>18. ASSUME NEW d \in Queue, d # c
       PROVE  IsChain(r[d], nNumCachedLemmas'[d], InQueue(d)', pLPQFirst'[d], pLPQLast'[d], pLPQPrev', pLPQNext')
  <2>1. IsChain(q[d], nNumCachedLemmas[d], InQueue(d), pLPQFirst[d], pLPQLast[d], pLPQPrev, pLPQNext)
    BY <1>2
  <2>2. InQueue(d) \subseteq Lemma /\ p \notin InQueue(d) /\ InQueue(d) \cap InQueue(c) = {}
    BY <1>5, <1>18, InQueueIs
  <2>3. InQueue(d)' = InQueue(d)
    BY <2>2
  <2>4. pLPQNext[p] \in InQueue(c) \cup {NULL} /\ pLPQPrev[p] \in InQueue(c) \cup {NULL}
    BY <1>2, <1>4, InQueueIs, ChainLinks
  <2>5. \A x \in InQueue(d) : pLPQPrev'[x] = pLPQPrev[x] /\ pLPQNext'[x] = pLPQNext[x]
    BY <1>8, <1>9, <2>2, <2>4, LemmaAssumption
  <2>6. IsChain(q[d], nNumCachedLemmas[d], InQueue(d), pLPQFirst[d], pLPQLast[d], pLPQPrev', pLPQNext')
    BY <2>1, <2>5, ChainKept
  <2> QED
    BY <2>3, <2>6, <1>14, <1>16, <1>18
<1>19. Chains(r)'
  <2>1. ASSUME NEW d \in Queue
        PROVE  IsChain(r[d], nNumCachedLemmas'[d], InQueue(d)', pLPQFirst'[d], pLPQLast'[d], pLPQPrev', pLPQNext')
    BY <1>14, <1>17, <1>18
  <2> QED
    BY <2>1, <1>16 DEF Chains
<1> QED
  BY <1>1, <1>4, <1>5, <1>6, <1>10, <1>11, <1>13, <1>16, <1>19

(* Each queue's chain after a lemma became the first of one. *)
LEMMA EnqueueKeepsChains ==
  ASSUME TypeOK, NEW q, Chains(q), NEW c \in Queue, NEW p \in Lemma,
         \A d \in Queue : p \notin InQueue(d), LPQEnqueue(c, p),
         InQueue(c)' = InQueue(c) \cup {p},
         \A d \in Queue : d # c => InQueue(d)' = InQueue(d)
  PROVE  /\ pLPQPrev'[p] = NULL
         /\ nNumCachedLemmas' = [nNumCachedLemmas EXCEPT ![c] = @ + 1]
         /\ pLPQNext' \in [Lemma -> Lemma \cup {NULL}]
         /\ pLPQPrev' \in [Lemma -> Lemma \cup {NULL}]
         /\ pLPQFirst' \in [Queue -> Lemma \cup {NULL}]
         /\ pLPQLast' \in [Queue -> Lemma \cup {NULL}]
         /\ \E r : Chains(r)' /\ \A d \in Queue : d # c => r[d] = q[d]
<1>1. PICK n : n = nNumCachedLemmas[c]
  OBVIOUS
<1>2. \A d \in Queue : IsChain(q[d], nNumCachedLemmas[d], InQueue(d),
                               pLPQFirst[d], pLPQLast[d], pLPQPrev, pLPQNext)
  BY DEF Chains
<1>3. n \in Nat /\ pLPQFirst[c] \in InQueue(c) \cup {NULL}
  <2>1. IsChain(q[c], n, InQueue(c), pLPQFirst[c], pLPQLast[c], pLPQPrev, pLPQNext)
    BY <1>1, <1>2
  <2>2. n \in Nat
    BY <2>1 DEF IsChain
  <2> QED
    BY <2>1, <2>2, ChainFirst
<1>4. pLPQFirst[c] # p /\ pLPQFirst[c] \in InQueue(c) \cup {NULL}
  BY <1>3, LemmaAssumption
<1>5. /\ DOMAIN pLPQPrev = Lemma
      /\ pLPQFirst \in [Queue -> Lemma \cup {NULL}]
      /\ pLPQLast \in [Queue -> Lemma \cup {NULL}]
      /\ pLPQPrev \in [Lemma -> Lemma \cup {NULL}]
      /\ pLPQNext \in [Lemma -> Lemma \cup {NULL}]
      /\ nNumCachedLemmas \in [Queue -> Nat]
  BY DEF TypeOK
<1>6. pLPQPrev' = [x \in Lemma |-> IF x = pLPQFirst[c] THEN p ELSE IF x = p THEN NULL ELSE pLPQPrev[x]]
  <2>1. PICK g, at, h : g = pLPQPrev /\ at = pLPQFirst[c] /\ h = Written(g, FrontLinks(at, p))
    OBVIOUS
  <2>2. pLPQPrev' = h
    BY <2>1 DEF LPQEnqueue, FrontLinks
  <2>3. h = [x \in Lemma |-> h[x]] /\ \A x \in Lemma : h[x] = IF x = at THEN p ELSE IF x = p THEN NULL ELSE g[x]
    BY <1>4, <1>5, <2>1, WrittenTwice
  <2> QED
    BY <2>1, <2>2, <2>3
<1>7. pLPQNext' = [pLPQNext EXCEPT ![p] = pLPQFirst[c]]
  BY DEF LPQEnqueue
<1>8. /\ pLPQNext' \in [Lemma -> Lemma \cup {NULL}]
      /\ pLPQPrev' \in [Lemma -> Lemma \cup {NULL}]
      /\ pLPQFirst' \in [Queue -> Lemma \cup {NULL}]
      /\ pLPQLast' \in [Queue -> Lemma \cup {NULL}]
      /\ nNumCachedLemmas' = [nNumCachedLemmas EXCEPT ![c] = @ + 1]
  <2>1. pLPQFirst[c] \in Lemma \cup {NULL}
    BY <1>5
  <2>2. pLPQNext' \in [Lemma -> Lemma \cup {NULL}]
    BY <2>1, <1>5, <1>7
  <2>3. pLPQPrev' \in [Lemma -> Lemma \cup {NULL}]
    BY <1>5, <1>6
  <2>4. pLPQFirst' \in [Queue -> Lemma \cup {NULL}]
    BY <1>5 DEF LPQEnqueue
  <2>5. pLPQLast' \in [Queue -> Lemma \cup {NULL}]
    BY <1>5 DEF LPQEnqueue
  <2> QED
    BY <2>2, <2>3, <2>4, <2>5 DEF LPQEnqueue
<1>9. /\ pLPQFirst'[c] = p
      /\ pLPQLast'[c] = IF pLPQFirst[c] = NULL THEN p ELSE pLPQLast[c]
      /\ nNumCachedLemmas'[c] = n + 1
      /\ \A d \in Queue : d # c => /\ pLPQFirst'[d] = pLPQFirst[d]
                                   /\ pLPQLast'[d] = pLPQLast[d]
                                   /\ nNumCachedLemmas'[d] = nNumCachedLemmas[d]
  BY <1>1, <1>5 DEF LPQEnqueue
<1>10. PICK r : r = [d \in Queue |-> IF d = c THEN With(q[c], n, p) ELSE q[d]]
  OBVIOUS
<1>11. /\ r = [d \in Queue |-> r[d]] /\ r[c] = With(q[c], n, p)
       /\ \A d \in Queue : d # c => r[d] = q[d]
  BY <1>10
<1>12. pLPQPrev'[p] = NULL
  BY <1>4, <1>6
<1>13. IsChain(r[c], nNumCachedLemmas'[c], InQueue(c)', pLPQFirst'[c], pLPQLast'[c], pLPQPrev', pLPQNext')
  <2>1. IsChain(q[c], n, InQueue(c), pLPQFirst[c], pLPQLast[c], pLPQPrev, pLPQNext)
    BY <1>1, <1>2
  <2>2. InQueue(c) \subseteq Lemma /\ p \notin InQueue(c)
    BY InQueueIs
  <2>3. PICK s, S, f, l, l2 : /\ s = q[c] /\ S = InQueue(c)
                              /\ f = pLPQFirst[c] /\ l = pLPQLast[c] /\ l2 = pLPQLast'[c]
    OBVIOUS
  <2>4. PICK pv, nx, pv2, nx2 : /\ pv = pLPQPrev /\ nx = pLPQNext
                                /\ pv2 = pLPQPrev' /\ nx2 = pLPQNext'
    OBVIOUS
  <2>5. PICK t, m, U : t = With(s, n, p) /\ m = n + 1 /\ U = S \cup {p}
    OBVIOUS
  <2>6. LinksWith(S, p, f, l, pv, nx, l2, pv2, nx2)
    <3>1. \A x \in S : pv2[x] = (IF x = f THEN p ELSE pv[x]) /\ nx2[x] = nx[x]
      BY <1>5, <1>6, <1>7, <2>2, <2>3, <2>4
    <3>2. pv2[p] = NULL /\ nx2[p] = f /\ l2 = IF f = NULL THEN p ELSE l
      BY <1>5, <1>7, <1>9, <1>12, <2>3, <2>4
    <3> QED
      BY <3>1, <3>2 DEF LinksWith
  <2>7. S \subseteq Lemma /\ p \notin S /\ IsChain(s, n, S, f, l, pv, nx)
    BY <2>1, <2>2, <2>3, <2>4
  <2>8. IsChain(t, m, U, p, l2, pv2, nx2)
    BY <2>5, <2>6, <2>7, ChainWith
  <2> QED
    BY <2>3, <2>4, <2>5, <2>8, <1>9, <1>11
<1>14. ASSUME NEW d \in Queue, d # c
       PROVE  IsChain(r[d], nNumCachedLemmas'[d], InQueue(d)', pLPQFirst'[d], pLPQLast'[d], pLPQPrev', pLPQNext')
  <2>1. IsChain(q[d], nNumCachedLemmas[d], InQueue(d), pLPQFirst[d], pLPQLast[d], pLPQPrev, pLPQNext)
    BY <1>2
  <2>2. InQueue(d) \subseteq Lemma /\ p \notin InQueue(d) /\ InQueue(d) \cap InQueue(c) = {}
    BY <1>14, InQueueIs
  <2>3. InQueue(d)' = InQueue(d)
    BY <1>14
  <2>4. \A x \in InQueue(d) : pLPQPrev'[x] = pLPQPrev[x] /\ pLPQNext'[x] = pLPQNext[x]
    BY <1>4, <1>5, <1>6, <1>7, <2>2, LemmaAssumption
  <2>5. IsChain(q[d], nNumCachedLemmas[d], InQueue(d), pLPQFirst[d], pLPQLast[d], pLPQPrev', pLPQNext')
    BY <2>1, <2>4, ChainKept
  <2> QED
    BY <2>3, <2>5, <1>9, <1>11, <1>14
<1>15. Chains(r)'
  <2>1. ASSUME NEW d \in Queue
        PROVE  IsChain(r[d], nNumCachedLemmas'[d], InQueue(d)', pLPQFirst'[d], pLPQLast'[d], pLPQPrev', pLPQNext')
    BY <1>13, <1>14
  <2> QED
    BY <2>1, <1>11 DEF Chains
<1> QED
  BY <1>8, <1>11, <1>12, <1>15

(* Steps that leave the queues alone. *)
LEMMA ChainsKept ==
  ASSUME NEW q, Chains(q), UNCHANGED queues, \A d \in Queue : InQueue(d)' = InQueue(d)
  PROVE  Chains(q)'
<1>1. ASSUME NEW d \in Queue
      PROVE  IsChain(q[d], nNumCachedLemmas'[d], InQueue(d)', pLPQFirst'[d], pLPQLast'[d], pLPQPrev', pLPQNext')
  <2>1. IsChain(q[d], nNumCachedLemmas[d], InQueue(d), pLPQFirst[d], pLPQLast[d], pLPQPrev, pLPQNext)
    BY DEF Chains
  <2> QED
    BY <2>1 DEF queues
<1> QED
  BY <1>1 DEF Chains

-----------------------------------------------------------------------------
(* The calls *)

(* The latest call moves its cursor or its counter. *)
LEMMA TopChanges ==
  ASSUME TypeOK, CallersOk, LemmasDiffer, calls # <<>>,
         NEW w \in Call, w.c = Top.c, w.lemma = Top.lemma,
         calls' = [calls EXCEPT ![Len(calls)] = w],
         \A d \in Queue : d # Top.c => nNumCachedLemmas'[d] = nNumCachedLemmas[d]
  PROVE  /\ calls' \in Seq(Call) /\ calls' # <<>> /\ Top' = w
         /\ Enqueuing' = Enqueuing /\ CallersOk' /\ LemmasDiffer'
<1>1. PICK n : n = Len(calls)
  OBVIOUS
<1>2. n \in Nat /\ n \in 1..n /\ Top = calls[n]
  BY <1>1, TopType
<1>3. calls \in Seq(Call)
  BY DEF TypeOK
<1>4. calls' \in Seq(Call) /\ Len(calls') = n
  BY <1>1, <1>2, <1>3
<1>5. calls'[n] = w /\ \A i \in 1..n : i # n => calls'[i] = calls[i]
  BY <1>1, <1>2, <1>3
<1>6. calls' # <<>> /\ Top' = w
  BY <1>2, <1>4, <1>5 DEF Top
<1>7. \A i \in 1..n : calls'[i].lemma = calls[i].lemma /\ calls'[i].c = calls[i].c
  BY <1>2, <1>5
<1>8. Enqueuing' = Enqueuing
  <2>1. DOMAIN calls' = 1..n /\ DOMAIN calls = 1..n
    BY <1>1, <1>3, <1>4
  <2> QED
    BY <2>1, <1>7 DEF Enqueuing
<1>9. LemmasDiffer'
  BY <1>1, <1>4, <1>7 DEF LemmasDiffer
<1>10. CallersOk'
  <2>1. \A i, j \in 1..n : i < j => calls'[i].c < calls'[j].c
    BY <1>1, <1>7 DEF CallersOk
  <2>2. ASSUME NEW i \in 1..n - 1
        PROVE  /\ calls'[i].p = calls'[i + 1].lemma
               /\ \/ nNumCachedLemmas'[calls'[i].c] <= Bound[calls'[i].c]
                  \/ nNumCachedLemmas'[calls'[i].c] <= MaxPinned
    <3>1. i \in 1..n /\ i # n /\ i + 1 \in 1..n /\ i < n
      BY <1>2
    <3>2. calls'[i] = calls[i] /\ calls'[i + 1].lemma = calls[i + 1].lemma
      BY <3>1, <1>5, <1>7
    <3>3. calls[i].p = calls[i + 1].lemma /\ Room(calls[i].c)
      BY <1>1 DEF CallersOk
    <3>4. calls[i].c < calls[n].c /\ calls[i].c \in Queue /\ calls[n].c \in Queue
      BY <1>1, <1>2, <3>1, CallType DEF CallersOk
    <3>5. calls[i].c # Top.c
      BY <1>2, <3>4, BoundType
    <3> QED
      BY <3>2, <3>3, <3>4, <3>5 DEF Room
  <2> QED
    BY <2>1, <2>2, <1>4 DEF CallersOk, Room
<1> QED
  BY <1>4, <1>6, <1>8, <1>9, <1>10

(* The latest call passes a lemma on. *)
LEMMA TopPushes ==
  ASSUME TypeOK, CallersOk, LemmasDiffer, calls # <<>>,
         NEW w \in Call, w.c = Top.c, w.lemma = Top.lemma,
         NEW u \in Call, w.p = u.lemma, Top.c < u.c, u.lemma \notin Enqueuing,
         calls' = Append([calls EXCEPT ![Len(calls)] = w], u),
         \A d \in Queue : d # Top.c => nNumCachedLemmas'[d] = nNumCachedLemmas[d],
         \/ nNumCachedLemmas'[Top.c] <= Bound[Top.c]
         \/ nNumCachedLemmas'[Top.c] <= MaxPinned
  PROVE  /\ calls' \in Seq(Call) /\ calls' # <<>> /\ Top' = u
         /\ Enqueuing' = Enqueuing \cup {u.lemma} /\ CallersOk' /\ LemmasDiffer'
<1>1. PICK n : n = Len(calls)
  OBVIOUS
<1>2. n \in Nat /\ n \in 1..n /\ Top = calls[n] /\ n + 1 \in Nat /\ n + 1 \notin 1..n
  BY <1>1, TopType
<1>3. calls \in Seq(Call)
  BY DEF TypeOK
<1>4. calls' \in Seq(Call) /\ Len(calls') = n + 1
  BY <1>1, <1>2, <1>3
<1>5. calls'[n] = w /\ calls'[n + 1] = u /\ \A i \in 1..n : i # n => calls'[i] = calls[i]
  BY <1>1, <1>2, <1>3
<1>6. calls' # <<>> /\ Top' = u
  BY <1>2, <1>4, <1>5 DEF Top
<1>7. \A i \in 1..n : calls'[i].lemma = calls[i].lemma /\ calls'[i].c = calls[i].c
  BY <1>2, <1>5
<1>8. \A i \in 1..n + 1 : i \in 1..n \/ i = n + 1
  BY <1>2
<1>9. 1..n \subseteq 1..n + 1 /\ n + 1 \in 1..n + 1
  BY <1>2
<1>10. DOMAIN calls' = 1..n + 1 /\ DOMAIN calls = 1..n
  BY <1>1, <1>3, <1>4
<1>11. Enqueuing' = Enqueuing \cup {u.lemma}
  <2>1. ASSUME NEW x \in Enqueuing' PROVE x \in Enqueuing \cup {u.lemma}
    <3>1. PICK i \in 1..n + 1 : x = calls'[i].lemma
      BY <2>1, <1>10 DEF Enqueuing
    <3> QED
      BY <3>1, <1>5, <1>7, <1>8, <1>10 DEF Enqueuing
  <2>2. ASSUME NEW x \in Enqueuing PROVE x \in Enqueuing'
    <3>1. PICK i \in 1..n : x = calls[i].lemma
      BY <1>10 DEF Enqueuing
    <3> QED
      BY <3>1, <1>7, <1>9, <1>10 DEF Enqueuing
  <2>3. u.lemma \in Enqueuing'
    BY <1>5, <1>9, <1>10 DEF Enqueuing
  <2> QED
    BY <2>1, <2>2, <2>3
<1>12. LemmasDiffer'
  <2>1. \A i \in 1..n : calls[i].lemma # u.lemma
    BY <1>10 DEF Enqueuing
  <2>2. ASSUME NEW i \in 1..n + 1, NEW j \in 1..n + 1, i # j PROVE calls'[i].lemma # calls'[j].lemma
    BY <2>1, <2>2, <1>1, <1>5, <1>7, <1>8 DEF LemmasDiffer
  <2> QED
    BY <2>2, <1>4 DEF LemmasDiffer
<1>13. \A i \in 1..n : calls[i].c \in Queue /\ (i # n => calls[i].c < Top.c)
  <2>1. ASSUME NEW i \in 1..n PROVE calls[i].c \in Queue /\ (i # n => i < n)
    BY <1>1, CallType
  <2> QED
    BY <2>1, <1>1, <1>2 DEF CallersOk
<1>14. Top.c \in Int /\ u.c \in Int /\ \A d \in Queue : d \in Int
  BY TopType, BoundType DEF Call
<1>15. CallersOk'
  <2>1. ASSUME NEW i \in 1..n + 1, NEW j \in 1..n + 1, i < j PROVE calls'[i].c < calls'[j].c
    <3>1. i \in 1..n
      BY <2>1, <1>2
    <3>2. CASE j \in 1..n
      BY <2>1, <3>1, <3>2, <1>1, <1>7 DEF CallersOk
    <3>3. CASE j = n + 1
      <4>1. calls[i].c <= Top.c
        BY <3>1, <1>2, <1>13, <1>14
      <4>2. calls[i].c \in Int
        BY <3>1, <1>13, <1>14
      <4>3. calls'[i].c = calls[i].c /\ calls'[j].c = u.c
        BY <3>1, <3>3, <1>5, <1>7
      <4>4. PICK x, y, z : x = calls[i].c /\ y = Top.c /\ z = u.c
        OBVIOUS
      <4>5. x \in Int /\ y \in Int /\ z \in Int /\ x <= y /\ y < z
        BY <4>1, <4>2, <4>4, <1>14
      <4>6. x < z
        BY ONLY <4>5
      <4> QED
        BY <4>3, <4>4, <4>6
    <3> QED
      BY <3>2, <3>3, <1>8
  <2>2. ASSUME NEW i \in 1..(n + 1) - 1
        PROVE  /\ calls'[i].p = calls'[i + 1].lemma
               /\ \/ nNumCachedLemmas'[calls'[i].c] <= Bound[calls'[i].c]
                  \/ nNumCachedLemmas'[calls'[i].c] <= MaxPinned
    <3>1. i \in 1..n /\ i + 1 \in 1..n + 1
      BY <1>2
    <3>2. CASE i = n
      BY <3>2, <1>5
    <3>3. CASE i # n
      <4>1. i + 1 \in 1..n /\ i \in 1..n - 1
        BY <3>1, <3>3, <1>2
      <4>2. calls'[i] = calls[i] /\ calls'[i + 1].lemma = calls[i + 1].lemma
        BY <3>1, <3>3, <4>1, <1>5, <1>7
      <4>3. calls[i].p = calls[i + 1].lemma /\ Room(calls[i].c)
        BY <4>1, <1>1 DEF CallersOk
      <4>4. calls[i].c # Top.c /\ calls[i].c \in Queue
        BY <3>1, <3>3, <1>13, <1>14
      <4> QED
        BY <4>2, <4>3, <4>4 DEF Room
    <3> QED
      BY <3>2, <3>3
  <2> QED
    BY <2>1, <2>2, <1>4 DEF CallersOk, Room
<1> QED
  BY <1>4, <1>6, <1>11, <1>12, <1>15

(* The latest call returns.  Its caller finds the lemma that it was about  *)
(* at the front of the later queue, with no lemma before it.               *)
LEMMA TopReturns ==
  ASSUME TypeOK, CallersOk, LemmasDiffer, calls # <<>>,
         LET rest == SubSeq(calls, 1, Len(calls) - 1)
         IN  calls' = IF rest = <<>> THEN <<>> ELSE [rest EXCEPT ![Len(rest)].p = pLPQPrev'[@]],
         pLPQPrev'[Top.lemma] = NULL,
         \A d \in Queue : d # Top.c => nNumCachedLemmas'[d] = nNumCachedLemmas[d]
  PROVE  /\ calls' \in Seq(Call)
         /\ Enqueuing' = Enqueuing \ {Top.lemma} /\ CallersOk' /\ LemmasDiffer'
         /\ calls' # <<>> => /\ Top'.p = NULL /\ Top'.c \in Queue
                             /\ \/ nNumCachedLemmas'[Top'.c] <= Bound[Top'.c]
                                \/ nNumCachedLemmas'[Top'.c] <= MaxPinned
<1>1. PICK n : n = Len(calls)
  OBVIOUS
<1>2. n \in Nat /\ n \in 1..n /\ Top = calls[n] /\ n - 1 \in Nat
  BY <1>1, TopType
<1>3. calls \in Seq(Call)
  BY DEF TypeOK
<1>4. PICK rest : rest = SubSeq(calls, 1, n - 1)
  OBVIOUS
<1>5. rest \in Seq(Call) /\ Len(rest) = n - 1 /\ \A i \in 1..n - 1 : rest[i] = calls[i]
  BY <1>1, <1>2, <1>3, <1>4
<1>6. calls' = IF rest = <<>> THEN <<>> ELSE [rest EXCEPT ![Len(rest)].p = pLPQPrev'[@]]
  BY <1>1, <1>4
<1>7. /\ calls' \in Seq(Call) /\ Len(calls') = n - 1
      /\ \A i \in 1..n - 1 : calls'[i].lemma = calls[i].lemma /\ calls'[i].c = calls[i].c
      /\ \A i \in 1..n - 1 : i # n - 1 => calls'[i] = calls[i]
      /\ n - 1 # 0 => calls'[n - 1].p = NULL
  <2>1. CASE n - 1 = 0
    <3>1. rest = <<>>
      BY <2>1, <1>5
    <3> QED
      BY <2>1, <3>1, <1>6
  <2>2. CASE n - 1 # 0
    <3>1. n - 1 \in 1..n - 1 /\ (n - 1) + 1 = n /\ rest # <<>>
      BY <2>2, <1>2, <1>5
    <3>2. rest[n - 1] \in Call /\ rest[n - 1] = calls[n - 1]
      BY <3>1, <1>5
    <3>3. rest[n - 1].p = Top.lemma
      BY <3>1, <3>2, <1>1, <1>2 DEF CallersOk
    <3>4. PICK w : w = [rest[n - 1] EXCEPT !.p = NULL]
      OBVIOUS
    <3>5. calls' = [rest EXCEPT ![n - 1] = w]
      BY <3>1, <3>3, <3>4, <1>5, <1>6
    <3>6. w \in Call /\ w.c = rest[n - 1].c /\ w.lemma = rest[n - 1].lemma /\ w.p = NULL
      BY <3>2, <3>4 DEF Call
    <3>7. /\ calls' \in Seq(Call) /\ Len(calls') = n - 1 /\ calls'[n - 1] = w
          /\ \A i \in 1..n - 1 : i # n - 1 => calls'[i] = rest[i]
      <4>1. rest \in Seq(Call) /\ Len(rest) = n - 1 /\ n - 1 \in 1..n - 1 /\ w \in Call
        BY <3>1, <3>6, <1>5
      <4> QED
        BY ONLY <4>1, <3>5
    <3> QED
      BY <3>2, <3>6, <3>7, <1>5
  <2> QED
    BY <2>1, <2>2
<1>8. \A i \in 1..n - 1 : i \in 1..n /\ i # n /\ i < n
  BY <1>2
<1>9. \A i \in 1..n : i \in 1..n - 1 \/ i = n
  BY <1>2
<1>10. DOMAIN calls' = 1..n - 1 /\ DOMAIN calls = 1..n
  BY <1>1, <1>3, <1>7
<1>11. Enqueuing' = Enqueuing \ {Top.lemma}
  <2>1. ASSUME NEW x \in Enqueuing' PROVE x \in Enqueuing /\ x # Top.lemma
    <3>1. PICK i \in 1..n - 1 : x = calls'[i].lemma
      BY <2>1, <1>10 DEF Enqueuing
    <3>2. i \in 1..n /\ i # n /\ x = calls[i].lemma
      BY <3>1, <1>7, <1>8
    <3> QED
      BY <3>2, <1>1, <1>2, <1>10 DEF Enqueuing, LemmasDiffer
  <2>2. ASSUME NEW x \in Enqueuing, x # Top.lemma PROVE x \in Enqueuing'
    <3>1. PICK i \in 1..n : x = calls[i].lemma
      BY <1>10 DEF Enqueuing
    <3>2. i \in 1..n - 1
      BY <2>2, <3>1, <1>2, <1>9
    <3> QED
      BY <3>1, <3>2, <1>7, <1>10 DEF Enqueuing
  <2> QED
    BY <2>1, <2>2
<1>12. LemmasDiffer'
  BY <1>1, <1>7, <1>8 DEF LemmasDiffer
<1>13. ASSUME NEW i \in 1..n - 1
       PROVE  /\ calls'[i].c \in Queue
              /\ \/ nNumCachedLemmas'[calls'[i].c] <= Bound[calls'[i].c]
                 \/ nNumCachedLemmas'[calls'[i].c] <= MaxPinned
  <2>1. calls[i].c < calls[n].c /\ calls[i].c \in Queue /\ calls[n].c \in Queue
    BY <1>1, <1>2, <1>8, CallType DEF CallersOk
  <2>2. calls[i].c # Top.c
    BY <2>1, <1>2, BoundType
  <2>3. Room(calls[i].c)
    BY <1>1 DEF CallersOk
  <2> QED
    BY <2>1, <2>2, <2>3, <1>7 DEF Room
<1>14. CallersOk'
  <2>1. \A i, j \in 1..n - 1 : i < j => calls'[i].c < calls'[j].c
    BY <1>1, <1>7, <1>8 DEF CallersOk
  <2>2. ASSUME NEW i \in 1..(n - 1) - 1 PROVE i \in 1..n - 1 /\ calls'[i].p = calls'[i + 1].lemma
    <3>1. i \in 1..n - 1 /\ i # n - 1 /\ i + 1 \in 1..n - 1
      BY <1>2
    <3>2. calls[i].p = calls[i + 1].lemma
      BY <3>1, <1>1 DEF CallersOk
    <3> QED
      BY <3>1, <3>2, <1>7
  <2> QED
    BY <2>1, <2>2, <1>7, <1>13 DEF CallersOk, Room
<1>15. ASSUME calls' # <<>>
       PROVE  /\ Top'.p = NULL /\ Top'.c \in Queue
              /\ \/ nNumCachedLemmas'[Top'.c] <= Bound[Top'.c]
                 \/ nNumCachedLemmas'[Top'.c] <= MaxPinned
  <2>1. n - 1 # 0 /\ n - 1 \in 1..n - 1
    BY <1>2, <1>7, <1>15
  <2>2. Top' = calls'[n - 1]
    BY <1>7 DEF Top
  <2> QED
    BY <2>1, <2>2, <1>7, <1>13
<1> QED
  BY <1>7, <1>11, <1>12, <1>14, <1>15

-----------------------------------------------------------------------------
(* Each step keeps the invariant *)

(* The loop skips the lemmas that are pinned. *)
LEMMA FreeableIs ==
  ASSUME TypeOK, NEW l \in Lemma
  PROVE  Freeable(l) <=> l \notin Pinned
<1>1. PICK x : x = nBacktrackStackReferences[l]
  OBVIOUS
<1>2. x = 0 \/ x = 1
  BY <1>1 DEF TypeOK
<1>3. x <= 0 <=> ~(x > 0)
  BY ONLY <1>2
<1> QED
  BY <1>1, <1>3 DEF Freeable, Pinned

(* The queues as they are seen from a state of the loop. *)
LEMMA LoopAt ==
  ASSUME TypeOK, NEW q, Chains(q), CursorOk(q), Removing
  PROVE  \E n, k : /\ n = nNumCachedLemmas[Top.c] /\ n \in Nat
                   /\ k \in 1..n /\ k \in 0..n /\ k - 1 \in 0..n - 1 /\ k - 1 \in 0..n
                   /\ Top.p = q[Top.c][k] /\ CursorAt(q, k)
                   /\ Top.p \in InQueue(Top.c) /\ Top.p \in Lemma
                   /\ pLPQPrev[Top.p] = q[Top.c][k - 1]
<1>1. calls # <<>> /\ Top.p # NULL /\ Top.c \in Queue
  BY TopType DEF Removing
<1>2. PICK n, s : n = nNumCachedLemmas[Top.c] /\ s = q[Top.c]
  OBVIOUS
<1>3. IsChain(s, n, InQueue(Top.c), pLPQFirst[Top.c], pLPQLast[Top.c], pLPQPrev, pLPQNext)
  BY <1>1, <1>2 DEF Chains
<1>4. PICK k \in 0..n : CursorAt(q, k)
  BY <1>1, <1>2 DEF CursorOk
<1>5. Top.p = s[k]
  BY <1>2, <1>4 DEF CursorAt
<1>6. /\ n \in Nat /\ s[0] = NULL
      /\ \A i \in 1..n : s[i] \in InQueue(Top.c)
      /\ \A i \in 1..n : pLPQPrev[s[i]] = s[i - 1]
  BY <1>3 DEF IsChain
<1>7. k # 0
  BY <1>1, <1>5, <1>6
<1>8. k \in 1..n /\ k - 1 \in 0..n - 1 /\ k - 1 \in 0..n
  BY <1>6, <1>7
<1>9. Top.p \in InQueue(Top.c) /\ pLPQPrev[Top.p] = s[k - 1]
  BY <1>5, <1>6, <1>8
<1>10. Top.p \in Lemma
  BY <1>1, <1>9, InQueueIs
<1> QED
  BY <1>2, <1>4, <1>5, <1>6, <1>8, <1>9, <1>10

LEMMA SkipPinnedKeeps ==
  ASSUME IInv, SkipPinned
  PROVE  IInv'
<1>1. TypeOK /\ PlacesOk /\ PinnedOk /\ CacheBounded /\ CallersOk
  BY DEF IInv
<1>2. PICK q : Chains(q) /\ CursorOk(q)
  BY DEF IInv
<1>3. Removing /\ calls # <<>> /\ ~Freeable(Top.p)
  BY DEF SkipPinned, Removing
<1>4. PICK n, k : /\ n = nNumCachedLemmas[Top.c] /\ n \in Nat
                  /\ k \in 1..n /\ k \in 0..n /\ k - 1 \in 0..n - 1 /\ k - 1 \in 0..n
                  /\ Top.p = q[Top.c][k] /\ CursorAt(q, k)
                  /\ Top.p \in InQueue(Top.c) /\ Top.p \in Lemma
                  /\ pLPQPrev[Top.p] = q[Top.c][k - 1]
  BY <1>1, <1>2, <1>3, LoopAt
<1>5. /\ Len(calls) \in 1..Len(calls) /\ Top = calls[Len(calls)]
      /\ Top \in Call /\ Top.c \in Queue
  BY <1>1, <1>3, TopType
<1>6. PICK w : w = [Top EXCEPT !.p = pLPQPrev[Top.p]]
  OBVIOUS
<1>7. pLPQPrev[Top.p] \in Lemma \cup {NULL}
  BY <1>1, <1>4 DEF TypeOK
<1>8. /\ w \in Call /\ w.c = Top.c /\ w.lemma = Top.lemma
      /\ w.p = pLPQPrev[Top.p] /\ w.toRemove = Top.toRemove
  BY <1>5, <1>6, <1>7 DEF Call
<1>9. UNCHANGED <<queues, usage, freeLemmas, unitLemmas>>
  BY DEF SkipPinned
<1>10. calls' = [calls EXCEPT ![Len(calls)] = w]
  BY <1>5, <1>6 DEF SkipPinned
<1>11. /\ calls' \in Seq(Call) /\ calls' # <<>> /\ Top' = w
       /\ Enqueuing' = Enqueuing /\ CallersOk' /\ LemmasDiffer'
  <2>1. LemmasDiffer /\ \A d \in Queue : d # Top.c => nNumCachedLemmas'[d] = nNumCachedLemmas[d]
    BY <1>1, <1>9 DEF PlacesOk, queues
  <2> QED
    BY <2>1, <1>1, <1>3, <1>8, <1>10, TopChanges
<1>12. TypeOK'
  BY <1>1, <1>9, <1>11 DEF TypeOK, queues, usage
<1>13. Pinned' = Pinned
  BY <1>9 DEF Pinned, usage
<1>14. PlacesOk'
  BY <1>1, <1>9, <1>11, <1>13 DEF PlacesOk
<1>15. PinnedOk' /\ CacheBounded'
  BY <1>1, <1>9, <1>13 DEF PinnedOk, CacheBounded, queues
<1>16. Chains(q)'
  <2>1. \A d \in Queue : InQueue(d)' = InQueue(d)
    BY <1>9, <1>11 DEF InQueue, queues
  <2>2. UNCHANGED queues
    BY <1>9
  <2> QED
    BY <2>1, <2>2, <1>2, ChainsKept
<1>17. Top.p \in Pinned
  BY <1>1, <1>3, <1>4, FreeableIs
<1>18. CursorOk(q)'
  <2>1. /\ w.p = q[w.c][k - 1] /\ nNumCachedLemmas' = nNumCachedLemmas
        /\ nNumCachedLemmas'[w.c] = n /\ k - 1 \in 0..n
    BY <1>4, <1>8, <1>9 DEF queues
  <2>2. \/ nNumCachedLemmas'[w.c] <= Bound[w.c] \/ nNumCachedLemmas'[w.c] <= MaxPinned
        \/ w.toRemove > 0 /\ \A j \in 1..n : j > k - 1 => q[w.c][j] \in Pinned'
    <3>1. CASE Room(Top.c)
      BY <3>1, <2>1, <1>8 DEF Room
    <3>2. CASE ~Room(Top.c)
      <4>1. Top.toRemove > 0 /\ \A j \in 1..n : j > k => q[Top.c][j] \in Pinned
        BY <3>2, <1>4 DEF CursorAt
      <4>2. ASSUME NEW j \in 1..n, j > k - 1 PROVE j = k \/ j > k
        BY <1>4, <4>2
      <4> QED
        BY <4>1, <4>2, <1>4, <1>8, <1>13, <1>17
    <3> QED
      BY <3>1, <3>2
  <2> QED
    BY <2>1, <2>2, <1>11 DEF CursorOk, CursorAt, Room
<1> QED
  BY <1>11, <1>12, <1>14, <1>15, <1>16, <1>18 DEF IInv

(* A queue from which a lemma was removed has room for one. *)
LEMMA RemovalMakesRoom ==
  ASSUME TypeOK, CacheBounded, NEW c \in Queue, nNumCachedLemmas[c] - 1 \in Nat,
         nNumCachedLemmas' = [nNumCachedLemmas EXCEPT ![c] = @ - 1]
  PROVE  /\ nNumCachedLemmas' \in [Queue -> Nat] /\ CacheBounded'
         /\ nNumCachedLemmas'[c] = nNumCachedLemmas[c] - 1
         /\ \A d \in Queue : d # c => nNumCachedLemmas'[d] = nNumCachedLemmas[d]
         /\ \/ nNumCachedLemmas'[c] <= Bound[c] \/ nNumCachedLemmas'[c] <= MaxPinned
<1>1. nNumCachedLemmas \in [Queue -> Nat]
  BY DEF TypeOK
<1>2. /\ nNumCachedLemmas' \in [Queue -> Nat]
      /\ nNumCachedLemmas'[c] = nNumCachedLemmas[c] - 1
      /\ \A d \in Queue : d # c => nNumCachedLemmas'[d] = nNumCachedLemmas[d]
  BY <1>1
<1>3. PICK n, b : n = nNumCachedLemmas[c] /\ b = Bound[c]
  OBVIOUS
<1>4. n \in Nat /\ b \in Nat /\ MaxPinned \in Nat /\ (n <= b + 1 \/ n <= MaxPinned + 1)
  BY <1>1, <1>3, BoundType, PinnedAssumption DEF CacheBounded
<1>5. (n - 1 <= b \/ n - 1 <= MaxPinned) /\ (n - 1 <= b + 1 \/ n - 1 <= MaxPinned + 1)
  BY ONLY <1>4
<1>6. CacheBounded'
  <2>1. ASSUME NEW d \in Queue
        PROVE  nNumCachedLemmas'[d] <= Bound[d] + 1 \/ nNumCachedLemmas'[d] <= MaxPinned + 1
    BY <1>2, <1>3, <1>5 DEF CacheBounded
  <2> QED
    BY <2>1 DEF CacheBounded
<1> QED
  BY <1>2, <1>3, <1>5, <1>6

LEMMA RemoveFreeKeeps ==
  ASSUME IInv, RemoveFree
  PROVE  IInv'
<1>1. TypeOK /\ PlacesOk /\ PinnedOk /\ CacheBounded /\ CallersOk
  BY DEF IInv
<1>2. PICK q : Chains(q) /\ CursorOk(q)
  BY DEF IInv
<1>3. Removing /\ calls # <<>> /\ Freeable(Top.p) /\ Top.toRemove > 0
  BY DEF RemoveFree, Removing
<1>4. PICK n, k : /\ n = nNumCachedLemmas[Top.c] /\ n \in Nat
                  /\ k \in 1..n /\ k \in 0..n /\ k - 1 \in 0..n - 1 /\ k - 1 \in 0..n
                  /\ Top.p = q[Top.c][k] /\ CursorAt(q, k)
                  /\ Top.p \in InQueue(Top.c) /\ Top.p \in Lemma
                  /\ pLPQPrev[Top.p] = q[Top.c][k - 1]
  BY <1>1, <1>2, <1>3, LoopAt
<1>5. /\ Len(calls) \in 1..Len(calls) /\ Top = calls[Len(calls)]
      /\ Top \in Call /\ Top.c \in Queue /\ Top.toRemove \in Nat
  BY <1>1, <1>3, TopType
<1>6. PICK c, p : c = Top.c /\ p = Top.p
  OBVIOUS
<1>7. PICK w : w = [Top EXCEPT !.p = pLPQPrev[p], !.toRemove = @ - 1]
  OBVIOUS
<1>8. pLPQPrev[p] \in Lemma \cup {NULL}
  BY <1>1, <1>4, <1>6 DEF TypeOK
<1>9. /\ w \in Call /\ w.c = c /\ w.lemma = Top.lemma /\ w.p = pLPQPrev[p]
  <2>1. Top.toRemove - 1 \in Nat
    BY <1>3, <1>5
  <2> QED
    BY <2>1, <1>5, <1>6, <1>7, <1>8 DEF Call
<1>10. /\ LPQDequeue(p) /\ freeLemmas' = freeLemmas \cup {p}
       /\ UNCHANGED <<usage, unitLemmas>> /\ UNCHANGED cache
  BY <1>6 DEF RemoveFree, LPQDequeue
<1>11. calls' = [calls EXCEPT ![Len(calls)] = w]
  BY <1>5, <1>6, <1>7 DEF RemoveFree
<1>12. p \in InQueue(c) /\ p \in Lemma /\ p \notin unitLemmas /\ p \notin Enqueuing
  BY <1>4, <1>5, <1>6, InQueueIs
<1>13. p \notin Pinned
  BY <1>1, <1>3, <1>6, <1>12, FreeableIs
<1>14. DOMAIN calls' = DOMAIN calls /\ \A i \in DOMAIN calls : calls'[i].lemma = calls[i].lemma
  <2>1. calls \in Seq(Call)
    BY <1>1 DEF TypeOK
  <2> QED
    BY <2>1, <1>5, <1>9, <1>11
<1>15. \A d \in Queue : InQueue(d)' = InQueue(d) \ {p}
  <2>1. Enqueuing' = Enqueuing
    BY <1>14 DEF Enqueuing
  <2> QED
    BY <2>1, <1>10 DEF InQueue
<1>16. /\ n - 1 \in Nat
       /\ nNumCachedLemmas' = [nNumCachedLemmas EXCEPT ![c] = @ - 1]
       /\ pLPQNext' \in [Lemma -> Lemma \cup {NULL}]
       /\ pLPQPrev' \in [Lemma -> Lemma \cup {NULL}]
       /\ pLPQFirst' \in [Queue -> Lemma \cup {NULL}]
       /\ pLPQLast' \in [Queue -> Lemma \cup {NULL}]
       /\ \E r : /\ Chains(r)' /\ r[c] = Without(q[c], n, k)
                 /\ \A d \in Queue : d # c => r[d] = q[d]
  <2>1. c \in Queue /\ k \in 1..nNumCachedLemmas[c] /\ p = q[c][k]
    BY <1>4, <1>5, <1>6
  <2>2. n = nNumCachedLemmas[c]
    BY <1>4, <1>6
  <2> QED
    BY <2>1, <2>2, <1>1, <1>2, <1>10, <1>15, DequeueKeepsChains
<1>17. PICK r : Chains(r)' /\ r[c] = Without(q[c], n, k)
  BY <1>16
<1>18. /\ nNumCachedLemmas' \in [Queue -> Nat] /\ CacheBounded'
       /\ nNumCachedLemmas'[c] = n - 1
       /\ \A d \in Queue : d # c => nNumCachedLemmas'[d] = nNumCachedLemmas[d]
       /\ \/ nNumCachedLemmas'[c] <= Bound[c] \/ nNumCachedLemmas'[c] <= MaxPinned
  BY <1>1, <1>4, <1>5, <1>6, <1>16, RemovalMakesRoom
<1>19. /\ calls' \in Seq(Call) /\ calls' # <<>> /\ Top' = w
       /\ Enqueuing' = Enqueuing /\ CallersOk' /\ LemmasDiffer'
  <2>1. LemmasDiffer /\ \A d \in Queue : d # Top.c => nNumCachedLemmas'[d] = nNumCachedLemmas[d]
    BY <1>1, <1>6, <1>18 DEF PlacesOk
  <2> QED
    BY <2>1, <1>1, <1>3, <1>6, <1>9, <1>11, TopChanges
<1>20. TypeOK'
  <2>1. freeLemmas' \in SUBSET Lemma /\ unitLemmas' \in SUBSET Lemma
    BY <1>1, <1>10, <1>12 DEF TypeOK
  <2> QED
    BY <2>1, <1>1, <1>10, <1>16, <1>18, <1>19 DEF TypeOK, usage
<1>21. Pinned' = Pinned
  BY <1>10 DEF Pinned, usage
<1>22. PlacesOk'
  <2>1. freeLemmas' \cap unitLemmas' = {} /\ Enqueuing' \cap (freeLemmas' \cup unitLemmas') = {}
    BY <1>1, <1>10, <1>12, <1>19 DEF PlacesOk
  <2>2. \A l \in Pinned' : l \in Lemma \ (freeLemmas' \cup unitLemmas' \cup Enqueuing')
    BY <1>1, <1>10, <1>13, <1>19, <1>21 DEF PlacesOk
  <2> QED
    BY <2>1, <2>2, <1>19 DEF PlacesOk
<1>23. PinnedOk'
  BY <1>1, <1>21 DEF PinnedOk
<1>24. CursorOk(r)'
  <2>1. r[c][k - 1] = q[c][k - 1]
    <3>1. k - 1 < k
      BY <1>4
    <3> QED
      BY <3>1, <1>4, <1>17 DEF Without
  <2>2. w.p = r[w.c][k - 1] /\ k - 1 \in 0..nNumCachedLemmas'[w.c]
    BY <2>1, <1>4, <1>6, <1>9, <1>18
  <2>3. nNumCachedLemmas'[w.c] <= Bound[w.c] \/ nNumCachedLemmas'[w.c] <= MaxPinned
    BY <1>9, <1>18
  <2> QED
    BY <2>2, <2>3, <1>19 DEF CursorOk, CursorAt, Room
<1> QED
  BY <1>17, <1>18, <1>19, <1>20, <1>22, <1>23, <1>24 DEF IInv

LEMMA RemoveKeepKeeps ==
  ASSUME IInv, RemoveKeep
  PROVE  IInv'
<1>1. TypeOK /\ PlacesOk /\ PinnedOk /\ CacheBounded /\ CallersOk
  BY DEF IInv
<1>2. PICK q : Chains(q) /\ CursorOk(q)
  BY DEF IInv
<1>3. Removing /\ calls # <<>> /\ Freeable(Top.p) /\ Top.toRemove > 0
  BY DEF RemoveKeep, Removing
<1>4. PICK n, k : /\ n = nNumCachedLemmas[Top.c] /\ n \in Nat
                  /\ k \in 1..n /\ k \in 0..n /\ k - 1 \in 0..n - 1 /\ k - 1 \in 0..n
                  /\ Top.p = q[Top.c][k] /\ CursorAt(q, k)
                  /\ Top.p \in InQueue(Top.c) /\ Top.p \in Lemma
                  /\ pLPQPrev[Top.p] = q[Top.c][k - 1]
  BY <1>1, <1>2, <1>3, LoopAt
<1>5. /\ Len(calls) \in 1..Len(calls) /\ Top = calls[Len(calls)]
      /\ Top \in Call /\ Top.c \in Queue /\ Top.toRemove \in Nat
  BY <1>1, <1>3, TopType
<1>6. PICK c, p, d : c = Top.c /\ p = Top.p /\ d = c + 1
  OBVIOUS
<1>7. c \in Queue /\ d \in Queue /\ c < d /\ d # c
  <2>1. c < 2
    BY <1>6 DEF RemoveKeep, Kept
  <2> QED
    BY <2>1, <1>5, <1>6 DEF Queue
<1>8. PICK m, u : m = nNumCachedLemmas[d] /\ u = PQEnqueue(d, p, m, pLPQLast[d])
  OBVIOUS
<1>9. PICK w : w = [Top EXCEPT !.toRemove = @ - 1]
  OBVIOUS
<1>10. /\ w \in Call /\ w.c = c /\ w.lemma = Top.lemma /\ w.p = p
  <2>1. Top.toRemove - 1 \in Nat
    BY <1>3, <1>5
  <2> QED
    BY <2>1, <1>5, <1>6, <1>9 DEF Call
<1>11. m \in Nat /\ Bound[d] \in Nat /\ pLPQLast[d] \in Lemma \cup {NULL}
  BY <1>1, <1>7, <1>8, BoundType DEF TypeOK
<1>12. PICK b : b = Bound[d]
  OBVIOUS
<1>13. /\ u.c = d /\ u.lemma = p /\ u.p = pLPQLast[d] /\ u \in Call
       /\ m <= b \/ u.toRemove > 0
  <2>1. u = [c |-> d, lemma |-> p, p |-> pLPQLast[d], toRemove |-> IF m > b THEN m - b + 1 ELSE 0]
    BY <1>8, <1>12 DEF PQEnqueue
  <2>2. PICK t : t = IF m > b THEN m - b + 1 ELSE 0
    OBVIOUS
  <2>3. t \in Nat /\ (m <= b \/ t > 0)
    BY <2>2, <1>11, <1>12
  <2> QED
    BY <2>1, <2>2, <2>3, <1>4, <1>6, <1>7, <1>11 DEF Call
<1>14. /\ LPQDequeue(p) /\ freeLemmas' = freeLemmas /\ unitLemmas' = unitLemmas
       /\ lastUsed' = [lastUsed EXCEPT ![p] = FALSE]
       /\ UNCHANGED <<nBacktrackStackReferences, short, cache>>
  BY <1>6 DEF RemoveKeep, LPQDequeue
<1>15. calls' = Append([calls EXCEPT ![Len(calls)] = w], u)
  BY <1>5, <1>6, <1>8, <1>9 DEF RemoveKeep
<1>16. p \in InQueue(c) /\ p \in Lemma /\ p \notin unitLemmas /\ p \notin freeLemmas /\ p \notin Enqueuing
  BY <1>4, <1>5, <1>6, InQueueIs
<1>17. p \notin Pinned
  BY <1>1, <1>3, <1>6, <1>16, FreeableIs
<1>18. /\ n - 1 \in Nat /\ nNumCachedLemmas[c] = n
       /\ nNumCachedLemmas' = [nNumCachedLemmas EXCEPT ![c] = @ - 1]
  <2>1. cache[p] = c
    BY <1>7, <1>16, InQueueIs
  <2>2. n - 1 \in Nat
    BY <1>4
  <2> QED
    BY <2>1, <2>2, <1>4, <1>6, <1>14 DEF LPQDequeue
<1>19. /\ nNumCachedLemmas' \in [Queue -> Nat] /\ CacheBounded'
       /\ nNumCachedLemmas'[c] = n - 1
       /\ \A e \in Queue : e # c => nNumCachedLemmas'[e] = nNumCachedLemmas[e]
       /\ \/ nNumCachedLemmas'[c] <= Bound[c] \/ nNumCachedLemmas'[c] <= MaxPinned
  BY <1>1, <1>7, <1>18, RemovalMakesRoom
<1>20. /\ calls' \in Seq(Call) /\ calls' # <<>> /\ Top' = u
       /\ Enqueuing' = Enqueuing \cup {p} /\ CallersOk' /\ LemmasDiffer'
  <2>1. LemmasDiffer
    BY <1>1 DEF PlacesOk
  <2>2. /\ \A e \in Queue : e # Top.c => nNumCachedLemmas'[e] = nNumCachedLemmas[e]
        /\ \/ nNumCachedLemmas'[Top.c] <= Bound[Top.c] \/ nNumCachedLemmas'[Top.c] <= MaxPinned
        /\ w.c = Top.c /\ w.lemma = Top.lemma /\ w.p = u.lemma
        /\ Top.c < u.c /\ u.lemma \notin Enqueuing
    BY <1>6, <1>7, <1>10, <1>13, <1>16, <1>19
  <2>3. /\ calls' \in Seq(Call) /\ calls' # <<>> /\ Top' = u
        /\ Enqueuing' = Enqueuing \cup {u.lemma} /\ CallersOk' /\ LemmasDiffer'
    BY <2>1, <2>2, <1>1, <1>3, <1>10, <1>13, <1>15, TopPushes
  <2> QED
    BY <2>3, <1>13
<1>21. \A e \in Queue : InQueue(e)' = InQueue(e) \ {p}
  BY <1>14, <1>20 DEF InQueue
<1>22. /\ pLPQNext' \in [Lemma -> Lemma \cup {NULL}]
       /\ pLPQPrev' \in [Lemma -> Lemma \cup {NULL}]
       /\ pLPQFirst' \in [Queue -> Lemma \cup {NULL}]
       /\ pLPQLast' \in [Queue -> Lemma \cup {NULL}]
       /\ \E r : Chains(r)' /\ \A e \in Queue : e # c => r[e] = q[e]
  <2>1. k \in 1..nNumCachedLemmas[c] /\ p = q[c][k]
    BY <1>4, <1>6
  <2> QED
    BY <2>1, <1>1, <1>2, <1>7, <1>14, <1>21, DequeueKeepsChains
<1>23. PICK r : Chains(r)' /\ r[d] = q[d]
  BY <1>7, <1>22
<1>24. TypeOK'
  <2>1. freeLemmas' \in SUBSET Lemma /\ unitLemmas' \in SUBSET Lemma
    BY <1>1, <1>14 DEF TypeOK
  <2>2. lastUsed' \in [Lemma -> BOOLEAN]
    BY <1>1, <1>14 DEF TypeOK
  <2> QED
    BY <2>1, <2>2, <1>1, <1>14, <1>19, <1>20, <1>22 DEF TypeOK
<1>25. Pinned' = Pinned
  BY <1>14 DEF Pinned
<1>26. PlacesOk'
  <2>1. freeLemmas' \cap unitLemmas' = {} /\ Enqueuing' \cap (freeLemmas' \cup unitLemmas') = {}
    BY <1>1, <1>14, <1>16, <1>20 DEF PlacesOk
  <2>2. \A l \in Pinned' : l \in Lemma \ (freeLemmas' \cup unitLemmas' \cup Enqueuing')
    BY <1>1, <1>14, <1>17, <1>20, <1>25 DEF PlacesOk
  <2> QED
    BY <2>1, <2>2, <1>20 DEF PlacesOk
<1>27. PinnedOk'
  BY <1>1, <1>25 DEF PinnedOk
<1>28. CursorOk(r)'
  <2>1. IsChain(q[d], m, InQueue(d), pLPQFirst[d], pLPQLast[d], pLPQPrev, pLPQNext)
    BY <1>2, <1>7, <1>8 DEF Chains
  <2>2. u.p = r[u.c][m]
    BY <2>1, <1>13, <1>23 DEF IsChain
  <2>3. nNumCachedLemmas'[u.c] = m /\ m \in 0..m
    BY <1>7, <1>8, <1>11, <1>13, <1>19
  <2>4. \A j \in 1..m : ~(j > m)
    BY <1>11
  <2>5. m <= Bound[u.c] \/ u.toRemove > 0
    BY <1>12, <1>13
  <2> QED
    BY <2>2, <2>3, <2>4, <2>5, <1>20 DEF CursorOk, CursorAt, Room
<1> QED
  BY <1>19, <1>20, <1>23, <1>24, <1>26, <1>27, <1>28 DEF IInv

(* A call comes to its end only when its queue has room for the lemma. *)
LEMMA RoomAtTheEnd ==
  ASSUME TypeOK, PinnedOk, NEW q, Chains(q), CursorOk(q), calls # <<>>, ~Removing
  PROVE  Room(Top.c)
<1>1. Top.c \in Queue /\ Top.toRemove \in Nat
  BY TopType
<1>2. PICK n, s : n = nNumCachedLemmas[Top.c] /\ s = q[Top.c]
  OBVIOUS
<1>3. IsChain(s, n, InQueue(Top.c), pLPQFirst[Top.c], pLPQLast[Top.c], pLPQPrev, pLPQNext)
  BY <1>1, <1>2 DEF Chains
<1>4. PICK k \in 0..n : CursorAt(q, k)
  BY <1>2 DEF CursorOk
<1>5. SUFFICES ASSUME ~Room(Top.c) PROVE FALSE
  OBVIOUS
<1>6. /\ Top.p = s[k] /\ Top.toRemove > 0
      /\ \A j \in 1..n : j > k => s[j] \in Pinned
  BY <1>2, <1>4, <1>5 DEF CursorAt
<1>7. s[k] = NULL
  BY <1>6 DEF Removing
<1>8. n \in Nat /\ \A i \in 1..n : s[i] \in InQueue(Top.c)
  BY <1>3 DEF IsChain
<1>9. k = 0
  <2>1. k # 0 => k \in 1..n
    BY <1>8
  <2> QED
    BY <2>1, <1>1, <1>7, <1>8, InQueueIs, LemmaAssumption
<1>10. InQueue(Top.c) \subseteq Pinned
  <2>1. ASSUME NEW l \in InQueue(Top.c) PROVE l \in Pinned
    <3>1. PICK i \in 1..n : s[i] = l
      BY <1>3 DEF IsChain
    <3>2. i > k
      BY <1>8, <1>9
    <3> QED
      BY <3>1, <3>2, <1>6
  <2> QED
    BY <2>1
<1>11. Cardinality(InQueue(Top.c)) = n
  BY <1>1, <1>3, InQueueIs, ChainLength
<1>12. Cardinality(InQueue(Top.c)) <= Cardinality(Pinned) /\ Cardinality(Pinned) \in Nat
  BY <1>10, FS_Subset, FS_CardinalityType DEF PinnedOk
<1>13. n <= MaxPinned
  BY <1>8, <1>11, <1>12, PinnedAssumption DEF PinnedOk
<1> QED
  BY <1>2, <1>5, <1>13 DEF Room

LEMMA EndEnqueueKeeps ==
  ASSUME IInv, EndEnqueue
  PROVE  IInv'
<1>1. TypeOK /\ PlacesOk /\ PinnedOk /\ CacheBounded /\ CallersOk
  BY DEF IInv
<1>2. PICK q : Chains(q) /\ CursorOk(q)
  BY DEF IInv
<1>3. calls # <<>> /\ ~Removing
  BY DEF EndEnqueue
<1>4. /\ Len(calls) \in 1..Len(calls) /\ Top = calls[Len(calls)]
      /\ Top \in Call /\ Top.c \in Queue /\ Top.lemma \in Lemma
  BY <1>1, <1>3, TopType
<1>5. PICK c, p : c = Top.c /\ p = Top.lemma
  OBVIOUS
<1>6. c \in Queue /\ p \in Lemma /\ Room(c)
  BY <1>1, <1>2, <1>3, <1>4, <1>5, RoomAtTheEnd
<1>7. LPQEnqueue(c, p) /\ UNCHANGED <<usage, freeLemmas, unitLemmas>>
  BY <1>5 DEF EndEnqueue
<1>8. p \in Enqueuing /\ p \notin freeLemmas /\ p \notin unitLemmas
  <2>1. p \in Enqueuing
    BY <1>1, <1>4, <1>5, EnqueuingIs
  <2> QED
    BY <2>1, <1>1 DEF PlacesOk
<1>9. /\ nNumCachedLemmas' = [nNumCachedLemmas EXCEPT ![c] = @ + 1]
      /\ cache' = [cache EXCEPT ![p] = c]
  BY <1>7 DEF LPQEnqueue
<1>10. /\ nNumCachedLemmas \in [Queue -> Nat] /\ nNumCachedLemmas' \in [Queue -> Nat]
       /\ nNumCachedLemmas'[c] = nNumCachedLemmas[c] + 1
       /\ \A d \in Queue : d # c => nNumCachedLemmas'[d] = nNumCachedLemmas[d]
  BY <1>1, <1>6, <1>9 DEF TypeOK
<1>11. pLPQPrev'[p] = NULL
  <2>1. pLPQFirst[c] # p
    <3>1. IsChain(q[c], nNumCachedLemmas[c], InQueue(c), pLPQFirst[c], pLPQLast[c], pLPQPrev, pLPQNext)
      BY <1>2, <1>6 DEF Chains
    <3>2. InQueue(c) \subseteq Lemma /\ p \notin InQueue(c)
      BY <1>6, <1>8, InQueueIs
    <3>3. pLPQFirst[c] \in InQueue(c) \cup {NULL}
      BY <3>1, ChainFirst
    <3> QED
      BY <3>2, <3>3, <1>6, LemmaAssumption
  <2>2. DOMAIN pLPQPrev = Lemma
    BY <1>1 DEF TypeOK
  <2>3. PICK g, at, h : g = pLPQPrev /\ at = pLPQFirst[c] /\ h = Written(g, FrontLinks(at, p))
    OBVIOUS
  <2>4. pLPQPrev' = h
    BY <2>3, <1>7 DEF LPQEnqueue, FrontLinks
  <2>5. \A x \in Lemma : h[x] = IF x = at THEN p ELSE IF x = p THEN NULL ELSE g[x]
    BY <2>1, <2>2, <2>3, WrittenTwice
  <2> QED
    BY <2>1, <2>3, <2>4, <2>5, <1>6
<1>12. /\ calls' \in Seq(Call)
       /\ Enqueuing' = Enqueuing \ {p} /\ CallersOk' /\ LemmasDiffer'
       /\ calls' # <<>> => /\ Top'.p = NULL /\ Top'.c \in Queue
                           /\ \/ nNumCachedLemmas'[Top'.c] <= Bound[Top'.c]
                              \/ nNumCachedLemmas'[Top'.c] <= MaxPinned
  <2>1. /\ LemmasDiffer /\ pLPQPrev'[Top.lemma] = NULL
        /\ \A d \in Queue : d # Top.c => nNumCachedLemmas'[d] = nNumCachedLemmas[d]
    BY <1>1, <1>5, <1>10, <1>11 DEF PlacesOk
  <2>2. LET rest == SubSeq(calls, 1, Len(calls) - 1)
        IN  calls' = IF rest = <<>> THEN <<>> ELSE [rest EXCEPT ![Len(rest)].p = pLPQPrev'[@]]
    BY DEF EndEnqueue
  <2> QED
    BY <2>1, <2>2, <1>1, <1>3, <1>5, TopReturns
<1>13. \A d \in Queue : p \notin InQueue(d)
  BY <1>6, <1>8, InQueueIs
<1>14. /\ InQueue(c)' = InQueue(c) \cup {p}
       /\ \A d \in Queue : d # c => InQueue(d)' = InQueue(d)
  <2>1. cache'[p] = c /\ \A l \in Lemma : l # p => cache'[l] = cache[l]
    BY <1>1, <1>6, <1>9 DEF TypeOK
  <2>2. \A d \in Queue, l \in Lemma :
          l \in InQueue(d)' <=> /\ l \notin freeLemmas /\ l \notin unitLemmas
                                /\ l \notin Enqueuing \/ l = p
                                /\ cache'[l] = d
    BY <1>7, <1>12 DEF InQueue
  <2>3. \A d \in Queue : InQueue(d)' \subseteq Lemma /\ InQueue(d) \subseteq Lemma
    BY DEF InQueue
  <2>4. ASSUME NEW d \in Queue, d # c PROVE InQueue(d)' = InQueue(d)
    <3>1. ASSUME NEW l \in Lemma PROVE l \in InQueue(d)' <=> l \in InQueue(d)
      BY <2>1, <2>2, <2>4, <1>8, InQueueIs
    <3> QED
      BY <3>1, <2>3
  <2>5. InQueue(c)' = InQueue(c) \cup {p}
    <3>1. ASSUME NEW l \in Lemma PROVE l \in InQueue(c)' <=> l \in InQueue(c) \/ l = p
      BY <2>1, <2>2, <1>6, <1>8, InQueueIs
    <3> QED
      BY <3>1, <2>3, <1>6
  <2> QED
    BY <2>4, <2>5
<1>15. /\ pLPQNext' \in [Lemma -> Lemma \cup {NULL}]
       /\ pLPQPrev' \in [Lemma -> Lemma \cup {NULL}]
       /\ pLPQFirst' \in [Queue -> Lemma \cup {NULL}]
       /\ pLPQLast' \in [Queue -> Lemma \cup {NULL}]
       /\ \E r : Chains(r)' /\ \A d \in Queue : d # c => r[d] = q[d]
  BY <1>1, <1>2, <1>6, <1>7, <1>13, <1>14, EnqueueKeepsChains
<1>16. PICK r : Chains(r)'
  BY <1>15
<1>17. TypeOK'
  <2>1. cache' \in [Lemma -> Queue]
    BY <1>1, <1>6, <1>9 DEF TypeOK
  <2> QED
    BY <2>1, <1>1, <1>7, <1>10, <1>12, <1>15 DEF TypeOK, usage
<1>18. Pinned' = Pinned
  BY <1>7 DEF Pinned, usage
<1>19. PlacesOk' /\ PinnedOk'
  BY <1>1, <1>7, <1>12, <1>18 DEF PlacesOk, PinnedOk
<1>20. CacheBounded'
  <2>1. PICK n, b : n = nNumCachedLemmas[c] /\ b = Bound[c]
    OBVIOUS
  <2>2. n \in Nat /\ b \in Nat /\ MaxPinned \in Nat /\ (n <= b \/ n <= MaxPinned)
    BY <2>1, <1>6, <1>10, BoundType, PinnedAssumption DEF Room
  <2>3. n + 1 <= b + 1 \/ n + 1 <= MaxPinned + 1
    BY ONLY <2>2
  <2>4. ASSUME NEW d \in Queue
        PROVE  nNumCachedLemmas'[d] <= Bound[d] + 1 \/ nNumCachedLemmas'[d] <= MaxPinned + 1
    BY <2>1, <2>3, <1>1, <1>10 DEF CacheBounded
  <2> QED
    BY <2>4 DEF CacheBounded
<1>21. CursorOk(r)'
  <2>1. ASSUME calls' # <<>>
        PROVE  /\ 0 \in 0..nNumCachedLemmas'[Top'.c] /\ Top'.p = r[Top'.c][0]
               /\ \/ nNumCachedLemmas'[Top'.c] <= Bound[Top'.c]
                  \/ nNumCachedLemmas'[Top'.c] <= MaxPinned
    <3>1. Top'.p = NULL /\ Top'.c \in Queue /\ nNumCachedLemmas'[Top'.c] \in Nat
      BY <2>1, <1>10, <1>12
    <3>2. \A d \in Queue : r[d][0] = NULL
      BY <1>16 DEF Chains, IsChain
    <3> QED
      BY <2>1, <3>1, <3>2, <1>12
  <2> QED
    BY <2>1 DEF CursorOk, CursorAt, Room
<1> QED
  BY <1>12, <1>16, <1>17, <1>19, <1>20, <1>21 DEF IInv

(* A step outside the cache that moves lemmas between the other places. *)
LEMMA OutsideKeeps ==
  ASSUME IInv, UNCHANGED <<queues, calls>>, calls = <<>>, TypeOK', CacheBounded',
         freeLemmas' \cap unitLemmas' = {}, freeLemmas' \cup unitLemmas' = freeLemmas \cup unitLemmas,
         Pinned' \subseteq Lemma \ (freeLemmas \cup unitLemmas), PinnedOk'
  PROVE  IInv'
<1>1. TypeOK /\ PlacesOk /\ PinnedOk /\ CacheBounded /\ CallersOk
  BY DEF IInv
<1>2. PICK q : Chains(q) /\ CursorOk(q)
  BY DEF IInv
<1>3. calls' = <<>> /\ Enqueuing = {} /\ Enqueuing' = {} /\ Len(calls') = 0
  BY DEF Enqueuing
<1>4. LemmasDiffer' /\ CallersOk' /\ CursorOk(q)'
  BY <1>3 DEF LemmasDiffer, CallersOk, CursorOk
<1>5. PlacesOk'
  BY <1>3, <1>4 DEF PlacesOk
<1>6. Chains(q)'
  <2>1. ASSUME NEW d \in Queue PROVE InQueue(d)' = InQueue(d)
    BY <1>3 DEF InQueue, queues
  <2> QED
    BY <2>1, <1>2, ChainsKept
<1> QED
  BY <1>4, <1>5, <1>6 DEF IInv

LEMMA AddLemmaKeeps ==
  ASSUME IInv, NEW l \in Lemma, NEW isShort \in BOOLEAN, AddLemma(l, isShort)
  PROVE  IInv'
<1>1. TypeOK /\ PlacesOk /\ PinnedOk /\ CacheBounded
  BY DEF IInv
<1>2. calls = <<>> /\ l \in freeLemmas /\ UNCHANGED <<queues, lastUsed, calls>>
  BY DEF AddLemma, Idle
<1>3. /\ freeLemmas' = freeLemmas \ {l} /\ unitLemmas' = unitLemmas \cup {l}
      /\ short' = [short EXCEPT ![l] = isShort]
      /\ nBacktrackStackReferences' = [nBacktrackStackReferences EXCEPT ![l] = 0]
  BY DEF AddLemma
<1>4. l \notin Pinned /\ Pinned \subseteq Lemma \ (freeLemmas \cup unitLemmas)
  BY <1>1, <1>2 DEF PlacesOk
<1>5. Pinned' = Pinned
  <2>1. ASSUME NEW k \in Lemma
        PROVE  nBacktrackStackReferences'[k] > 0 <=> nBacktrackStackReferences[k] > 0
    <3>1. CASE k = l
      BY <3>1, <1>1, <1>3, <1>4 DEF Pinned, TypeOK
    <3>2. CASE k # l
      BY <3>2, <1>1, <1>3 DEF TypeOK
    <3> QED
      BY <3>1, <3>2
  <2> QED
    BY <2>1 DEF Pinned
<1>6. TypeOK'
  <2>1. /\ freeLemmas' \in SUBSET Lemma /\ unitLemmas' \in SUBSET Lemma
        /\ short' \in [Lemma -> BOOLEAN]
        /\ nBacktrackStackReferences' \in [Lemma -> {0, 1}]
    BY <1>1, <1>3 DEF TypeOK
  <2> QED
    BY <2>1, <1>1, <1>2 DEF TypeOK, queues
<1>7. PinnedOk' /\ CacheBounded'
  BY <1>1, <1>2, <1>5 DEF PinnedOk, CacheBounded, queues
<1>8. /\ freeLemmas' \cap unitLemmas' = {}
      /\ freeLemmas' \cup unitLemmas' = freeLemmas \cup unitLemmas
  BY <1>1, <1>2, <1>3 DEF PlacesOk
<1> QED
  BY <1>2, <1>4, <1>5, <1>6, <1>7, <1>8, OutsideKeeps

LEMMA LemmaInfersKeeps ==
  ASSUME IInv, NEW l \in Lemma, LemmaInfers(l)
  PROVE  IInv'
<1>1. TypeOK /\ PlacesOk /\ PinnedOk /\ CacheBounded
  BY DEF IInv
<1>2. /\ calls = <<>> /\ l \in Cached /\ nBacktrackStackReferences[l] = 0
      /\ UNCHANGED <<queues, short, freeLemmas, unitLemmas, calls>>
      /\ nBacktrackStackReferences' = [nBacktrackStackReferences EXCEPT ![l] = @ + 1]
      /\ lastUsed' = [lastUsed EXCEPT ![l] = TRUE]
  BY DEF LemmaInfers, Idle
<1>3. nBacktrackStackReferences \in [Lemma -> {0, 1}]
  BY <1>1 DEF TypeOK
<1>4. /\ nBacktrackStackReferences'[l] = 1
      /\ \A k \in Lemma : k # l => nBacktrackStackReferences'[k] = nBacktrackStackReferences[k]
      /\ nBacktrackStackReferences' \in [Lemma -> {0, 1}]
  BY <1>2, <1>3
<1>5. Pinned' = Pinned \cup {l} /\ l \notin Pinned
  BY <1>2, <1>4 DEF Pinned
<1>6. PinnedOk'
  <2>1. Cardinality(Pinned) < MaxPinned
    BY DEF LemmaInfers, Pinned
  <2>2. IsFiniteSet(Pinned) /\ Cardinality(Pinned) \in Nat
    BY <1>1, FS_CardinalityType DEF PinnedOk
  <2>3. IsFiniteSet(Pinned \cup {l}) /\ Cardinality(Pinned \cup {l}) = Cardinality(Pinned) + 1
    BY <2>2, <1>5, FS_AddElement
  <2>4. IsFiniteSet(Pinned') /\ Cardinality(Pinned') <= MaxPinned
    BY <2>1, <2>2, <2>3, <1>5, PinnedAssumption
  <2> QED
    BY <2>4 DEF PinnedOk
<1>7. Pinned' \subseteq Lemma \ (freeLemmas \cup unitLemmas)
  BY <1>1, <1>2, <1>5, CachedIs DEF PlacesOk
<1>8. TypeOK'
  <2>1. lastUsed' \in [Lemma -> BOOLEAN]
    BY <1>1, <1>2 DEF TypeOK
  <2> QED
    BY <2>1, <1>1, <1>2, <1>4 DEF TypeOK, queues
<1>9. /\ CacheBounded'
      /\ freeLemmas' \cap unitLemmas' = {}
      /\ freeLemmas' \cup unitLemmas' = freeLemmas \cup unitLemmas
  BY <1>1, <1>2 DEF PlacesOk, CacheBounded, queues
<1> QED
  BY <1>2, <1>6, <1>7, <1>8, <1>9, OutsideKeeps

LEMMA LemmaConflictKeeps ==
  ASSUME IInv, NEW l \in Lemma, LemmaConflict(l)
  PROVE  IInv'
<1>1. TypeOK /\ PlacesOk /\ PinnedOk /\ CacheBounded
  BY DEF IInv
<1>2. /\ calls = <<>>
      /\ UNCHANGED <<queues, nBacktrackStackReferences, short, freeLemmas, unitLemmas, calls>>
      /\ lastUsed' = [lastUsed EXCEPT ![l] = TRUE]
  BY DEF LemmaConflict, Idle
<1>3. TypeOK'
  <2>1. lastUsed' \in [Lemma -> BOOLEAN]
    BY <1>1, <1>2 DEF TypeOK
  <2> QED
    BY <2>1, <1>1, <1>2 DEF TypeOK, queues
<1>4. Pinned' = Pinned
  BY <1>2 DEF Pinned
<1>5. /\ CacheBounded' /\ PinnedOk'
      /\ freeLemmas' \cap unitLemmas' = {}
      /\ freeLemmas' \cup unitLemmas' = freeLemmas \cup unitLemmas
      /\ Pinned' \subseteq Lemma \ (freeLemmas \cup unitLemmas)
  BY <1>1, <1>2, <1>4 DEF PlacesOk, CacheBounded, PinnedOk, queues
<1> QED
  BY <1>2, <1>3, <1>5, OutsideKeeps

(* What an undone inference does to the references. *)
LEMMA Unpinned ==
  ASSUME TypeOK, PinnedOk, NEW l \in Lemma, nBacktrackStackReferences[l] > 0,
         nBacktrackStackReferences' = [nBacktrackStackReferences EXCEPT ![l] = @ - 1]
  PROVE  /\ nBacktrackStackReferences' \in [Lemma -> {0, 1}]
         /\ l \in Pinned /\ Pinned' = Pinned \ {l} /\ PinnedOk'
<1>1. nBacktrackStackReferences \in [Lemma -> {0, 1}]
  BY DEF TypeOK
<1>2. nBacktrackStackReferences[l] = 1
  BY <1>1
<1>3. /\ nBacktrackStackReferences'[l] = 0
      /\ \A k \in Lemma : k # l => nBacktrackStackReferences'[k] = nBacktrackStackReferences[k]
      /\ nBacktrackStackReferences' \in [Lemma -> {0, 1}]
  BY <1>1, <1>2
<1>4. l \in Pinned /\ Pinned' = Pinned \ {l}
  BY <1>2, <1>3 DEF Pinned
<1>5. IsFiniteSet(Pinned) /\ Cardinality(Pinned) <= MaxPinned /\ Cardinality(Pinned) \in Nat
  BY FS_CardinalityType DEF PinnedOk
<1>6. /\ IsFiniteSet(Pinned \ {l}) /\ Cardinality(Pinned \ {l}) \in Nat
      /\ Cardinality(Pinned \ {l}) <= Cardinality(Pinned)
  <2>1. Pinned \ {l} \subseteq Pinned
    OBVIOUS
  <2> QED
    BY <2>1, <1>5, FS_Subset, FS_CardinalityType
<1>7. PinnedOk'
  BY <1>4, <1>5, <1>6, PinnedAssumption DEF PinnedOk
<1> QED
  BY <1>3, <1>4, <1>7

LEMMA PopInferenceKeeps ==
  ASSUME IInv, NEW l \in Lemma, PopInference(l)
  PROVE  IInv'
<1>1. TypeOK /\ PlacesOk /\ PinnedOk /\ CacheBounded
  BY DEF IInv
<1>2. /\ calls = <<>> /\ nBacktrackStackReferences[l] > 0
      /\ UNCHANGED <<queues, lastUsed, short, freeLemmas, unitLemmas, calls>>
      /\ nBacktrackStackReferences' = [nBacktrackStackReferences EXCEPT ![l] = @ - 1]
  BY DEF PopInference, Idle
<1>3. /\ nBacktrackStackReferences' \in [Lemma -> {0, 1}]
      /\ Pinned' = Pinned \ {l} /\ PinnedOk'
  BY <1>1, <1>2, Unpinned
<1>4. TypeOK'
  BY <1>1, <1>2, <1>3 DEF TypeOK, queues
<1>5. /\ CacheBounded'
      /\ freeLemmas' \cap unitLemmas' = {}
      /\ freeLemmas' \cup unitLemmas' = freeLemmas \cup unitLemmas
      /\ Pinned' \subseteq Lemma \ (freeLemmas \cup unitLemmas)
  BY <1>1, <1>2, <1>3 DEF PlacesOk, CacheBounded, queues
<1> QED
  BY <1>2, <1>3, <1>4, <1>5, OutsideKeeps

(* A first call of the cache. *)
LEMMA CallType1 ==
  ASSUME NEW c \in Queue, NEW l \in Lemma, NEW n \in Nat, NEW last \in Lemma \cup {NULL},
         NEW u, u = PQEnqueue(c, l, n, last)
  PROVE  /\ u \in Call /\ u.c = c /\ u.lemma = l /\ u.p = last
         /\ n <= Bound[c] \/ u.toRemove > 0
<1>1. PICK b : b = Bound[c]
  OBVIOUS
<1>2. u = [c |-> c, lemma |-> l, p |-> last, toRemove |-> IF n > b THEN n - b + 1 ELSE 0]
  BY <1>1 DEF PQEnqueue
<1>3. PICK t : t = IF n > b THEN n - b + 1 ELSE 0
  OBVIOUS
<1>4. t \in Nat /\ (n <= b \/ t > 0)
  BY <1>1, <1>3, BoundType
<1> QED
  BY <1>1, <1>2, <1>3, <1>4 DEF Call

LEMMA FirstCall ==
  ASSUME NEW u \in Call, calls' = <<u>>
  PROVE  /\ calls' \in Seq(Call) /\ Len(calls') = 1 /\ Top' = u /\ calls' # <<>>
         /\ Enqueuing' = {u.lemma} /\ CallersOk' /\ LemmasDiffer'
<1>1. calls' \in Seq(Call) /\ Len(calls') = 1 /\ calls'[1] = u /\ calls' # <<>> /\ DOMAIN calls' = 1..1
  OBVIOUS
<1>2. Top' = u
  BY <1>1 DEF Top
<1>3. \A i \in 1..1 : i = 1
  OBVIOUS
<1>4. Enqueuing' = {u.lemma}
  BY <1>1, <1>3 DEF Enqueuing
<1>5. LemmasDiffer'
  BY <1>1, <1>3 DEF LemmasDiffer
<1>6. CallersOk'
  <2>1. 1..1 - 1 = {}
    OBVIOUS
  <2>2. \A i, j \in 1..1 : ~(i < j)
    OBVIOUS
  <2> QED
    BY <2>1, <2>2, <1>1 DEF CallersOk
<1> QED
  BY <1>1, <1>2, <1>4, <1>5, <1>6

LEMMA AddLemmaIntoCacheKeeps ==
  ASSUME IInv, NEW l \in Lemma, AddLemmaIntoCache(l)
  PROVE  IInv'
<1>1. TypeOK /\ PlacesOk /\ PinnedOk /\ CacheBounded
  BY DEF IInv
<1>2. PICK q : Chains(q)
  BY DEF IInv
<1>3. /\ calls = <<>> /\ l \in unitLemmas /\ unitLemmas' = unitLemmas \ {l}
      /\ lastUsed' = [lastUsed EXCEPT ![l] = FALSE]
      /\ UNCHANGED <<queues, nBacktrackStackReferences, short, freeLemmas>>
  BY DEF AddLemmaIntoCache, Idle
<1>4. PICK u, n : n = nNumCachedLemmas[0] /\ u = PQEnqueue(0, l, n, pLPQLast[0])
  OBVIOUS
<1>5. calls' = <<u>>
  BY <1>4 DEF AddLemmaIntoCache
<1>6. 0 \in Queue /\ n \in Nat /\ pLPQLast[0] \in Lemma \cup {NULL}
  <2>1. 0 \in Queue
    BY DEF Queue
  <2> QED
    BY <2>1, <1>1, <1>4 DEF TypeOK
<1>7. /\ u \in Call /\ u.c = 0 /\ u.lemma = l /\ u.p = pLPQLast[0]
      /\ n <= Bound[0] \/ u.toRemove > 0
  BY <1>4, <1>6, CallType1
<1>8. /\ calls' \in Seq(Call) /\ Top' = u /\ calls' # <<>>
      /\ Enqueuing' = {l} /\ Enqueuing = {} /\ CallersOk' /\ LemmasDiffer'
  BY <1>3, <1>5, <1>7, FirstCall DEF Enqueuing
<1>9. TypeOK'
  <2>1. lastUsed' \in [Lemma -> BOOLEAN] /\ unitLemmas' \in SUBSET Lemma
    BY <1>1, <1>3 DEF TypeOK
  <2> QED
    BY <2>1, <1>1, <1>3, <1>8 DEF TypeOK, queues
<1>10. Pinned' = Pinned /\ l \notin Pinned /\ l \notin freeLemmas
  BY <1>1, <1>3 DEF Pinned, PlacesOk
<1>11. PlacesOk'
  <2>1. freeLemmas' \cap unitLemmas' = {} /\ Enqueuing' \cap (freeLemmas' \cup unitLemmas') = {}
    BY <1>1, <1>3, <1>8, <1>10 DEF PlacesOk
  <2>2. \A k \in Pinned' : k \in Lemma \ (freeLemmas' \cup unitLemmas' \cup Enqueuing')
    BY <1>1, <1>3, <1>8, <1>10 DEF PlacesOk
  <2> QED
    BY <2>1, <2>2, <1>8 DEF PlacesOk
<1>12. PinnedOk' /\ CacheBounded'
  BY <1>1, <1>3, <1>10 DEF PinnedOk, CacheBounded, queues
<1>13. Chains(q)'
  <2>1. ASSUME NEW d \in Queue PROVE InQueue(d)' = InQueue(d)
    BY <1>3, <1>8 DEF InQueue, queues
  <2> QED
    BY <2>1, <1>2, <1>3, ChainsKept
<1>14. CursorOk(q)'
  <2>1. IsChain(q[0], n, InQueue(0), pLPQFirst[0], pLPQLast[0], pLPQPrev, pLPQNext)
    BY <1>2, <1>4, <1>6 DEF Chains
  <2>2. u.p = q[u.c][n]
    BY <2>1, <1>7 DEF IsChain
  <2>3. nNumCachedLemmas'[u.c] = n /\ n \in 0..n /\ \A j \in 1..n : ~(j > n)
    BY <1>3, <1>4, <1>6, <1>7 DEF queues
  <2> QED
    BY <2>2, <2>3, <1>7, <1>8 DEF CursorOk, CursorAt, Room
<1> QED
  BY <1>8, <1>9, <1>11, <1>12, <1>13, <1>14 DEF IInv

LEMMA PopAndMoveToFrontKeeps ==
  ASSUME IInv, NEW l \in Lemma, PopAndMoveToFront(l)
  PROVE  IInv'
<1>1. TypeOK /\ PlacesOk /\ PinnedOk /\ CacheBounded
  BY DEF IInv
<1>2. PICK q : Chains(q)
  BY DEF IInv
<1>3. /\ calls = <<>> /\ nBacktrackStackReferences[l] > 0
      /\ nBacktrackStackReferences' = [nBacktrackStackReferences EXCEPT ![l] = @ - 1]
      /\ lastUsed' = [lastUsed EXCEPT ![l] = TRUE]
      /\ LPQDequeue(l) /\ UNCHANGED cache
      /\ UNCHANGED <<short, freeLemmas, unitLemmas>>
  BY DEF PopAndMoveToFront, Idle, LPQDequeue
<1>4. /\ nBacktrackStackReferences' \in [Lemma -> {0, 1}]
      /\ l \in Pinned /\ Pinned' = Pinned \ {l} /\ PinnedOk'
  BY <1>1, <1>3, Unpinned
<1>5. PICK c : c = cache[l]
  OBVIOUS
<1>6. c \in Queue /\ l \in InQueue(c) /\ l \notin freeLemmas /\ l \notin unitLemmas
  BY <1>1, <1>4, <1>5, InQueueIs DEF TypeOK, PlacesOk
<1>7. PICK n : n = nNumCachedLemmas[c]
  OBVIOUS
<1>8. IsChain(q[c], n, InQueue(c), pLPQFirst[c], pLPQLast[c], pLPQPrev, pLPQNext)
  BY <1>2, <1>6, <1>7 DEF Chains
<1>9. PICK k \in 1..n : q[c][k] = l
  BY <1>6, <1>8 DEF IsChain
<1>10. n - 1 \in Nat /\ nNumCachedLemmas' = [nNumCachedLemmas EXCEPT ![c] = @ - 1]
  <2>1. n \in Nat
    BY <1>8 DEF IsChain
  <2> QED
    BY <2>1, <1>3, <1>5 DEF LPQDequeue
<1>11. nNumCachedLemmas' \in [Queue -> Nat] /\ CacheBounded'
  BY <1>1, <1>6, <1>7, <1>10, RemovalMakesRoom
<1>12. PICK m, u : m = nNumCachedLemmas'[1] /\ u = PQEnqueue(1, l, m, pLPQLast'[1])
  OBVIOUS
<1>13. calls' = <<u>>
  BY <1>12 DEF PopAndMoveToFront
<1>14. 1 \in Queue /\ m \in Nat
  <2>1. 1 \in Queue
    BY DEF Queue
  <2> QED
    BY <2>1, <1>11, <1>12
<1>15. Enqueuing' = {l} /\ Enqueuing = {}
  <2>1. u.lemma = l
    BY <1>12 DEF PQEnqueue
  <2>2. DOMAIN calls' = 1..1 /\ calls'[1] = u /\ \A i \in 1..1 : i = 1
    BY <1>13
  <2> QED
    BY <2>1, <2>2, <1>3 DEF Enqueuing
<1>16. \A d \in Queue : InQueue(d)' = InQueue(d) \ {l}
  BY <1>3, <1>15 DEF InQueue
<1>17. /\ pLPQNext' \in [Lemma -> Lemma \cup {NULL}]
       /\ pLPQPrev' \in [Lemma -> Lemma \cup {NULL}]
       /\ pLPQFirst' \in [Queue -> Lemma \cup {NULL}]
       /\ pLPQLast' \in [Queue -> Lemma \cup {NULL}]
       /\ \E r : Chains(r)'
  <2>1. k \in 1..nNumCachedLemmas[c] /\ l = q[c][k]
    BY <1>7, <1>9
  <2> QED
    BY <2>1, <1>1, <1>2, <1>3, <1>6, <1>16, DequeueKeepsChains
<1>18. PICK r : Chains(r)'
  BY <1>17
<1>19. PICK last : last = pLPQLast'[1]
  OBVIOUS
<1>20. /\ u \in Call /\ u.c = 1 /\ u.lemma = l /\ u.p = last
       /\ m <= Bound[1] \/ u.toRemove > 0
  <2>1. last \in Lemma \cup {NULL}
    BY <1>14, <1>17, <1>19
  <2> QED
    BY <2>1, <1>12, <1>14, <1>19, CallType1
<1>21. /\ calls' \in Seq(Call) /\ Top' = u /\ calls' # <<>> /\ CallersOk' /\ LemmasDiffer'
  BY <1>13, <1>20, FirstCall
<1>22. TypeOK'
  <2>1. lastUsed' \in [Lemma -> BOOLEAN]
    BY <1>1, <1>3 DEF TypeOK
  <2> QED
    BY <2>1, <1>1, <1>3, <1>4, <1>11, <1>17, <1>21 DEF TypeOK
<1>23. PlacesOk'
  <2>1. freeLemmas' \cap unitLemmas' = {} /\ Enqueuing' \cap (freeLemmas' \cup unitLemmas') = {}
    BY <1>1, <1>3, <1>6, <1>15 DEF PlacesOk
  <2>2. \A x \in Pinned' : x \in Lemma \ (freeLemmas' \cup unitLemmas' \cup Enqueuing')
    BY <1>1, <1>3, <1>4, <1>15 DEF PlacesOk
  <2> QED
    BY <2>1, <2>2, <1>21 DEF PlacesOk
<1>24. CursorOk(r)'
  <2>1. IsChain(r[1], m, InQueue(1)', pLPQFirst'[1], last, pLPQPrev', pLPQNext')
    BY <1>12, <1>14, <1>18, <1>19 DEF Chains
  <2>2. u.p = r[u.c][m]
    BY <2>1, <1>20 DEF IsChain
  <2>3. nNumCachedLemmas'[u.c] = m /\ m \in 0..m /\ \A j \in 1..m : ~(j > m)
    BY <1>12, <1>14, <1>20
  <2> QED
    BY <2>2, <2>3, <1>20, <1>21 DEF CursorOk, CursorAt, Room
<1> QED
  BY <1>4, <1>11, <1>18, <1>21, <1>22, <1>23, <1>24 DEF IInv

-----------------------------------------------------------------------------
(* The theorems *)

LEMMA InitOk ==
  ASSUME Init
  PROVE  IInv
<1>1. TypeOK
  <2>1. 0 \in Queue /\ 0 \in Nat /\ calls \in Seq(Call)
    BY DEF Init, Queue
  <2> QED
    BY <2>1 DEF Init, TypeOK
<1>2. calls = <<>> /\ Len(calls) = 0 /\ Enqueuing = {} /\ Pinned = {}
  BY DEF Init, Enqueuing, Pinned
<1>3. PlacesOk /\ CallersOk
  BY <1>2 DEF Init, PlacesOk, CallersOk, LemmasDiffer
<1>4. PinnedOk
  BY <1>2, FS_EmptySet, PinnedAssumption DEF PinnedOk
<1>5. CacheBounded
  <2>1. ASSUME NEW c \in Queue PROVE nNumCachedLemmas[c] <= MaxPinned + 1
    BY PinnedAssumption DEF Init
  <2> QED
    BY <2>1 DEF CacheBounded
<1>6. PICK q : q = [c \in Queue |-> [i \in 0..1 |-> NULL]]
  OBVIOUS
<1>7. Chains(q)
  <2>1. ASSUME NEW c \in Queue
        PROVE  IsChain(q[c], nNumCachedLemmas[c], InQueue(c),
                       pLPQFirst[c], pLPQLast[c], pLPQPrev, pLPQNext)
    <3>1. PICK s : s = q[c]
      OBVIOUS
    <3>2. s \in [0..0 + 1 -> Lemma \cup {NULL}] /\ s[0] = NULL /\ s[0 + 1] = NULL /\ s[1] = NULL
      BY <3>1, <1>6
    <3>3. InQueue(c) = {} /\ nNumCachedLemmas[c] = 0 /\ pLPQFirst[c] = NULL /\ pLPQLast[c] = NULL
      BY DEF InQueue, Init
    <3>4. 1..0 = {}
      OBVIOUS
    <3>5. IsChain(s, 0, {}, NULL, NULL, pLPQPrev, pLPQNext)
      BY <3>2, <3>4 DEF IsChain
    <3> QED
      BY <3>1, <3>3, <3>5
  <2> QED
    BY <2>1, <1>6 DEF Chains
<1>8. CursorOk(q)
  BY <1>2 DEF CursorOk
<1> QED
  BY <1>1, <1>3, <1>4, <1>5, <1>7, <1>8 DEF IInv

LEMMA StutterKeeps ==
  ASSUME IInv, UNCHANGED vars
  PROVE  IInv'
<1>1. TypeOK' /\ CacheBounded' /\ CallersOk' /\ Pinned' = Pinned /\ Enqueuing' = Enqueuing
  BY DEF IInv, vars, queues, usage, TypeOK, CacheBounded, CallersOk, Room, Pinned, Enqueuing
<1>2. PlacesOk' /\ PinnedOk'
  BY <1>1 DEF IInv, vars, PlacesOk, PinnedOk, LemmasDiffer
<1>3. PICK q : Chains(q) /\ CursorOk(q)
  BY DEF IInv
<1>4. Chains(q)'
  <2>1. ASSUME NEW d \in Queue PROVE InQueue(d)' = InQueue(d)
    BY <1>1 DEF InQueue, vars, queues
  <2>2. UNCHANGED queues
    BY DEF vars
  <2> QED
    BY <2>1, <2>2, <1>3, ChainsKept
<1>5. CursorOk(q)'
  BY <1>1, <1>3 DEF vars, queues, CursorOk, CursorAt, Room, Top
<1> QED
  BY <1>1, <1>2, <1>4, <1>5 DEF IInv

LEMMA StepKeeps ==
  ASSUME IInv, [Next]_vars
  PROVE  IInv'
<1>1. CASE SkipPinned
  BY <1>1, SkipPinnedKeeps
<1>2. CASE RemoveFree
  BY <1>2, RemoveFreeKeeps
<1>3. CASE RemoveKeep
  BY <1>3, RemoveKeepKeeps
<1>4. CASE EndEnqueue
  BY <1>4, EndEnqueueKeeps
<1>5. ASSUME NEW l \in Lemma, NEW isShort \in BOOLEAN, AddLemma(l, isShort)
      PROVE  IInv'
  BY <1>5, AddLemmaKeeps
<1>6. ASSUME NEW l \in Lemma, AddLemmaIntoCache(l) PROVE IInv'
  BY <1>6, AddLemmaIntoCacheKeeps
<1>7. ASSUME NEW l \in Lemma, LemmaInfers(l) PROVE IInv'
  BY <1>7, LemmaInfersKeeps
<1>8. ASSUME NEW l \in Lemma, LemmaConflict(l) PROVE IInv'
  BY <1>8, LemmaConflictKeeps
<1>9. ASSUME NEW l \in Lemma, PopInference(l) PROVE IInv'
  BY <1>9, PopInferenceKeeps
<1>10. ASSUME NEW l \in Lemma, PopAndMoveToFront(l) PROVE IInv'
  BY <1>10, PopAndMoveToFrontKeeps
<1>11. CASE UNCHANGED vars
  BY <1>11, StutterKeeps
<1> QED
  BY <1>1, <1>2, <1>3, <1>4, <1>5, <1>6, <1>7, <1>8, <1>9, <1>10, <1>11
     DEF Next, CacheStep, SolverStep

LEMMA Invariance == Spec => []IInv
<1>1. Init => IInv
  BY InitOk
<1>2. IInv /\ [Next]_vars => IInv'
  BY StepKeeps
<1> QED
  BY <1>1, <1>2, PTL DEF Spec

(* The links of a chain, followed from either of its ends. *)
Downward(s, n) == [i \in 0..n |-> s[i + 1]]
Upward(s, n) == [i \in 0..n |-> s[n - i]]

LEMMA ChainFollowed ==
  ASSUME NEW s, NEW n, NEW S, S \subseteq Lemma, NEW first, NEW last, NEW prev, NEW next,
         IsChain(s, n, S, first, last, prev, next)
  PROVE  Follow(n, first, next) = Downward(s, n) /\ Follow(n, last, prev) = Upward(s, n)
<1>1. n \in Nat /\ first = s[1] /\ last = s[n]
  BY DEF IsChain
<1>2. \A i \in 1..n : prev[s[i]] = s[i - 1] /\ next[s[i]] = s[i + 1]
  BY DEF IsChain
<1>3. \A i \in 1..n : s[i] # NULL
  BY LemmaAssumption DEF IsChain
<1>4. PICK g, h : g = Downward(s, n) /\ h = Upward(s, n)
  OBVIOUS
<1>5. /\ g = [i \in 0..n |-> g[i]] /\ h = [i \in 0..n |-> h[i]]
      /\ \A i \in 0..n : g[i] = s[i + 1] /\ h[i] = s[n - i]
  BY <1>4 DEF Downward, Upward
<1>6. 0 \in 0..n /\ 0 + 1 = 1 /\ n - 0 = n
  BY <1>1
<1>7. g[0] = first /\ h[0] = last
  BY <1>1, <1>5, <1>6
<1>8. ASSUME NEW i \in 1..n
      PROVE  /\ g[i - 1] # NULL /\ g[i] = next[g[i - 1]]
             /\ h[i - 1] # NULL /\ h[i] = prev[h[i - 1]]
  <2>1. i \in 0..n /\ i - 1 \in 0..n /\ (i - 1) + 1 = i
    BY <1>1
  <2>2. PICK j : j = n - (i - 1)
    OBVIOUS
  <2>3. j \in 1..n /\ j - 1 = n - i
    BY <1>1, <2>2
  <2>4. g[i - 1] = s[i] /\ g[i] = s[i + 1] /\ h[i - 1] = s[j] /\ h[i] = s[j - 1]
    BY <1>5, <2>1, <2>2, <2>3
  <2> QED
    BY <1>2, <1>3, <2>3, <2>4
<1>9. Follow(n, first, next) = g
  <2>1. \A i \in 1..n : g[i] = IF g[i - 1] = NULL THEN NULL ELSE next[g[i - 1]]
    BY <1>8
  <2>2. Follows(g, n, first, next)
    BY <2>1, <1>5, <1>7 DEF Follows
  <2> QED
    BY <2>2, <1>1, FollowIs
<1>10. Follow(n, last, prev) = h
  <2>1. \A i \in 1..n : h[i] = IF h[i - 1] = NULL THEN NULL ELSE prev[h[i - 1]]
    BY <1>8
  <2>2. Follows(h, n, last, prev)
    BY <2>1, <1>5, <1>7 DEF Follows
  <2> QED
    BY <2>2, <1>1, FollowIs
<1> QED
  BY <1>4, <1>9, <1>10

LEMMA ChainsLinked ==
  ASSUME NEW q, Chains(q), NEW c \in Queue
  PROVE  Linked(c)
<1>1. PICK s, n, S, first, last, prev, next :
         /\ s = q[c] /\ n = nNumCachedLemmas[c] /\ S = InQueue(c)
         /\ first = pLPQFirst[c] /\ last = pLPQLast[c] /\ prev = pLPQPrev /\ next = pLPQNext
  OBVIOUS
<1>2. IsChain(s, n, S, first, last, prev, next) /\ S \subseteq Lemma
  BY <1>1, InQueueIs DEF Chains
<1>3. Cardinality(S) = n
  BY <1>2, ChainLength
<1>4. /\ n \in Nat /\ s[0] = NULL /\ s[n + 1] = NULL
      /\ \A i \in 1..n : s[i] \in S
      /\ \A l \in S : \E i \in 1..n : s[i] = l
  BY <1>2 DEF IsChain
<1>5. PICK down, up : down = Downward(s, n) /\ up = Upward(s, n)
  OBVIOUS
<1>6. Follow(n, first, next) = down /\ Follow(n, last, prev) = up
  BY <1>2, <1>5, ChainFollowed
<1>7. \A i \in 0..n : down[i] = s[i + 1] /\ up[i] = s[n - i]
  BY <1>5 DEF Downward, Upward
<1>8. down[n] = NULL /\ up[n] = NULL
  <2>1. n \in 0..n /\ n - n = 0
    BY <1>4
  <2> QED
    BY <2>1, <1>4, <1>7
<1>9. \A i \in 0..n - 1 : up[i] = down[n - 1 - i]
  <2>1. ASSUME NEW i \in 0..n - 1 PROVE i \in 0..n /\ n - 1 - i \in 0..n /\ (n - 1 - i) + 1 = n - i
    BY <1>4
  <2> QED
    BY <2>1, <1>7
<1>10. {down[i] : i \in 0..n - 1} = S
  <2>1. ASSUME NEW i \in 0..n - 1 PROVE down[i] \in S
    <3>1. i \in 0..n /\ i + 1 \in 1..n
      BY <1>4
    <3> QED
      BY <3>1, <1>4, <1>7
  <2>2. ASSUME NEW l \in S PROVE \E i \in 0..n - 1 : down[i] = l
    <3>1. PICK j \in 1..n : s[j] = l
      BY <1>4
    <3>2. j - 1 \in 0..n - 1 /\ j - 1 \in 0..n /\ (j - 1) + 1 = j
      BY <1>4
    <3>3. down[j - 1] = l
      BY <3>1, <3>2, <1>7
    <3> QED
      BY <3>2, <3>3
  <2> QED
    BY <2>1, <2>2
<1> QED
  BY <1>1, <1>3, <1>6, <1>8, <1>9, <1>10 DEF Linked

(* The links of each queue, followed from either end, go through exactly   *)
(* the lemmas that are in it, and its counter is their number, in every    *)
(* state between the turns of RemoveLemmasFromCache (lemmacache.cc:136).   *)
THEOREM QueuesStayLinked == Spec => []QueuesLinked
<1>1. IInv => QueuesLinked
  BY ChainsLinked DEF IInv, QueuesLinked
<1> QED
  BY <1>1, Invariance, PTL

(* A lemma is free, waits as a unit lemma, is being passed on by one call, *)
(* or is cached, and what the backtrack stack refers to is cached          *)
(* (lemmacache.cc:222, br_backtrack.cc). *)
THEOREM InOnePlace == Spec => []OnePlace
<1>1. IInv => OnePlace
  <2>1. ASSUME IInv PROVE OnePlace
    <3>1. TypeOK /\ PlacesOk
      BY <2>1 DEF IInv
    <3>2. DOMAIN calls = 1..Len(calls)
      BY <3>1 DEF TypeOK
    <3>3. \A l \in Lemma : nBacktrackStackReferences[l] > 0 => l \in Cached
      BY <3>1, CachedIs DEF PlacesOk, Pinned
    <3> QED
      BY <3>1, <3>2, <3>3 DEF OnePlace, PlacesOk, LemmasDiffer
  <2> QED
    BY <2>1
<1> QED
  BY <1>1, Invariance, PTL

(* However the removals nest and wherever a loop gives up, a queue has at  *)
(* most one lemma more than its bound, or one more than can be referred to *)
(* at one time (lemmacache.cc:166-191). *)
THEOREM CacheStaysBounded == Spec => []CacheBounded
<1>1. IInv => CacheBounded
  BY DEF IInv
<1> QED
  BY <1>1, Invariance, PTL

(* Trimming the queues frees no lemma that an inference on the backtrack   *)
(* stack refers to, and none that a call is about to enqueue               *)
(* (lemmacache.cc:153, br_backtrack.cc:171). *)
THEOREM InUseStays == Spec => InUseKept
<1> DEFINE Step == \A l \in Lemma :
                     (nBacktrackStackReferences[l] > 0 \/ l \in Enqueuing) => l \notin freeLemmas'
<1>1. ASSUME IInv, [Next]_vars PROVE Step
  <2>1. TypeOK /\ PlacesOk
    BY <1>1 DEF IInv
  <2>2. ASSUME NEW l \in Lemma, nBacktrackStackReferences[l] > 0 \/ l \in Enqueuing
        PROVE  l \notin freeLemmas
    BY <2>1, <2>2 DEF PlacesOk, Pinned
  <2>3. CASE RemoveFree
    <3>1. PICK q : Chains(q) /\ CursorOk(q)
      BY <1>1 DEF IInv
    <3>2. Removing /\ calls # <<>> /\ Freeable(Top.p) /\ freeLemmas' = freeLemmas \cup {Top.p}
      BY <2>3 DEF RemoveFree, Removing
    <3>3. Top.p \in InQueue(Top.c) /\ Top.p \in Lemma /\ Top.c \in Queue
      BY <2>1, <3>1, <3>2, LoopAt, TopType
    <3>4. Top.p \notin Enqueuing /\ Top.p \notin Pinned
      BY <2>1, <3>2, <3>3, FreeableIs, InQueueIs
    <3> QED
      BY <2>2, <3>2, <3>4 DEF Pinned
  <2>4. CASE freeLemmas' \subseteq freeLemmas
    BY <2>2, <2>4
  <2>5. RemoveFree \/ freeLemmas' \subseteq freeLemmas
    BY <1>1 DEF Next, CacheStep, SolverStep, SkipPinned, RemoveKeep, EndEnqueue, AddLemma,
                AddLemmaIntoCache, LemmaInfers, LemmaConflict, PopInference,
                PopAndMoveToFront, vars
  <2> QED
    BY <2>3, <2>4, <2>5
<1> HIDE DEF Step
<1>2. IInv /\ [Next]_vars => [Step]_vars
  BY <1>1
<1>3. Spec => [][Step]_vars
  BY <1>2, Invariance, PTL DEF Spec
<1> QED
  BY <1>3 DEF InUseKept, Step
=============================================================================
